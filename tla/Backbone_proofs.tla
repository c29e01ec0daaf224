--------------------------- MODULE Backbone_proofs ----------------------------
(***************************************************************************)
(* Proofs about Backbone, for every value of the constants.  The part of   *)
(* the state that belongs to recruitment is known from the theorems of     *)
(* CandidateLifecycle_proofs; of onboarding only the shape of its variables *)
(* is needed.                                                              *)
(***************************************************************************)
EXTENDS Backbone, CandidateLifecycle_proofs

JobShape ==
    /\ job \in [Jobs -> [pc : On!JobPc, candidate : Candidates, tries : Nat]]
    /\ crashes \in Nat /\ errors \in Nat

EmployeeShape ==
    /\ DOMAIN employee = Candidates
    /\ \A c \in Candidates : DOMAIN employee[c] = {"origin", "active", "setup"}
    /\ \A c \in Candidates : employee[c].origin \in On!Origins

ClerkShape ==
    /\ DOMAIN clerk = Clerks
    /\ \A r \in Clerks : DOMAIN clerk[r] = {"pc", "candidate", "edit", "view"}
    /\ \A r \in Clerks : clerk[r].candidate \in Candidates

Shape ==
    /\ JobShape /\ EmployeeShape /\ ClerkShape
    /\ process \in [Candidates -> On!ProcessStatus]

-------------------------------------------------------------------------------
(* Each side alone *)

LEMMA RecruitmentStep == [BackboneNext]_system => [Next]_vars
<1>1. Recruit => Next
  BY DEF Recruit, Next, Advance
<1>2. ASSUME NEW r \in Requests, NEW j \in Jobs, Deliver(r, j) PROVE Next
  BY <1>2 DEF Deliver, Next, Advance
<1> QED BY <1>1, <1>2 DEF BackboneNext, Onboard, system

\* What holds of CandidateLifecycle alone holds of it in the whole system.
THEOREM RecruitmentAlone == BackboneSpec => Spec
<1>1. BackboneInit => Init
  BY DEF BackboneInit
<1> QED BY <1>1, RecruitmentStep, PTL DEF BackboneSpec, Spec

LEMMA OnboardingStep == TypeOK /\ [BackboneNext]_system => [On!Next]_(On!vars)
<1>1. Onboard => On!Next
  BY DEF Onboard, On!Next
<1>2. ASSUME TypeOK, NEW r \in Requests, NEW j \in Jobs, Deliver(r, j) PROVE On!Next
  <2>1. request[r].candidate \in Candidates
    BY <1>2 DEF TypeOK, Handler
  <2> QED BY <1>2, <2>1 DEF Deliver, On!Next
<1>3. UNCHANGED onboarding => UNCHANGED On!vars
  BY DEF onboarding, On!vars, On!rows, On!worker
<1> QED BY <1>1, <1>2, <1>3 DEF BackboneNext, Recruit, system

\* And so it is for Onboarding: the hand-over adds nothing to either.
THEOREM OnboardingAlone == BackboneSpec => On!Spec
<1>1. BackboneInit => On!Init
  BY DEF BackboneInit
<1> QED BY <1>1, OnboardingStep, RecruitmentAlone, TypeCorrect, PTL
        DEF BackboneSpec, On!Spec

-------------------------------------------------------------------------------
(* The hand-over *)

LEMMA HandOverInit == BackboneInit => Shape /\ HandOver
<1> SUFFICES ASSUME BackboneInit PROVE Shape /\ HandOver
  OBVIOUS
<1>1. Shape
  BY DEF BackboneInit, On!Init, Shape, JobShape, EmployeeShape, ClerkShape, On!JobPc,
      On!ProcessStatus, On!Origins
<1>2. HandOver
  BY DEF BackboneInit, Init, On!Init, HandOver, TriesInv, JobInv, QueueInv,
     ProcessInv, ClerkInv, On!Running
<1> QED BY <1>1, <1>2

\* Recruitment leaves onboarding alone and, but for Deliver, publishes nothing.
LEMMA RecruitStep ==
    ASSUME TypeOK, Shape, HandOver, Recruit
    PROVE  Shape' /\ HandOver'
<1>1. UNCHANGED onboarding
  BY DEF Recruit
<1>2. published' = published /\ (faults > 0 => faults' > 0)
  <2>1. faults \in Nat
    BY FaultsAssumption DEF TypeOK, FaultsAssumption
  <2>2. ASSUME NEW r \in Requests, NewRequest(r)
        PROVE  published' = published /\ faults' = faults
    BY <2>2 DEF NewRequest, BeginSchedule, BeginCreate, BeginReplacement,
       BeginReschedule, BeginCancel, BeginComplete, BeginDecision, Begin, events
  <2>3. ASSUME NEW r \in Requests, Resume(r)
        PROVE  published' = published /\ faults' \in {faults, faults + 1}
    BY <2>3 DEF Resume, events, CreateEvent, PersistInterview, PatchEvent,
       PersistMove, DeleteEvent, CloseInterview, CalendarRefuses, Decide, Collect,
       CallOff, MarkCancelled, CalledOff, RowGone
  <2>4. ASSUME NEW r \in Requests, Fail(r) \/ \E i \in Slots : RetryCreate(r, i)
        PROVE  published' = published /\ faults' = faults + 1
    BY <2>4 DEF Fail, RetryCreate, events
  <2>5. ASSUME Retention
        PROVE  published' = published /\ faults' \in {faults, faults + 1}
    <3>1. CASE \E batch \in (SUBSET Candidates) \ {{}} : SelectExpired(batch)
      BY <3>1 DEF SelectExpired, events
    <3>2. ASSUME NEW c \in Candidates, DeleteExpired(c) \/ RetentionFails(c)
          PROVE  published' = published /\ faults' \in {faults, faults + 1}
      BY <3>2 DEF DeleteExpired, RetentionFails, events
    <3> QED BY <2>5, <3>1, <3>2 DEF Retention
  <2> QED BY <2>1, <2>2, <2>3, <2>4, <2>5 DEF Recruit
<1> QED BY <1>1, <1>2 DEF onboarding, Shape, JobShape, EmployeeShape,
        ClerkShape, HandOver, TriesInv, JobInv, QueueInv,
        ProcessInv, ClerkInv, InQueue, Excused

\* A publication and its job appear in one step.
LEMMA DeliverStep ==
    ASSUME TypeOK, Shape, HandOver,
           NEW r \in Requests, NEW j \in Jobs, Deliver(r, j)
    PROVE  Shape' /\ HandOver'
<1> DEFINE c == request[r].candidate
<1>1. c \in Candidates
  BY DEF TypeOK, Handler
<1>2. /\ published' = published \cup {c}
      /\ faults' = faults
  BY DEF Deliver, Publish
<1>3. /\ job[j].pc = "none"
      /\ job'[j] = [pc |-> "queued", candidate |-> c, tries |-> job[j].tries]
      /\ \A k \in Jobs \ {j} : job'[k] = job[k]
      /\ job' \in [Jobs -> [pc : On!JobPc, candidate : Candidates, tries : Nat]]
  <2>1. "queued" \in On!JobPc
    BY DEF On!JobPc
  <2> QED BY <1>1, <2>1 DEF Deliver, On!Publish, Shape, JobShape
<1>4. UNCHANGED <<process, done, employee, lock, clerk, audit, activations, edited,
                  crashes, errors>>
  BY DEF Deliver, On!Publish, On!rows
<1>5. Shape'
  BY <1>3, <1>4 DEF Shape, JobShape, EmployeeShape, ClerkShape
<1>6. TriesInv' /\ ProcessInv' /\ ClerkInv'
  BY <1>2, <1>3, <1>4 DEF HandOver, TriesInv, ProcessInv, ClerkInv, On!Running, Shape,
     JobShape
<1>7. JobInv'
  BY <1>2, <1>3, <1>4 DEF HandOver, JobInv, Excused
<1>8. QueueInv'
  BY <1>2, <1>3, <1>4 DEF HandOver, QueueInv, InQueue, Excused
<1> QED BY <1>5, <1>6, <1>7, <1>8 DEF HandOver

\* What a handler of the onboarding or employee endpoints leaves of the rows.
ClerkKeeps ==
    /\ process' \in [Candidates -> On!ProcessStatus]
    /\ \A c \in Candidates :
         /\ process'[c] = "none" <=> process[c] = "none"
         /\ employee'[c].origin \in {employee[c].origin, "direct"}
    /\ EmployeeShape' /\ ClerkShape' /\ ClerkInv'

LEMMA NewRequestKeeps ==
    ASSUME Shape, HandOver, NEW r \in Clerks, On!NewRequest(r)
    PROVE  ClerkKeeps
<1>1. PICK c \in Candidates, pc \in {"wait", "put", "delete"} :
        /\ pc = "wait" => process[c] # "none"
        /\ \E edit, view : On!Enter(r, c, pc, edit, view)
        /\ UNCHANGED On!rows
  BY DEF On!NewRequest, On!CompleteTask, On!RevertTask, On!UpdateSetup, On!BeginPut,
     On!BeginDelete
<1>2. PICK edit, view :
        clerk' = [clerk EXCEPT ![r] = [pc |-> pc, candidate |-> c, edit |-> edit,
                                       view |-> view]]
  BY <1>1 DEF On!Enter
<1>3. ClerkShape'
  BY <1>2 DEF Shape, ClerkShape
<1>4. ClerkInv'
  BY <1>1, <1>2 DEF Shape, ClerkShape, HandOver, ClerkInv, On!rows
<1> QED BY <1>1, <1>3, <1>4 DEF ClerkKeeps, Shape, EmployeeShape, On!rows

LEMMA RespondKeeps ==
    ASSUME Shape, HandOver, NEW r \in Clerks, On!Respond(r),
           \A c \in Candidates : process[c] # "none" => process'[c] # "none"
    PROVE  ClerkShape' /\ ClerkInv'
<1>1. /\ clerk'[r].pc = "idle"
      /\ clerk'[r].candidate = clerk[r].candidate
      /\ \A q \in Clerks \ {r} : clerk'[q] = clerk[q]
      /\ ClerkShape'
  BY DEF On!Respond, Shape, ClerkShape
<1> QED BY <1>1 DEF Shape, ClerkShape, HandOver, ClerkInv

LEMMA CommitKeeps ==
    ASSUME Shape, HandOver, NEW r \in Clerks, On!Commit(r)
    PROVE  ClerkKeeps
<1> DEFINE c == clerk[r].candidate
<1>1. process[c] # "none" /\ c \in Candidates
  BY DEF On!Commit, Shape, ClerkShape, HandOver, ClerkInv
<1>2. PICK status2 \in {"complete", process[c]} :
        process' = [process EXCEPT ![c] = status2]
  BY DEF On!Commit
<1>3. PICK setup, active :
        employee' = [employee EXCEPT ![c].setup = setup, ![c].active = active]
  BY DEF On!Commit
<1>4. /\ process' \in [Candidates -> On!ProcessStatus]
      /\ \A d \in Candidates : process'[d] = "none" <=> process[d] = "none"
  BY <1>1, <1>2 DEF Shape, On!ProcessStatus
<1>5. EmployeeShape' /\ \A d \in Candidates : employee'[d].origin = employee[d].origin
  BY <1>1, <1>3 DEF Shape, EmployeeShape
<1>6. ClerkShape' /\ ClerkInv'
  BY <1>4, RespondKeeps DEF On!Commit
<1> QED BY <1>4, <1>5, <1>6 DEF ClerkKeeps

LEMMA ClerkStep ==
    ASSUME Shape, HandOver, NEW r \in Clerks,
           On!NewRequest(r) \/ On!HrStep(r) \/ On!EmployeeStep(r) \/ On!Abort(r)
    PROVE  ClerkKeeps
<1>1. CASE On!NewRequest(r)
  BY <1>1, NewRequestKeeps
<1>2. CASE On!LockProcess(r) \/ On!ReadView(r)
  <2>1. /\ clerk'[r].candidate = clerk[r].candidate
        /\ clerk[r].pc \in {"wait", "held"}
        /\ \A q \in Clerks \ {r} : clerk'[q] = clerk[q]
        /\ ClerkShape'
    BY <1>2 DEF On!LockProcess, On!ReadView, Shape, ClerkShape
  <2>2. UNCHANGED On!rows
    BY <1>2 DEF On!LockProcess, On!ReadView
  <2>3. ClerkInv'
    BY <2>1, <2>2 DEF HandOver, ClerkInv, On!rows
  <2> QED BY <2>1, <2>2, <2>3 DEF ClerkKeeps, Shape, EmployeeShape, On!rows
<1>3. CASE On!RejectCompleted(r) \/ On!Abort(r)
  <2>1. UNCHANGED On!rows /\ On!Respond(r)
    BY <1>3 DEF On!RejectCompleted, On!Abort
  <2>2. ClerkShape' /\ ClerkInv'
    BY <2>1, RespondKeeps DEF On!rows
  <2> QED BY <2>1, <2>2 DEF ClerkKeeps, Shape, EmployeeShape, On!rows
<1>4. CASE On!Commit(r)
  BY <1>4, CommitKeeps
<1>5. CASE On!CommitPut(r) \/ On!CommitDelete(r)
  <2>1. UNCHANGED process /\ On!Respond(r)
    BY <1>5 DEF On!CommitPut, On!CommitDelete
  <2>2. ClerkShape' /\ ClerkInv'
    BY <2>1, RespondKeeps
  <2>3. PICK c, setup, active :
          \/ employee' = [employee EXCEPT ![c].setup = setup]
          \/ employee' = [employee EXCEPT ![c].active = active]
    BY <1>5 DEF On!CommitPut, On!CommitDelete
  <2>4. EmployeeShape' /\ \A d \in Candidates : employee'[d].origin = employee[d].origin
    BY <2>3 DEF Shape, EmployeeShape
  <2> QED BY <2>1, <2>2, <2>4 DEF ClerkKeeps, Shape
<1> QED BY <1>1, <1>2, <1>3, <1>4, <1>5 DEF On!HrStep, On!EmployeeStep

LEMMA PromoteKeeps ==
    ASSUME Shape, HandOver, NEW c \in Candidates, NEW setup, On!Promote(c, setup)
    PROVE  ClerkKeeps
<1>1. UNCHANGED <<process, clerk>>
  BY DEF On!Promote
<1>2. EmployeeShape'
        /\ \A d \in Candidates : employee'[d].origin \in {employee[d].origin, "direct"}
  BY DEF On!Promote, Shape, EmployeeShape, On!Origins
<1> QED BY <1>1, <1>2 DEF ClerkKeeps, Shape, ClerkShape, HandOver, ClerkInv

\* Nothing those handlers do touches a job or undoes the start of a process.
LEMMA ClerkHandOver ==
    ASSUME TypeOK, Shape, HandOver, ClerkKeeps, UNCHANGED vars,
           UNCHANGED <<job, crashes, errors>>
    PROVE  Shape' /\ HandOver'
<1>1. UNCHANGED <<published, faults>>
  BY DEF vars, events
<1>2. \A c \in Candidates : Excused(c) => Excused(c)'
  BY <1>1 DEF Excused, ClerkKeeps
<1>3. Shape'
  BY DEF Shape, ClerkKeeps, JobShape
<1>4. TriesInv' /\ ClerkInv'
  BY DEF HandOver, TriesInv, ClerkKeeps
<1>5. JobInv'
  BY <1>1, <1>2 DEF HandOver, JobInv, ClerkKeeps, Shape, JobShape
<1>6. QueueInv'
  BY <1>1, <1>2 DEF TypeOK, HandOver, QueueInv, InQueue, ClerkKeeps
<1>7. ProcessInv'
  BY <1>1 DEF HandOver, ProcessInv, ClerkKeeps
<1> QED BY <1>3, <1>4, <1>5, <1>6, <1>7 DEF HandOver

-------------------------------------------------------------------------------
(* The worker *)

LEMMA GotoJob ==
    ASSUME JobShape, NEW j \in Jobs, NEW from, NEW to \in On!JobPc,
           On!Goto(j, from, to), crashes' \in Nat, errors' \in Nat
    PROVE  /\ JobShape'
           /\ job[j].pc = from /\ job'[j].pc = to
           /\ job'[j].candidate = job[j].candidate /\ job'[j].tries = job[j].tries
           /\ \A k \in Jobs \ {j} : job'[k] = job[k]
BY DEF JobShape, On!Goto

\* A job that moves on without a write to the rows.
LEMMA JobMoves ==
    ASSUME TypeOK, Shape, HandOver, UNCHANGED vars,
           UNCHANGED <<process, employee, clerk, crashes>>,
           errors' \in {errors, errors + 1},
           NEW j \in Jobs, NEW from \in On!JobPc \ {"none"},
           NEW to \in On!JobPc \ {"none", "queued", "reject"},
           On!Goto(j, from, to), NEW c \in Candidates, c = job[j].candidate,
           to \in On!Running => from \in On!Running,
           to = "duplicate" => process[c] # "none",
           to \in {"raised", "returned", "ok", "failed"}
             => process[c] # "none" \/ Excused(c)'
    PROVE  Shape' /\ HandOver'
<1>1. /\ JobShape'
      /\ job[j].pc = from /\ job'[j].pc = to
      /\ job'[j].candidate = job[j].candidate /\ job'[j].tries = job[j].tries
      /\ \A k \in Jobs \ {j} : job'[k] = job[k]
  BY GotoJob DEF Shape, JobShape
<1>2. UNCHANGED <<published, faults>>
  BY DEF vars, events
<1>3. \A d \in Candidates : Excused(d) => Excused(d)'
  BY <1>2 DEF Excused, Shape, JobShape
<1>4. \A k \in Jobs : job[k].candidate \in Candidates
  BY DEF Shape, JobShape
<1>5. Shape'
  BY <1>1 DEF Shape, EmployeeShape, ClerkShape
<1>6. TriesInv'
  BY <1>1 DEF HandOver, TriesInv, On!Running, On!JobPc
<1>7. JobInv'
  BY <1>1, <1>2, <1>3, <1>4 DEF HandOver, JobInv
<1>8. QueueInv'
  BY <1>1, <1>2, <1>3, <1>4 DEF TypeOK, HandOver, QueueInv, InQueue
<1>9. ProcessInv' /\ ClerkInv'
  BY <1>2 DEF HandOver, ProcessInv, ClerkInv
<1> QED BY <1>5, <1>6, <1>7, <1>8, <1>9 DEF HandOver

LEMMA StartStep ==
    ASSUME TypeOK, Shape, HandOver, UNCHANGED vars, NEW j \in Jobs, On!Start(j)
    PROVE  Shape' /\ HandOver'
<1> DEFINE pc == IF job[j].candidate \in Malformed THEN "reject" ELSE "lookup"
<1>1. /\ job[j].pc = "queued"
      /\ job'[j].pc = pc
      /\ job'[j].candidate = job[j].candidate /\ job'[j].tries = job[j].tries + 1
      /\ \A k \in Jobs \ {j} : job'[k] = job[k]
      /\ JobShape'
  BY DEF On!Start, Shape, JobShape, On!JobPc
<1>2. UNCHANGED <<published, faults, process, employee, clerk, crashes, errors>>
  BY DEF vars, events, On!Start, On!rows
<1>3. Shape'
  BY <1>1, <1>2 DEF Shape, EmployeeShape, ClerkShape
<1>4. TriesInv'
  BY <1>1, <1>2 DEF HandOver, TriesInv, On!Running, Shape, JobShape
<1>5. JobInv'
  BY <1>1, <1>2 DEF HandOver, JobInv, Excused
<1>6. QueueInv'
  BY <1>1, <1>2 DEF TypeOK, HandOver, QueueInv, InQueue, Excused
<1>7. ProcessInv' /\ ClerkInv'
  BY <1>2 DEF HandOver, ProcessInv, ClerkInv
<1> QED BY <1>3, <1>4, <1>5, <1>6, <1>7 DEF HandOver

LEMMA CreateStep ==
    ASSUME TypeOK, Shape, HandOver, UNCHANGED vars, NEW j \in Jobs, On!Create(j)
    PROVE  Shape' /\ HandOver'
<1> DEFINE c == job[j].candidate
<1>1. /\ JobShape'
      /\ job[j].pc = "create" /\ job'[j].pc = "returned"
      /\ job'[j].candidate = c /\ job'[j].tries = job[j].tries
      /\ \A k \in Jobs \ {j} : job'[k] = job[k]
  BY GotoJob DEF On!Create, Shape, JobShape, On!JobPc
<1>2. UNCHANGED <<published, faults, clerk, crashes, errors>>
  BY DEF vars, events, On!Create
<1>3. /\ c \in Candidates
      /\ process' \in [Candidates -> On!ProcessStatus]
      /\ process'[c] # "none"
      /\ \A d \in Candidates \ {c} : process'[d] = process[d]
  BY DEF On!Create, Shape, JobShape, On!ProcessStatus
<1>4. /\ EmployeeShape'
      /\ employee'[c].origin = "onboarding"
      /\ \A d \in Candidates \ {c} : employee'[d] = employee[d]
  BY <1>3 DEF On!Create, Shape, EmployeeShape, On!Origins
<1>5. \A d \in Candidates \ {c} : Excused(d) => Excused(d)'
  BY <1>2, <1>4 DEF Excused
<1>6. \A k \in Jobs : job[k].candidate \in Candidates
  BY DEF Shape, JobShape
<1>7. Shape'
  BY <1>1, <1>2, <1>3, <1>4 DEF Shape, ClerkShape
<1>8. TriesInv'
  BY <1>1, <1>2 DEF HandOver, TriesInv, On!Running
<1>9. JobInv'
  BY <1>1, <1>2, <1>3, <1>5, <1>6 DEF HandOver, JobInv
<1>10. QueueInv'
  BY <1>1, <1>2, <1>3, <1>5, <1>6 DEF TypeOK, HandOver, QueueInv, InQueue
<1>11. ProcessInv' /\ ClerkInv'
  BY <1>1, <1>2, <1>3, <1>4
     DEF HandOver, ProcessInv, ClerkInv, JobInv, Shape, ClerkShape
<1> QED BY <1>7, <1>8, <1>9, <1>10, <1>11 DEF HandOver

LEMMA CrashStep ==
    ASSUME TypeOK, Shape, HandOver, UNCHANGED vars, On!WorkerCrash
    PROVE  Shape' /\ HandOver'
<1>1. /\ \A k \in Jobs :
           /\ job'[k].candidate = job[k].candidate /\ job'[k].tries = job[k].tries
           /\ job'[k].pc = IF job[k].pc \in On!Running THEN "queued" ELSE job[k].pc
      /\ crashes' = crashes + 1
      /\ JobShape'
  BY DEF On!WorkerCrash, Shape, JobShape, On!JobPc
<1>2. UNCHANGED <<published, faults, process, employee, clerk, errors>>
  BY DEF vars, events, On!WorkerCrash, On!rows
<1>3. \A c \in Candidates : Excused(c) => Excused(c)'
  <2>1. crashes \in Nat
    BY DEF Shape, JobShape
  <2>2. crashes >= MaxTries => crashes + 1 >= MaxTries
    BY <2>1, TriesAssumption DEF TriesAssumption
  <2> QED BY <1>1, <1>2, <2>2 DEF Excused
<1>4. Shape'
  BY <1>1, <1>2 DEF Shape, EmployeeShape, ClerkShape
<1>5. TriesInv'
  BY <1>1 DEF HandOver, TriesInv, On!Running, Shape, JobShape
<1>6. JobInv'
  BY <1>1, <1>2, <1>3 DEF HandOver, JobInv, On!Running, Shape, JobShape
<1>7. QueueInv'
  BY <1>1, <1>2, <1>3 DEF TypeOK, HandOver, QueueInv, InQueue, On!Running
<1>8. ProcessInv' /\ ClerkInv'
  BY <1>2 DEF HandOver, ProcessInv, ClerkInv
<1> QED BY <1>4, <1>5, <1>6, <1>7, <1>8 DEF HandOver

LEMMA JobStep ==
    ASSUME TypeOK, Shape, HandOver, UNCHANGED vars, NEW j \in Jobs,
           On!Consume(j) \/ On!Error(j)
    PROVE  Shape' /\ HandOver'
<1>0. PICK c \in Candidates : c = job[j].candidate
  BY DEF Shape, JobShape
<1>1. c = job[j].candidate /\ errors \in Nat /\ crashes \in Nat
  BY <1>0 DEF Shape, JobShape
<1>2. CASE On!Start(j)
  BY <1>2, StartStep
<1>3. CASE On!Create(j)
  BY <1>3, CreateStep
<1>4. CASE On!GiveUp(j)
  <2>1. crashes >= MaxTries
    BY <1>1, <1>4, TriesAssumption
       DEF TriesAssumption, On!GiveUp, On!Goto, HandOver, TriesInv
  <2>2. Excused(c)'
    BY <1>4, <2>1 DEF Excused, On!GiveUp
  <2> QED BY <1>1, <1>4, <2>2, JobMoves DEF On!GiveUp, On!rows, On!JobPc, On!Running
<1>5. CASE On!Reject(j)
  <2>1. c \in Malformed
    BY <1>1, <1>5 DEF On!Reject, On!Goto, HandOver, JobInv
  <2> QED BY <1>1, <1>5, <2>1, JobMoves
          DEF On!Reject, On!rows, On!JobPc, On!Running, Excused
<1>6. CASE On!LookUp(j)
  <2>1. CASE process[c] = "none"
    BY <1>1, <1>6, <2>1, JobMoves DEF On!LookUp, On!rows, On!JobPc, On!Running
  <2>2. CASE process[c] # "none"
    BY <1>1, <1>6, <2>2, JobMoves DEF On!LookUp, On!rows, On!JobPc, On!Running
  <2> QED BY <2>1, <2>2
<1>7. CASE On!CreateConflict(j)
  <2>1. employee[c].origin \in {"onboarding", "direct"}
    BY <1>1, <1>7 DEF On!CreateConflict, Shape, EmployeeShape, On!Origins
  <2>2. process[c] # "none" \/ Excused(c)'
    BY <1>1, <1>7, <2>1 DEF On!CreateConflict, On!rows, HandOver, ProcessInv, Excused
  <2> QED BY <1>1, <1>7, <2>2, JobMoves
          DEF On!CreateConflict, On!rows, On!JobPc, On!Running
<1>8. CASE On!RecordDuplicate(j)
  <2>1. process[c] # "none"
    BY <1>1, <1>8 DEF On!RecordDuplicate, On!Goto, HandOver, JobInv
  <2> QED BY <1>1, <1>8, <2>1, JobMoves
          DEF On!RecordDuplicate, On!rows, On!JobPc, On!Running
<1>9. ASSUME NEW from \in {"raised", "returned"},
             On!Goto(j, from, "failed") \/ On!Goto(j, from, "ok"),
             UNCHANGED On!rows, UNCHANGED <<clerk, crashes>>,
             errors' \in {errors, errors + 1}
      PROVE  Shape' /\ HandOver'
  <2>1. process[c] # "none" \/ Excused(c)
    BY <1>1, <1>9 DEF On!Goto, HandOver, JobInv
  <2>2. process[c] # "none" \/ Excused(c)'
    BY <1>1, <1>9, <2>1 DEF Excused, On!rows, vars, events
  <2> QED BY <1>1, <1>9, <2>2, JobMoves DEF On!rows, On!JobPc, On!Running
<1>10. CASE On!RecordFailure(j) \/ On!EndFailed(j) \/ On!Ack(j)
  BY <1>1, <1>9, <1>10 DEF On!RecordFailure, On!EndFailed, On!Ack
<1>11. CASE On!Error(j)
  <2>1. UNCHANGED On!rows /\ UNCHANGED <<clerk, crashes>> /\ errors' = errors + 1
    BY <1>11 DEF On!Error
  <2>2. Excused(c)'
    BY <1>1, <2>1 DEF Excused
  <2>3. PICK from \in {"lookup", "create", "duplicate", "reject"},
             to \in {"raised", "failed"} :
          On!Goto(j, from, to)
    BY <1>11 DEF On!Error
  <2> QED BY <1>1, <2>1, <2>2, <2>3, JobMoves DEF On!rows, On!JobPc, On!Running
<1> QED BY <1>2, <1>3, <1>4, <1>5, <1>6, <1>7, <1>8, <1>10, <1>11 DEF On!Consume

-------------------------------------------------------------------------------
(* The invariants of the whole *)

LEMMA HandOverStep ==
    ASSUME TypeOK, Shape, HandOver, [BackboneNext]_system
    PROVE  Shape' /\ HandOver'
<1>1. CASE Recruit
  BY <1>1, RecruitStep
<1>2. CASE \E r \in Requests, j \in Jobs : Deliver(r, j)
  BY <1>2, DeliverStep
<1>3. CASE Onboard
  <2>1. UNCHANGED vars
    BY <1>3 DEF Onboard
  <2>2. ASSUME NEW r \in Clerks,
               On!NewRequest(r) \/ On!HrStep(r) \/ On!EmployeeStep(r) \/ On!Abort(r)
        PROVE  Shape' /\ HandOver'
    <3>1. UNCHANGED <<job, crashes, errors>>
      BY <2>2 DEF On!NewRequest, On!CompleteTask, On!RevertTask, On!UpdateSetup,
         On!BeginPut, On!BeginDelete, On!HrStep, On!LockProcess, On!RejectCompleted,
         On!ReadView, On!Commit, On!EmployeeStep, On!CommitPut, On!CommitDelete,
         On!Abort, On!worker
    <3> QED BY <2>1, <2>2, <3>1, ClerkStep, ClerkHandOver
  <2>3. ASSUME NEW c \in Candidates, NEW setup \in SUBSET Patchable, On!Promote(c, setup)
        PROVE  Shape' /\ HandOver'
    <3>1. UNCHANGED <<job, crashes, errors>>
      BY <2>3 DEF On!Promote, On!worker
    <3> QED BY <2>1, <2>3, <3>1, PromoteKeeps, ClerkHandOver
  <2>4. ASSUME NEW j \in Jobs, On!Consume(j) \/ On!Error(j) PROVE Shape' /\ HandOver'
    BY <2>1, <2>4, JobStep
  <2>5. CASE On!WorkerCrash
    BY <2>1, <2>5, CrashStep
  <2> QED BY <1>3, <2>2, <2>3, <2>4, <2>5 DEF Onboard
<1>4. CASE UNCHANGED system
  <2>1. UNCHANGED <<published, faults, process, employee, clerk, job, crashes, errors>>
    BY <1>4 DEF system, vars, events, onboarding
  <2> QED BY <2>1 DEF Shape, JobShape, EmployeeShape, ClerkShape, HandOver, TriesInv,
          JobInv, QueueInv, ProcessInv, ClerkInv, InQueue, Excused
<1> QED BY <1>1, <1>2, <1>3, <1>4 DEF BackboneNext

\* Queue, processes and handlers never get out of step with what recruitment
\* published, for any number of candidates, handlers and jobs.
THEOREM HandOverKept == BackboneSpec => []HandOver
<1>1. BackboneSpec => []TypeOK
  BY RecruitmentAlone, TypeCorrect, PTL
<1> QED BY <1>1, HandOverInit, HandOverStep, PTL DEF BackboneSpec

\* Onboarding only ever starts for a committed acceptance.
THEOREM OnboardedIsAccepted == BackboneSpec => []OnboardedWasAccepted
<1>1. HandOver /\ PublishedIsAccepted => OnboardedWasAccepted
  BY DEF HandOver, ProcessInv, PublishedIsAccepted, OnboardedWasAccepted
<1>2. BackboneSpec => []PublishedIsAccepted
  BY RecruitmentAlone, PublishedAfterCommit, PTL
<1> QED BY <1>1, <1>2, HandOverKept, PTL

\* An accepted hire is always with a handler, in the queue or in onboarding.
THEOREM NoHireIsLost == BackboneSpec => []NoHireLost
<1>1. TypeOK /\ HandOver /\ PublishedIsAccepted => NoHireLost
  <2>1. TypeOK => faults = 0 \/ faults > 0
    BY FaultsAssumption DEF TypeOK, FaultsAssumption
  <2>2. SUFFICES ASSUME TypeOK, HandOver, PublishedIsAccepted, NEW c \in accepted
                 PROVE  process[c] # "none" \/ Publishing(c) \/ InQueue(c) \/ Excused(c)
    BY DEF NoHireLost
  <2>3. CASE c \in published
    BY <2>2, <2>3 DEF HandOver, QueueInv
  <2>4. CASE c \notin published
    BY <2>1, <2>2, <2>4 DEF PublishedIsAccepted, Publishing, Excused
  <2> QED BY <2>3, <2>4
<1>2. BackboneSpec => []TypeOK /\ []PublishedIsAccepted
  BY RecruitmentAlone, TypeCorrect, PublishedAfterCommit, PTL
<1> QED BY <1>1, <1>2, HandOverKept, PTL

\* The hand-over from recruitment to onboarding is exact.
THEOREM HandOverIsExact == BackboneSpec => []HandedOver
<1>1. OnboardedWasAccepted /\ NoHireLost => HandedOver
  BY DEF HandedOver
<1> QED BY <1>1, OnboardedIsAccepted, NoHireIsLost, PTL
===============================================================================
