-------------------------- MODULE Onboarding_proofs --------------------------
(***************************************************************************)
(* Proofs about Onboarding, for any number of candidates, tasks, setup     *)
(* columns, concurrent requests and jobs.                                  *)
(***************************************************************************)
EXTENDS Onboarding, FiniteSetTheorems, TLAPS

-------------------------------------------------------------------------------
(* Type correctness *)

LEMMA EnterType ==
    ASSUME TypeOK, NEW r \in Requests, NEW c \in Candidates, NEW pc \in RequestPc,
           NEW edit \in Edits, NEW view \in Views, Enter(r, c, pc, edit, view)
    PROVE  request' \in [Requests -> RequestState]
  BY DEF TypeOK, Enter, RequestState

LEMMA RespondType ==
    ASSUME TypeOK, NEW r \in Requests, Respond(r)
    PROVE  request' \in [Requests -> RequestState]
<1>1. NoEdit \in Edits /\ NoView \in Views /\ "idle" \in RequestPc
  BY DEF NoEdit, Edits, NoView, Views, RequestPc
<1> QED BY ZenonT(60), <1>1 DEF TypeOK, Respond, RequestState

LEMMA ReleaseType ==
    ASSUME TypeOK, NEW r \in Requests, Release(r)
    PROVE  lock' \in [Candidates -> Requests \cup {Free}]
  BY DEF TypeOK, Release

LEMMA ViewType ==
    ASSUME TypeOK, NEW c \in Candidates
    PROVE  View(c) \in Views
  BY DEF TypeOK, View, Views, EmployeeRow

LEMMA EditType ==
    /\ NoEdit \in Edits
    /\ NoView \in Views
    /\ \A t \in Tasks : /\ [NoEdit EXCEPT !.complete = {t}] \in Edits
                       /\ [NoEdit EXCEPT !.revert = {t}] \in Edits
    /\ \A fill, clear \in SUBSET Fields :
         [NoEdit EXCEPT !.fill = fill, !.clear = clear] \in Edits
  BY DEF NoEdit, Edits, NoView, Views

LEMMA PatchedType ==
    ASSUME NEW setup \in SUBSET Fields, NEW edit \in Edits, NEW view \in Views,
           NEW kept
    PROVE  Patched(setup, edit, view, kept) \in SUBSET Fields
  BY DEF Patched, Edits, Views

LEMMA GotoType ==
    ASSUME TypeOK, NEW j \in Jobs, NEW from, NEW to \in JobPc, Goto(j, from, to)
    PROVE  job' \in [Jobs -> JobState]
  BY DEF TypeOK, Goto, JobState

LEMMA AuditType ==
    ASSUME TypeOK, NEW j \in Jobs, NEW op \in EventOps, Audit(j, op)
    PROVE  audit' \in [Jobs -> SUBSET EventOps]
  BY DEF TypeOK, Audit

LEMMA TypeStep ==
    ASSUME TypeOK, [Next]_vars
    PROVE  TypeOK'
<1> USE PatchableAssumption, BoundsAssumption
        DEF PatchableAssumption, BoundsAssumption
<1>1. ASSUME NEW r \in Requests, NewRequest(r) PROVE TypeOK'
  <2>1. request' \in [Requests -> RequestState]
    <3> "wait" \in RequestPc /\ "put" \in RequestPc /\ "delete" \in RequestPc
      BY DEF RequestPc
    <3>1. PICK c \in Candidates :
            \/ \E t \in Tasks : CompleteTask(r, c, t) \/ RevertTask(r, c, t)
            \/ \E fill, clear \in SUBSET Fields : UpdateSetup(r, c, fill, clear)
            \/ \E fill, clear \in SUBSET Patchable : BeginPut(r, c, fill, clear)
            \/ BeginDelete(r, c)
      BY <1>1 DEF NewRequest
    <3>2. ASSUME NEW t \in Tasks, CompleteTask(r, c, t) \/ RevertTask(r, c, t)
          PROVE  request' \in [Requests -> RequestState]
      BY <3>2, EnterType, EditType DEF CompleteTask, RevertTask
    <3>3. ASSUME NEW fill \in SUBSET Fields, NEW clear \in SUBSET Fields,
                 UpdateSetup(r, c, fill, clear)
          PROVE  request' \in [Requests -> RequestState]
      BY <3>3, EnterType, EditType DEF UpdateSetup
    <3>4. ASSUME NEW fill \in SUBSET Patchable, NEW clear \in SUBSET Patchable,
                 BeginPut(r, c, fill, clear)
          PROVE  request' \in [Requests -> RequestState]
      <4>1. [NoEdit EXCEPT !.fill = fill, !.clear = clear] \in Edits
        BY EditType
      <4> QED BY <3>4, <4>1, EnterType, ViewType DEF BeginPut
    <3>5. CASE BeginDelete(r, c)
      BY <3>5, EnterType, EditType, ViewType DEF BeginDelete
    <3> QED BY <3>1, <3>2, <3>3, <3>4, <3>5
  <2>2. UNCHANGED <<rows, lock, worker>>
    BY <1>1 DEF NewRequest, CompleteTask, RevertTask, UpdateSetup, BeginPut,
       BeginDelete
  <2> QED BY <2>1, <2>2 DEF TypeOK, rows, worker
<1>2. ASSUME NEW r \in Requests, HrStep(r) PROVE TypeOK'
  <2>1. CASE LockProcess(r)
    <3>1. request' \in [Requests -> RequestState]
      BY <2>1 DEF LockProcess, TypeOK, RequestState, RequestPc
    <3>2. lock' \in [Candidates -> Requests \cup {Free}]
      BY <2>1 DEF LockProcess, TypeOK, RequestState
    <3> QED BY <2>1, <3>1, <3>2 DEF LockProcess, TypeOK, rows, worker
  <2>2. CASE RejectCompleted(r)
    BY <2>2, RespondType DEF RejectCompleted, TypeOK, rows, worker
  <2>3. CASE ReadView(r)
    <3>1. View(request[r].candidate) \in Views /\ "ready" \in RequestPc
      BY ViewType DEF TypeOK, RequestState, RequestPc
    <3>2. request' \in [Requests -> RequestState]
      BY <2>3, <3>1 DEF ReadView, TypeOK, RequestState
    <3> QED BY <2>3, <3>2 DEF ReadView, TypeOK, rows, worker
  <2>4. CASE Commit(r)
    <3> DEFINE c == request[r].candidate
               edit == request[r].edit
               view == request[r].view
    <3>1. c \in Candidates /\ edit \in Edits /\ view \in Views
      BY DEF TypeOK, RequestState
    <3>2. done' \in [Candidates -> SUBSET Tasks]
      BY <2>4, <3>1 DEF Commit, TypeOK, Edits
    <3>3. /\ process' \in [Candidates -> ProcessStatus]
          /\ activations' \in [Candidates -> Nat]
      BY <2>4, <3>1 DEF Commit, TypeOK, ProcessStatus
    <3>4. PICK kept : employee' = [employee EXCEPT
                ![c].setup = Patched(@, edit, view, kept),
                ![c].active = @ \/ Activates(edit, view)]
      BY <2>4 DEF Commit
    <3>5. employee' \in [Candidates -> EmployeeRow]
      <4>1. Patched(employee[c].setup, edit, view, kept) \in SUBSET Fields
        BY <3>1, PatchedType DEF TypeOK, EmployeeRow
      <4>2. Activates(edit, view) \in BOOLEAN
        BY DEF Activates
      <4> QED BY <3>1, <3>4, <4>1, <4>2 DEF TypeOK, EmployeeRow
    <3>6. Release(r) /\ Respond(r) /\ UNCHANGED <<edited, worker>>
      BY <2>4 DEF Commit
    <3>7. /\ request' \in [Requests -> RequestState]
          /\ lock' \in [Candidates -> Requests \cup {Free}]
      BY <3>6, RespondType, ReleaseType
    <3> QED BY <3>2, <3>3, <3>5, <3>6, <3>7 DEF TypeOK, worker
  <2> QED BY <1>2, <2>1, <2>2, <2>3, <2>4 DEF HrStep
<1>3. ASSUME NEW r \in Requests, EmployeeStep(r) PROVE TypeOK'
  <2> DEFINE c == request[r].candidate
  <2>1. /\ c \in Candidates
        /\ request[r].edit \in Edits
        /\ request[r].view \in Views
    BY DEF TypeOK, RequestState
  <2>2. CASE CommitPut(r)
    <3>1. PICK kept : employee' = [employee EXCEPT ![c].setup =
                        Patched(@, request[r].edit, request[r].view, kept)]
      BY <2>2 DEF CommitPut
    <3>2. Patched(employee[c].setup, request[r].edit, request[r].view, kept)
            \in SUBSET Fields
      BY <2>1, PatchedType DEF TypeOK, EmployeeRow
    <3>3. employee' \in [Candidates -> EmployeeRow]
      <4>1. PICK setup : setup = Patched(employee[c].setup, request[r].edit,
                                         request[r].view, kept)
        OBVIOUS
      <4>2. PICK row : row = [employee[c] EXCEPT !.setup = setup]
        OBVIOUS
      <4>3. employee[c] \in EmployeeRow /\ setup \in SUBSET Fields
        BY <2>1, <3>2, <4>1 DEF TypeOK
      <4>4. row \in EmployeeRow
        BY <4>2, <4>3 DEF EmployeeRow
      <4>5. employee' = [employee EXCEPT ![c] = row]
        BY <3>1, <4>1, <4>2
      <4> QED BY <4>4, <4>5 DEF TypeOK
    <3> QED BY <2>1, <2>2, <3>3, RespondType DEF CommitPut, TypeOK, worker
  <2>3. CASE CommitDelete(r)
    <3>1. employee' \in [Candidates -> EmployeeRow]
      <4> DEFINE stays == employee[c].active /\ ~request[r].view.active
      <4>1. employee' = [employee EXCEPT ![c].active = stays]
        BY <2>3 DEF CommitDelete
      <4>2. stays \in BOOLEAN
        OBVIOUS
      <4> HIDE DEF stays
      <4>3. PICK row : row = [employee[c] EXCEPT !.active = stays]
        OBVIOUS
      <4>4. row \in EmployeeRow
        <5>1. employee[c] \in EmployeeRow
          BY <2>1 DEF TypeOK
        <5> QED BY <4>2, <4>3, <5>1 DEF EmployeeRow
      <4>5. employee' = [employee EXCEPT ![c] = row]
        BY <4>1, <4>3
      <4> QED BY <4>4, <4>5 DEF TypeOK
    <3> QED BY <2>3, <3>1, RespondType DEF CommitDelete, TypeOK, worker
  <2> QED BY <1>3, <2>2, <2>3 DEF EmployeeStep
<1>4. ASSUME NEW r \in Requests, Abort(r) PROVE TypeOK'
  BY <1>4, RespondType, ReleaseType DEF Abort, TypeOK, rows, worker
<1>5. ASSUME NEW c \in Candidates, NEW setup \in SUBSET Patchable,
             Promote(c, setup)
      PROVE  TypeOK'
  <2>1. employee' \in [Candidates -> EmployeeRow]
    BY <1>5 DEF Promote, TypeOK, EmployeeRow, Origins
  <2> QED BY <1>5, <2>1 DEF Promote, TypeOK, worker
<1>6. ASSUME NEW j \in Jobs, NEW c \in Candidates, Publish(j, c)
      PROVE  TypeOK'
  <2>1. job' \in [Jobs -> JobState]
    BY ZenonT(60), <1>6 DEF Publish, TypeOK, JobState, JobPc
  <2> QED BY <1>6, <2>1 DEF Publish, TypeOK, rows
<1>7. ASSUME NEW j \in Jobs, Consume(j) PROVE TypeOK'
  <2>1. {"returned", "raised", "ok", "failed", "create", "duplicate",
         "lookup", "reject", "queued"} \subseteq JobPc
    BY DEF JobPc
  <2>2. EventOps = {"process_created", "duplicate_detected", "event_rejected",
                   "event_failed"}
    BY DEF EventOps
  <2>3. CASE Start(j)
    <3>1. job' \in [Jobs -> JobState]
      BY <2>1, <2>3 DEF Start, TypeOK, JobState
    <3> QED BY <2>3, <3>1 DEF Start, TypeOK, rows
  <2>4. CASE GiveUp(j) \/ LookUp(j) \/ CreateConflict(j) \/ Ack(j)
    BY <2>1, <2>4, GotoType
       DEF GiveUp, LookUp, CreateConflict, Ack, TypeOK, rows
  <2>5. CASE Reject(j) \/ RecordDuplicate(j) \/ RecordFailure(j)
    BY <2>1, <2>2, <2>5, GotoType, AuditType
       DEF Reject, RecordDuplicate, RecordFailure, TypeOK, rows
  <2>6. CASE Create(j)
    <3>1. job' \in [Jobs -> JobState] /\ audit' \in [Jobs -> SUBSET EventOps]
      BY <2>1, <2>2, <2>6, GotoType, AuditType DEF Create
    <3>2. job[j].candidate \in Candidates
      BY DEF TypeOK, JobState
    <3>3. employee' \in [Candidates -> EmployeeRow]
      BY <2>6, <3>2 DEF Create, TypeOK, EmployeeRow, Origins
    <3>4. process' \in [Candidates -> ProcessStatus]
      BY <2>6, <3>2 DEF Create, TypeOK, ProcessStatus
    <3> QED BY <2>6, <3>1, <3>3, <3>4 DEF Create, TypeOK
  <2>7. CASE EndFailed(j)
    <3>1. job' \in [Jobs -> JobState]
      BY <2>1, <2>7, GotoType DEF EndFailed
    <3> QED BY <2>7, <3>1 DEF EndFailed, TypeOK, rows
  <2> QED BY <1>7, <2>3, <2>4, <2>5, <2>6, <2>7 DEF Consume
<1>8. ASSUME NEW j \in Jobs, Error(j) PROVE TypeOK'
  <2>1. job' \in [Jobs -> JobState]
    <3>1. "raised" \in JobPc /\ "failed" \in JobPc
      BY DEF JobPc
    <3> QED BY <1>8, <3>1, GotoType DEF Error
  <2> QED BY <1>8, <2>1 DEF Error, TypeOK, rows
<1>9. CASE WorkerCrash
  <2>1. job' \in [Jobs -> JobState]
    BY <1>9 DEF WorkerCrash, TypeOK, JobState, JobPc
  <2> QED BY <1>9, <2>1 DEF WorkerCrash, TypeOK, rows
<1>10. CASE UNCHANGED vars
  BY <1>10 DEF vars, rows, worker, TypeOK
<1> QED BY <1>1, <1>2, <1>3, <1>4, <1>5, <1>6, <1>7, <1>8, <1>9, <1>10
        DEF Next

\* Every variable keeps its type in every step of the specification.
THEOREM TypeCorrect == Spec => []TypeOK
<1> USE PatchableAssumption, BoundsAssumption
        DEF PatchableAssumption, BoundsAssumption
<1>1. Init => TypeOK
  <2> SUFFICES ASSUME Init PROVE TypeOK
    OBVIOUS
  <2>1. request \in [Requests -> RequestState] /\ job \in [Jobs -> JobState]
    <3>1. PICK c \in Candidates :
            /\ request = [r \in Requests |-> [pc |-> "idle", candidate |-> c,
                                             edit |-> NoEdit, view |-> NoView]]
            /\ job = [j \in Jobs |-> [pc |-> "none", candidate |-> c, tries |-> 0]]
      BY DEF Init
    <3>2. "idle" \in RequestPc /\ "none" \in JobPc /\ 0 \in 0..MaxTries
      BY DEF RequestPc, JobPc
    <3> QED BY <3>1, <3>2, EditType DEF RequestState, JobState
  <2>2. /\ process \in [Candidates -> ProcessStatus]
        /\ employee \in [Candidates -> EmployeeRow]
    BY DEF Init, ProcessStatus, EmployeeRow, Origins
  <2> QED BY <2>1, <2>2 DEF Init, TypeOK
<1>2. TypeOK /\ [Next]_vars => TypeOK'
  BY TypeStep
<1> QED BY <1>1, <1>2, PTL DEF Spec

-------------------------------------------------------------------------------
(* What the steps shared by the handlers do, request by request *)

LEMMA RespondFacts ==
    ASSUME TypeOK, NEW r \in Requests, Respond(r)
    PROVE  /\ request'[r].pc = "idle"
           /\ request'[r].edit = NoEdit
           /\ \A q \in Requests \ {r} : request'[q] = request[q]
  BY DEF TypeOK, RequestState, Respond

LEMMA ReleaseFacts ==
    ASSUME TypeOK, NEW r \in Requests, Release(r), NEW c \in Candidates
    PROVE  lock'[c] = IF c = request[r].candidate /\ lock[c] = r THEN Free
                                                                ELSE lock[c]
  BY DEF TypeOK, Release

\* A new request holds nothing; it waits only for a process that exists.
LEMMA NewRequestFacts ==
    ASSUME TypeOK, NEW r \in Requests, NewRequest(r)
    PROVE  /\ request[r].pc = "idle"
           /\ \A q \in Requests \ {r} : request'[q] = request[q]
           /\ request'[r].pc \in {"wait", "put", "delete"}
           /\ request'[r].pc = "wait" => process[request'[r].candidate] # "none"
           /\ request'[r].edit.fill \cap request'[r].edit.clear = {}
           /\ UNCHANGED <<rows, lock, worker>>
<1>1. PICK c \in Candidates :
        \/ \E t \in Tasks : CompleteTask(r, c, t) \/ RevertTask(r, c, t)
        \/ \E fill, clear \in SUBSET Fields : UpdateSetup(r, c, fill, clear)
        \/ \E fill, clear \in SUBSET Patchable : BeginPut(r, c, fill, clear)
        \/ BeginDelete(r, c)
  BY DEF NewRequest
<1>2. ASSUME NEW t \in Tasks, CompleteTask(r, c, t) \/ RevertTask(r, c, t)
      PROVE  \E edit : /\ Enter(r, c, "wait", edit, NoView)
                      /\ edit.fill \cap edit.clear = {}
                      /\ process[c] # "none"
                      /\ UNCHANGED <<rows, lock, worker>>
  BY <1>2 DEF CompleteTask, RevertTask, NoEdit
<1>3. ASSUME NEW fill, NEW clear, UpdateSetup(r, c, fill, clear)
      PROVE  \E edit : /\ Enter(r, c, "wait", edit, NoView)
                      /\ edit.fill \cap edit.clear = {}
                      /\ process[c] # "none"
                      /\ UNCHANGED <<rows, lock, worker>>
  BY <1>3 DEF UpdateSetup, NoEdit
<1>4. ASSUME NEW fill, NEW clear, BeginPut(r, c, fill, clear)
      PROVE  \E edit : /\ Enter(r, c, "put", edit, View(c))
                      /\ edit.fill \cap edit.clear = {}
                      /\ UNCHANGED <<rows, lock, worker>>
  BY <1>4 DEF BeginPut, NoEdit
<1>5. CASE BeginDelete(r, c)
  <2>1. \E edit : /\ Enter(r, c, "delete", edit, View(c))
                 /\ edit.fill \cap edit.clear = {}
                 /\ UNCHANGED <<rows, lock, worker>>
    BY <1>5 DEF BeginDelete, NoEdit
  <2> QED BY <2>1 DEF Enter, TypeOK
<1>6. CASE \E edit : /\ Enter(r, c, "wait", edit, NoView)
                    /\ edit.fill \cap edit.clear = {}
                    /\ process[c] # "none"
                    /\ UNCHANGED <<rows, lock, worker>>
  BY <1>6 DEF Enter, TypeOK, rows
<1>7. CASE \E edit : /\ Enter(r, c, "put", edit, View(c))
                    /\ edit.fill \cap edit.clear = {}
                    /\ UNCHANGED <<rows, lock, worker>>
  BY <1>7 DEF Enter, TypeOK
<1> QED BY <1>1, <1>2, <1>3, <1>4, <1>5, <1>6, <1>7

-------------------------------------------------------------------------------
(* The row lock *)

LockI == LockInv /\ HolderInv

LEMMA LockStep ==
    ASSUME TypeOK, LockI, [Next]_vars
    PROVE  LockI'
<1> USE FreeAssumption DEF FreeAssumption
<1>0. \A r \in Requests : request[r].candidate \in Candidates
  BY DEF TypeOK, RequestState
<1>1. ASSUME NEW r \in Requests, NewRequest(r) PROVE LockI'
  <2>1. UNCHANGED <<process, lock>>
    BY <1>1, NewRequestFacts DEF rows
  <2>2. /\ ~Holds(r) /\ ~Holds(r)'
        /\ \A q \in Requests \ {r} : request'[q] = request[q]
        /\ request'[r].pc = "wait" => process[request'[r].candidate] # "none"
    BY <1>1, NewRequestFacts DEF Holds
  <2> QED BY <2>1, <2>2 DEF LockI, LockInv, HolderInv, Holds
<1>2. ASSUME NEW r \in Requests, LockProcess(r) PROVE LockI'
  <2>1. /\ request[r].pc = "wait"
        /\ request'[r].pc = "held"
        /\ request'[r].candidate = request[r].candidate
        /\ \A q \in Requests \ {r} : request'[q] = request[q]
        /\ \A c \in Candidates :
             lock'[c] = IF c = request[r].candidate THEN r ELSE lock[c]
        /\ lock[request[r].candidate] = Free
        /\ process' = process
        /\ process[request[r].candidate] # "complete"
    BY <1>2 DEF LockProcess, TypeOK, RequestState, rows
  <2>2. process[request[r].candidate] = "in_progress"
    BY <1>0, <2>1 DEF LockI, HolderInv, TypeOK, ProcessStatus
  <2> QED BY <1>0, <2>1, <2>2 DEF LockI, LockInv, HolderInv, Holds
<1>3. ASSUME NEW r \in Requests, RejectCompleted(r) PROVE LockI'
  <2>1. /\ request[r].pc = "wait"
        /\ UNCHANGED <<process, lock>>
        /\ request'[r].pc = "idle"
        /\ \A q \in Requests \ {r} : request'[q] = request[q]
    BY <1>3, RespondFacts DEF RejectCompleted, rows
  <2> QED BY <2>1 DEF LockI, LockInv, HolderInv, Holds
<1>4. ASSUME NEW r \in Requests, ReadView(r) PROVE LockI'
  <2>1. /\ request[r].pc = "held" /\ request'[r].pc = "ready"
        /\ request'[r].candidate = request[r].candidate
        /\ UNCHANGED <<process, lock>>
        /\ \A q \in Requests \ {r} : request'[q] = request[q]
    BY <1>4 DEF ReadView, TypeOK, RequestState, rows
  <2> QED BY <2>1 DEF LockI, LockInv, HolderInv, Holds
<1>5. ASSUME NEW r \in Requests, Commit(r) PROVE LockI'
  <2>1. /\ Holds(r)
        /\ request'[r].pc = "idle"
        /\ \A q \in Requests \ {r} : request'[q] = request[q]
    BY <1>5, RespondFacts DEF Commit, Holds
  <2>2. \A c \in Candidates :
          lock'[c] = IF c = request[r].candidate /\ lock[c] = r THEN Free
                                                               ELSE lock[c]
    BY <1>5, ReleaseFacts DEF Commit
  <2>3. \A c \in Candidates :
          /\ c # request[r].candidate => process'[c] = process[c]
          /\ process'[c] = process[c] \/ process'[c] = "complete"
    BY <1>5 DEF Commit, TypeOK
  <2>4. \A q \in Requests \ {r} :
          Holds(q) => request[q].candidate # request[r].candidate
    BY <1>0, <2>1 DEF LockI, LockInv
  <2> QED BY <1>0, <2>1, <2>2, <2>3, <2>4 DEF LockI, LockInv, HolderInv, Holds
<1>6. ASSUME NEW r \in Requests, EmployeeStep(r) PROVE LockI'
  <2>1. /\ request[r].pc \in {"put", "delete"}
        /\ request'[r].pc = "idle"
        /\ UNCHANGED <<process, lock>>
        /\ \A q \in Requests \ {r} : request'[q] = request[q]
    BY <1>6, RespondFacts DEF EmployeeStep, CommitPut, CommitDelete
  <2> QED BY <2>1 DEF LockI, LockInv, HolderInv, Holds
<1>7. ASSUME NEW r \in Requests, Abort(r) PROVE LockI'
  <2>1. /\ process' = process
        /\ request'[r].pc = "idle"
        /\ \A q \in Requests \ {r} : request'[q] = request[q]
    BY <1>7, RespondFacts DEF Abort, rows
  <2>2. \A c \in Candidates :
          lock'[c] = IF c = request[r].candidate /\ lock[c] = r THEN Free
                                                               ELSE lock[c]
    BY <1>7, ReleaseFacts DEF Abort
  <2> QED BY <1>0, <2>1, <2>2 DEF LockI, LockInv, HolderInv, Holds
<1>8. ASSUME NEW j \in Jobs, Create(j) PROVE LockI'
  <2>1. /\ UNCHANGED <<request, lock>>
        /\ \A c \in Candidates :
             process'[c] = process[c] \/ process'[c] = "in_progress"
    BY <1>8 DEF Create, TypeOK
  <2> QED BY <1>0, <2>1 DEF LockI, LockInv, HolderInv, Holds
<1>9. ASSUME UNCHANGED <<request, lock, process>> PROVE LockI'
  BY <1>9 DEF LockI, LockInv, HolderInv, Holds
<1>10. ASSUME NEW c, NEW setup, Promote(c, setup)
       PROVE  UNCHANGED <<request, lock, process>>
  BY <1>10 DEF Promote
<1>11. ASSUME NEW j, NEW c, Publish(j, c)
       PROVE  UNCHANGED <<request, lock, process>>
  BY <1>11 DEF Publish, rows
<1>12. ASSUME NEW j, Consume(j)
       PROVE  Create(j) \/ UNCHANGED <<request, lock, process>>
  BY <1>12 DEF Consume, Start, GiveUp, Reject, LookUp, CreateConflict,
     RecordDuplicate, RecordFailure, EndFailed, Ack, rows
<1>13. ASSUME NEW j, Error(j) PROVE UNCHANGED <<request, lock, process>>
  BY <1>13 DEF Error, rows
<1>14. ASSUME WorkerCrash \/ UNCHANGED vars
       PROVE  UNCHANGED <<request, lock, process>>
  BY <1>14 DEF WorkerCrash, vars, rows
<1> QED BY <1>1, <1>2, <1>3, <1>4, <1>5, <1>6, <1>7, <1>8, <1>9, <1>10, <1>11,
           <1>12, <1>13, <1>14 DEF Next, HrStep

\* A lock is held by exactly the request that is past the lock, and the
\* process it locked is in progress until that request commits.
THEOREM LockDiscipline == Spec => [](LockInv /\ HolderInv)
<1>1. Init => LockI
  BY FreeAssumption DEF FreeAssumption, Init, LockI, LockInv, HolderInv, Holds
<1>2. TypeOK /\ LockI /\ [Next]_vars => LockI'
  BY LockStep
<1>3. LockI => LockInv /\ HolderInv
  BY DEF LockI
<1> QED BY <1>1, <1>2, <1>3, TypeCorrect, PTL DEF Spec

-------------------------------------------------------------------------------
(* The rows and what the transactions know of them *)

\* Depends on the rows only.
RowsI ==
    /\ FreshInv /\ CompleteMeansAllDone /\ InactiveUntilComplete
    /\ ProcessOwnsEmployee /\ NoLostActivation /\ CompleteHasSetup

\* Depends on the requests too.
RequestI == EditInv /\ ViewInv

\* What a commit does, and to whom: the process it locked, still in progress.
LEMMA CommitFacts ==
    ASSUME TypeOK, LockI, NEW r \in Requests, Commit(r)
    PROVE  LET c == request[r].candidate
               edit == request[r].edit
               view == request[r].view
               activates == Activates(edit, view)
           IN
           /\ c \in Candidates
           /\ Holds(r)
           /\ request[r].pc = "ready" \/ edit.revert # {}
           /\ process[c] = "in_progress"
           /\ \A d \in Candidates \ {c} :
                /\ process'[d] = process[d]
                /\ done'[d] = done[d]
                /\ employee'[d] = employee[d]
                /\ activations'[d] = activations[d]
           /\ process'[c] = IF activates THEN "complete" ELSE "in_progress"
           /\ done'[c] = (done[c] \cup edit.complete) \ edit.revert
           /\ activations'[c] =
                IF activates THEN activations[c] + 1 ELSE activations[c]
           /\ employee'[c].origin = employee[c].origin
           /\ employee'[c].active => employee[c].active \/ activates
           /\ activates => employee'[c].active
           /\ \E kept \in SUBSET (edit.fill \cap view.setup) :
                employee'[c].setup = Patched(employee[c].setup, edit, view, kept)
           /\ UNCHANGED <<edited, worker>>
<1> DEFINE c == request[r].candidate
           edit == request[r].edit
           view == request[r].view
           act == Activates(edit, view)
<1>1. c \in Candidates
  BY DEF TypeOK, RequestState
<1>2. Holds(r) /\ (request[r].pc = "ready" \/ edit.revert # {})
  BY DEF Commit, Holds
<1>3. process[c] = "in_progress"
  BY <1>2 DEF LockI, HolderInv
<1>4. /\ \A d \in Candidates \ {c} :
           process'[d] = process[d] /\ activations'[d] = activations[d]
      /\ process'[c] = IF act THEN "complete" ELSE "in_progress"
      /\ activations'[c] = IF act THEN activations[c] + 1 ELSE activations[c]
  BY <1>1, <1>3 DEF Commit, TypeOK
<1>5. /\ \A d \in Candidates \ {c} : done'[d] = done[d]
      /\ done'[c] = (done[c] \cup edit.complete) \ edit.revert
  BY <1>1 DEF Commit, TypeOK
<1>6. PICK kept \in SUBSET (edit.fill \cap view.setup) :
        employee' = [employee EXCEPT ![c].setup = Patched(@, edit, view, kept),
                                     ![c].active = @ \/ act]
  BY DEF Commit
<1>7. /\ \A d \in Candidates \ {c} : employee'[d] = employee[d]
      /\ employee'[c].origin = employee[c].origin
      /\ employee'[c].setup = Patched(employee[c].setup, edit, view, kept)
      /\ employee'[c].active = (employee[c].active \/ act)
  BY <1>1, <1>6 DEF TypeOK, EmployeeRow
<1>8. UNCHANGED <<edited, worker>>
  BY DEF Commit
<1> HIDE DEF c, edit, view, act
<1>9. /\ employee'[c].active => employee[c].active \/ act
      /\ act => employee'[c].active
  BY <1>7
<1> QED BY <1>1, <1>2, <1>3, <1>4, <1>5, <1>6, <1>7, <1>8, <1>9
        DEF c, edit, view, act

\* The setup that is committed is the one that was read, edited, if nobody
\* wrote the row in between.
LEMMA PatchedFresh ==
    ASSUME NEW edit, NEW view, edit.fill \cap edit.clear = {},
           NEW kept \in SUBSET (edit.fill \cap view.setup)
    PROVE  Patched(view.setup, edit, view, kept)
             = (view.setup \cup edit.fill) \ edit.clear
  BY DEF Patched

\* Steps that write no row.
LEMMA RowsFrame ==
    ASSUME [Next]_vars
    PROVE  \/ UNCHANGED rows
           \/ \E r \in Requests : Commit(r) \/ CommitPut(r) \/ CommitDelete(r)
           \/ \E c \in Candidates, setup \in SUBSET Patchable : Promote(c, setup)
           \/ \E j \in Jobs : Create(j)
<1>1. ASSUME NEW r \in Requests, NewRequest(r) \/ Abort(r) PROVE UNCHANGED rows
  BY <1>1 DEF NewRequest, CompleteTask, RevertTask, UpdateSetup, BeginPut,
     BeginDelete, Abort
<1>2. ASSUME NEW r \in Requests, HrStep(r) PROVE Commit(r) \/ UNCHANGED rows
  BY <1>2 DEF HrStep, LockProcess, RejectCompleted, ReadView
<1>3. ASSUME NEW j \in Jobs, NEW c, Publish(j, c) PROVE UNCHANGED rows
  BY <1>3 DEF Publish
<1>4. ASSUME NEW j \in Jobs, Consume(j) PROVE Create(j) \/ UNCHANGED rows
  BY <1>4 DEF Consume, Start, GiveUp, Reject, LookUp, CreateConflict,
     RecordDuplicate, RecordFailure, EndFailed, Ack
<1>5. ASSUME NEW j \in Jobs, Error(j) PROVE UNCHANGED rows
  BY <1>5 DEF Error
<1>6. ASSUME WorkerCrash \/ UNCHANGED vars PROVE UNCHANGED rows
  BY <1>6 DEF WorkerCrash, vars
<1> QED BY <1>1, <1>2, <1>3, <1>4, <1>5, <1>6 DEF Next, EmployeeStep

LEMMA RowsStep ==
    ASSUME TypeOK, LockI, RequestI, RowsI, [Next]_vars
    PROVE  RowsI'
<1> USE DEF RowsI
<1>1. CASE UNCHANGED rows
  BY <1>1 DEF rows, FreshInv, CompleteMeansAllDone, InactiveUntilComplete,
     ProcessOwnsEmployee, NoLostActivation, CompleteHasSetup
<1>2. ASSUME NEW r \in Requests, Commit(r) PROVE RowsI'
  <2> DEFINE c == request[r].candidate
             edit == request[r].edit
             view == request[r].view
             act == Activates(edit, view)
  <2>1. /\ c \in Candidates
        /\ Holds(r)
        /\ request[r].pc = "ready" \/ edit.revert # {}
        /\ process[c] = "in_progress"
        /\ \A d \in Candidates \ {c} :
             /\ process'[d] = process[d]
             /\ done'[d] = done[d]
             /\ employee'[d] = employee[d]
             /\ activations'[d] = activations[d]
        /\ process'[c] = IF act THEN "complete" ELSE "in_progress"
        /\ done'[c] = (done[c] \cup edit.complete) \ edit.revert
        /\ activations'[c] = IF act THEN activations[c] + 1 ELSE activations[c]
        /\ employee'[c].origin = employee[c].origin
        /\ employee'[c].active => employee[c].active \/ act
        /\ edited' = edited
    BY <1>2, CommitFacts
  <2>2. PICK kept \in SUBSET (edit.fill \cap view.setup) :
          employee'[c].setup = Patched(employee[c].setup, edit, view, kept)
    BY <1>2, CommitFacts
  <2>3. /\ edit.fill \cap edit.clear = {}
        /\ edit.complete \subseteq Tasks
        /\ edit.revert \subseteq Tasks
        /\ done[c] \subseteq Tasks
        /\ activations[c] = 0
    BY <2>1 DEF RequestI, EditInv, TypeOK, RequestState, Edits,
       CompleteMeansAllDone
  <2>4. edit.revert = {} =>
          /\ done'[c] = view.done \cup edit.complete
          /\ edited[c] \/ employee'[c].setup = (view.setup \cup edit.fill) \ edit.clear
    <3> SUFFICES ASSUME edit.revert = {}
                 PROVE  /\ done'[c] = view.done \cup edit.complete
                        /\ edited[c] \/ employee'[c].setup =
                                        (view.setup \cup edit.fill) \ edit.clear
      OBVIOUS
    <3>1. /\ view.done = done[c]
          /\ edited[c] \/ view.setup = employee[c].setup
      BY <2>1 DEF RequestI, ViewInv
    <3>2. Patched(view.setup, edit, view, kept)
            = (view.setup \cup edit.fill) \ edit.clear
      BY <2>3, PatchedFresh
    <3> HIDE DEF c, edit, view, act
    <3> QED BY <2>1, <2>2, <3>1, <3>2
  <2>5. edit.revert # {} => done'[c] # Tasks
    BY <2>1, <2>3
  <2>6. act => edit.revert = {} /\ done'[c] = Tasks
    BY <2>4 DEF Activates
  <2>7. ~act /\ ~edited[c] => ~(done'[c] = Tasks /\ employee'[c].setup = Fields)
    BY <2>4, <2>5 DEF Activates
  <2>8. act /\ ~edited[c] => employee'[c].setup = Fields
    BY <2>4 DEF Activates
  <2>9. FreshInv'
    BY <2>1 DEF FreshInv
  <2>10. CompleteMeansAllDone'
    <3>1. /\ process'[c] = "complete" => done'[c] = Tasks
          /\ activations'[c] = IF process'[c] = "complete" THEN 1 ELSE 0
      <4> HIDE DEF c, edit, view, act
      <4> QED BY <2>1, <2>3, <2>6
    <3>2. ASSUME NEW d \in Candidates \ {c}
          PROVE  /\ process'[d] = "complete" => done'[d] = Tasks
                 /\ activations'[d] = IF process'[d] = "complete" THEN 1 ELSE 0
      <4>1. /\ process'[d] = process[d] /\ done'[d] = done[d]
            /\ activations'[d] = activations[d]
        BY <2>1
      <4> QED BY <4>1 DEF CompleteMeansAllDone
    <3> HIDE DEF c
    <3> QED BY <3>1, <3>2 DEF CompleteMeansAllDone
  <2>11. InactiveUntilComplete'
    BY <2>1 DEF InactiveUntilComplete
  <2>12. ProcessOwnsEmployee'
    BY <2>1 DEF ProcessOwnsEmployee
  <2>13. NoLostActivation'
    BY <2>1, <2>7 DEF NoLostActivation
  <2>14. CompleteHasSetup'
    BY <2>1, <2>8 DEF CompleteHasSetup
  <2> QED BY <2>9, <2>10, <2>11, <2>12, <2>13, <2>14
<1>3. ASSUME NEW r \in Requests, CommitPut(r) \/ CommitDelete(r) PROVE RowsI'
  <2> DEFINE c == request[r].candidate
  <2>1. c \in Candidates
    BY DEF TypeOK, RequestState
  <2>2. /\ UNCHANGED <<process, done, activations>>
        /\ \A d \in Candidates :
             /\ employee'[d].origin = employee[d].origin
             /\ employee'[d].active => employee[d].active
             /\ edited[d] => edited'[d]
             /\ edited'[d] \/ employee'[d].setup = employee[d].setup
    <3>1. CASE CommitPut(r)
      BY <2>1, <3>1 DEF CommitPut, TypeOK, EmployeeRow
    <3>2. CASE CommitDelete(r)
      <4>1. /\ UNCHANGED <<process, done, activations, edited>>
            /\ \A d \in Candidates :
                 /\ employee'[d].origin = employee[d].origin
                 /\ employee'[d].setup = employee[d].setup
        BY <2>1, <3>2 DEF CommitDelete, TypeOK, EmployeeRow
      <4>2. employee'[c].active = (employee[c].active /\ ~request[r].view.active)
        BY <2>1, <3>2 DEF CommitDelete, TypeOK, EmployeeRow
      <4>3. \A d \in Candidates \ {c} : employee'[d] = employee[d]
        BY <2>1, <3>2 DEF CommitDelete, TypeOK
      <4> QED BY <4>1, <4>2, <4>3
    <3> QED BY <1>3, <3>1, <3>2
  <2> QED BY <2>2 DEF FreshInv, CompleteMeansAllDone, InactiveUntilComplete,
             ProcessOwnsEmployee, NoLostActivation, CompleteHasSetup
<1>4. ASSUME NEW c \in Candidates, NEW setup, Promote(c, setup) PROVE RowsI'
  <2>1. /\ employee[c].origin = "none"
        /\ employee'[c].origin = "direct"
        /\ \A d \in Candidates \ {c} : employee'[d] = employee[d]
        /\ UNCHANGED <<process, done, activations, edited>>
    BY <1>4 DEF Promote, TypeOK
  <2>2. process[c] = "none"
    BY <2>1 DEF ProcessOwnsEmployee
  <2> QED BY <2>1, <2>2 DEF FreshInv, CompleteMeansAllDone,
             InactiveUntilComplete, ProcessOwnsEmployee, NoLostActivation,
             CompleteHasSetup
<1>5. ASSUME NEW j \in Jobs, Create(j) PROVE RowsI'
  <2> DEFINE c == job[j].candidate
  <2>1. /\ c \in Candidates
        /\ employee[c].origin = "none"
        /\ employee'[c] = [origin |-> "onboarding", active |-> FALSE, setup |-> {}]
        /\ process'[c] = "in_progress"
        /\ \A d \in Candidates \ {c} :
             employee'[d] = employee[d] /\ process'[d] = process[d]
        /\ UNCHANGED <<done, activations, edited>>
    BY <1>5 DEF Create, TypeOK, JobState
  <2>2. process[c] = "none" /\ done[c] = {} /\ done[c] # Tasks
    BY <2>1, TasksAssumption DEF TasksAssumption, ProcessOwnsEmployee, FreshInv
  <2> QED BY <2>1, <2>2 DEF FreshInv, CompleteMeansAllDone,
             InactiveUntilComplete, ProcessOwnsEmployee, NoLostActivation,
             CompleteHasSetup
<1> QED BY <1>1, <1>2, <1>3, <1>4, <1>5, RowsFrame

\* Nobody but the holder of the lock moves done, so the counts it read stay
\* true; only the employee module moves a setup column behind its back.
LEMMA RequestStep ==
    ASSUME TypeOK, LockI, RequestI, RowsI, [Next]_vars
    PROVE  RequestI'
<1> USE DEF RequestI
<1>0. \A q \in Requests :
        /\ request[q].candidate \in Candidates
        /\ request[q].pc = "ready" =>
             /\ process[request[q].candidate] = "in_progress"
             /\ employee[request[q].candidate].origin = "onboarding"
             /\ lock[request[q].candidate] = q
  BY DEF TypeOK, RequestState, LockI, LockInv, HolderInv, Holds, RowsI,
     ProcessOwnsEmployee
<1>1. ASSUME NEW r \in Requests, NewRequest(r) PROVE RequestI'
  <2>1. /\ \A q \in Requests \ {r} : request'[q] = request[q]
        /\ request'[r].pc # "ready"
        /\ request'[r].edit.fill \cap request'[r].edit.clear = {}
        /\ UNCHANGED rows
    BY <1>1, NewRequestFacts
  <2> QED BY <2>1 DEF EditInv, ViewInv, rows
<1>2. ASSUME NEW r \in Requests, LockProcess(r) PROVE RequestI'
  <2>1. /\ \A q \in Requests \ {r} : request'[q] = request[q]
        /\ request'[r].pc = "held"
        /\ request'[r].edit = request[r].edit
        /\ UNCHANGED rows
    BY <1>2 DEF LockProcess, TypeOK, RequestState
  <2> QED BY <2>1 DEF EditInv, ViewInv, rows
<1>3. ASSUME NEW r \in Requests, RejectCompleted(r) \/ Abort(r) PROVE RequestI'
  <2>1. /\ \A q \in Requests \ {r} : request'[q] = request[q]
        /\ request'[r].pc = "idle"
        /\ request'[r].edit = NoEdit
        /\ UNCHANGED rows
    BY <1>3, RespondFacts DEF RejectCompleted, Abort
  <2> QED BY <2>1 DEF EditInv, ViewInv, NoEdit, rows
<1>4. ASSUME NEW r \in Requests, ReadView(r) PROVE RequestI'
  <2>1. /\ \A q \in Requests \ {r} : request'[q] = request[q]
        /\ request'[r].edit = request[r].edit
        /\ request'[r].candidate = request[r].candidate
        /\ request'[r].view = View(request[r].candidate)
        /\ request[r].edit.revert = {}
        /\ UNCHANGED rows
    BY <1>4 DEF ReadView, TypeOK, RequestState
  <2> QED BY <2>1 DEF EditInv, ViewInv, View, rows
<1>5. ASSUME NEW r \in Requests, Commit(r) PROVE RequestI'
  <2> DEFINE c == request[r].candidate
  <2>1. /\ \A q \in Requests \ {r} : request'[q] = request[q]
        /\ request'[r].pc = "idle"
        /\ request'[r].edit = NoEdit
    BY <1>5, RespondFacts DEF Commit
  <2>2. /\ c \in Candidates
        /\ Holds(r)
        /\ \A d \in Candidates \ {c} :
             done'[d] = done[d] /\ employee'[d] = employee[d]
        /\ edited' = edited
    BY <1>5, CommitFacts
  <2>3. lock[c] = r
    BY <2>2 DEF LockI, LockInv
  <2>4. \A q \in Requests \ {r} :
          request[q].pc = "ready" => request[q].candidate # c
    BY <1>0, <2>3
  <2> QED BY <1>0, <2>1, <2>2, <2>4 DEF EditInv, ViewInv, NoEdit
<1>6. ASSUME NEW r \in Requests, CommitPut(r) PROVE RequestI'
  <2>1. /\ \A q \in Requests \ {r} : request'[q] = request[q]
        /\ request'[r].pc = "idle"
        /\ request'[r].edit = NoEdit
    BY <1>6, RespondFacts DEF CommitPut
  <2>2. /\ done' = done
        /\ \A d \in Candidates :
             /\ edited[d] => edited'[d]
             /\ edited'[d] \/ employee'[d].setup = employee[d].setup
    BY <1>0, <1>6 DEF CommitPut, TypeOK, EmployeeRow
  <2> QED BY <1>0, <2>1, <2>2 DEF EditInv, ViewInv, NoEdit
<1>7. ASSUME NEW r \in Requests, CommitDelete(r) PROVE RequestI'
  <2>1. /\ \A q \in Requests \ {r} : request'[q] = request[q]
        /\ request'[r].pc = "idle"
        /\ request'[r].edit = NoEdit
    BY <1>7, RespondFacts DEF CommitDelete
  <2>2. /\ UNCHANGED <<done, edited>>
        /\ \A d \in Candidates : employee'[d].setup = employee[d].setup
    BY <1>0, <1>7 DEF CommitDelete, TypeOK, EmployeeRow
  <2> QED BY <1>0, <2>1, <2>2 DEF EditInv, ViewInv, NoEdit
<1>8. ASSUME NEW c \in Candidates, NEW setup, Promote(c, setup) PROVE RequestI'
  <2>1. /\ employee[c].origin = "none"
        /\ \A d \in Candidates \ {c} : employee'[d] = employee[d]
        /\ UNCHANGED <<request, done, edited>>
    BY <1>8 DEF Promote, TypeOK
  <2>2. \A q \in Requests : request[q].pc = "ready" => request[q].candidate # c
    BY <1>0, <2>1
  <2> QED BY <1>0, <2>1, <2>2 DEF EditInv, ViewInv
<1>9. ASSUME NEW j \in Jobs, Create(j) PROVE RequestI'
  <2> DEFINE c == job[j].candidate
  <2>1. /\ c \in Candidates
        /\ employee[c].origin = "none"
        /\ \A d \in Candidates \ {c} : employee'[d] = employee[d]
        /\ UNCHANGED <<request, done, edited>>
    BY <1>9 DEF Create, TypeOK, JobState
  <2>2. \A q \in Requests : request[q].pc = "ready" => request[q].candidate # c
    BY <1>0, <2>1
  <2> QED BY <1>0, <2>1, <2>2 DEF EditInv, ViewInv
<1>10. ASSUME UNCHANGED <<rows, request>> PROVE RequestI'
  BY <1>10 DEF EditInv, ViewInv, rows
<1>11. ASSUME NEW j \in Jobs, NEW c, Publish(j, c) \/ Error(j)
       PROVE  UNCHANGED <<rows, request>>
  BY <1>11 DEF Publish, Error
<1>12. ASSUME NEW j \in Jobs, Consume(j)
       PROVE  Create(j) \/ UNCHANGED <<rows, request>>
  BY <1>12 DEF Consume, Start, GiveUp, Reject, LookUp, CreateConflict,
     RecordDuplicate, RecordFailure, EndFailed, Ack
<1>13. ASSUME WorkerCrash \/ UNCHANGED vars PROVE UNCHANGED <<rows, request>>
  BY <1>13 DEF WorkerCrash, vars
<1> QED BY <1>1, <1>2, <1>3, <1>4, <1>5, <1>6, <1>7, <1>8, <1>9, <1>10, <1>11,
           <1>12, <1>13 DEF Next, HrStep, EmployeeStep

-------------------------------------------------------------------------------
(* Who created a process *)

\* The unique email serialises the transactions that create: the one that
\* commits finds no process, and no later one finds the email free.
LEMMA CreatedStep ==
    ASSUME TypeOK, LockI, ProcessOwnsEmployee, CreatedInv, [Next]_vars
    PROVE  CreatedInv'
<1> USE DEF CreatedInv, Creators
<1>1. ASSUME NEW j \in Jobs, NEW c \in Candidates, Publish(j, c)
      PROVE  CreatedInv'
  <2>1. /\ job[j].pc = "none" /\ job'[j].pc = "queued"
        /\ \A i \in Jobs \ {j} : job'[i] = job[i]
        /\ UNCHANGED <<process, audit>>
    BY <1>1 DEF Publish, TypeOK, JobState, rows
  <2>2. \A d \in Candidates : Creators(d)' = Creators(d)
    BY <2>1
  <2> QED BY <2>1, <2>2
<1>2. ASSUME NEW j \in Jobs, Create(j) PROVE CreatedInv'
  <2> DEFINE c == job[j].candidate
  <2>1. /\ c \in Candidates
        /\ employee[c].origin = "none"
        /\ process'[c] = "in_progress"
        /\ \A d \in Candidates \ {c} : process'[d] = process[d]
        /\ job'[j].pc = "returned"
        /\ \A i \in Jobs : job'[i].candidate = job[i].candidate
        /\ \A i \in Jobs \ {j} : job'[i] = job[i] /\ audit'[i] = audit[i]
        /\ audit'[j] = audit[j] \cup {"process_created"}
    BY <1>2 DEF Create, Goto, Audit, TypeOK, JobState
  <2>2. process[c] = "none"
    BY <2>1 DEF ProcessOwnsEmployee
  <2>3. Creators(c) = {}
    BY <2>1, <2>2
  <2>4. Creators(c)' = {j}
    BY <2>1, <2>3
  <2>5. \A d \in Candidates \ {c} : Creators(d)' = Creators(d)
    BY <2>1
  <2>6. \A i \in Jobs : job'[i].pc = "none" => audit'[i] = {}
    BY <2>1
  <2>7. \A d \in Candidates : IF process'[d] = "none"
                                THEN Creators(d)' = {}
                                ELSE \E i \in Jobs : Creators(d)' = {i}
    BY <2>1, <2>4, <2>5
  <2> QED BY <2>6, <2>7
\* Any other entry is not a creation, and no job returns to "none".
<1>3. ASSUME NEW j \in Jobs, NEW op \in EventOps \ {"process_created"},
             NEW from, NEW to \in JobPc \ {"none"},
             Goto(j, from, to), Audit(j, op) \/ UNCHANGED audit,
             process' = process
      PROVE  CreatedInv'
  <2>1. /\ job'[j].pc # "none"
        /\ \A i \in Jobs : job'[i].candidate = job[i].candidate
        /\ \A i \in Jobs \ {j} : job'[i] = job[i] /\ audit'[i] = audit[i]
        /\ "process_created" \in audit'[j] <=> "process_created" \in audit[j]
    BY <1>3 DEF Goto, Audit, TypeOK, JobState
  <2>2. \A d \in Candidates : Creators(d)' = Creators(d)
    BY <2>1
  <2> QED BY <1>3, <2>1, <2>2
<1>4. ASSUME NEW j \in Jobs, Reject(j) \/ RecordDuplicate(j) \/ RecordFailure(j)
      PROVE  CreatedInv'
  <2>1. /\ {"event_rejected", "duplicate_detected", "event_failed"}
             \subseteq EventOps \ {"process_created"}
        /\ {"returned", "failed"} \subseteq JobPc \ {"none"}
    BY DEF EventOps, JobPc
  <2> QED BY <1>3, <1>4, <2>1 DEF Reject, RecordDuplicate, RecordFailure, rows
<1>5. ASSUME \A i \in Jobs : job'[i].candidate = job[i].candidate,
             \A i \in Jobs : job'[i].pc = "none" => job[i].pc = "none",
             UNCHANGED <<process, audit>>
      PROVE  CreatedInv'
  <2>1. process' = process /\ audit' = audit
    BY <1>5
  <2>2. ASSUME NEW d \in Candidates PROVE Creators(d)' = Creators(d)
    BY <1>5, <2>1
  <2>3. \A i \in Jobs : job'[i].pc = "none" => audit'[i] = {}
    BY <1>5, <2>1
  <2> HIDE DEF Creators
  <2> QED BY <2>1, <2>2, <2>3
<1>6. ASSUME NEW j \in Jobs,
             Start(j) \/ GiveUp(j) \/ LookUp(j) \/ CreateConflict(j)
               \/ EndFailed(j) \/ Ack(j) \/ Error(j)
      PROVE  CreatedInv'
  <2>1. CASE Start(j)
    BY <1>5, <2>1 DEF Start, TypeOK, JobState, rows
  <2>2. ASSUME NEW from, NEW to, to # "none", Goto(j, from, to)
        PROVE  /\ \A i \in Jobs : job'[i].candidate = job[i].candidate
               /\ \A i \in Jobs : job'[i].pc = "none" => job[i].pc = "none"
    BY <2>2 DEF Goto, TypeOK, JobState
  <2>3. UNCHANGED <<process, audit>>
    BY <1>6 DEF Start, GiveUp, LookUp, CreateConflict, EndFailed, Ack, Error, rows
  <2>4. CASE \E from, to : to # "none" /\ Goto(j, from, to)
    BY <1>5, <2>2, <2>3, <2>4
  <2>5. Start(j) \/ \E from, to : to # "none" /\ Goto(j, from, to)
    BY <1>6 DEF GiveUp, LookUp, CreateConflict, EndFailed, Ack, Error
  <2> QED BY <2>1, <2>4, <2>5
<1>7. CASE WorkerCrash
  <2>1. \A i \in Jobs : /\ job'[i].candidate = job[i].candidate
                       /\ job'[i].pc = "none" => job[i].pc = "none"
    BY <1>7 DEF WorkerCrash, TypeOK, JobState
  <2> QED BY <1>5, <1>7, <2>1 DEF WorkerCrash, rows
<1>8. CASE UNCHANGED vars
  BY <1>8, <1>5 DEF vars, rows, worker
<1>9. ASSUME NEW c \in Candidates, NEW setup, Promote(c, setup) PROVE CreatedInv'
  BY <1>9, <1>5 DEF Promote, worker
<1>10. ASSUME NEW r \in Requests, NewRequest(r) \/ Abort(r) PROVE CreatedInv'
  <2>1. UNCHANGED <<process, job, audit>>
    BY <1>10, NewRequestFacts DEF Abort, rows, worker
  <2> QED BY <1>5, <2>1
<1>11. ASSUME NEW r \in Requests, Commit(r) PROVE CreatedInv'
  <2>1. /\ UNCHANGED <<job, audit>>
        /\ \A d \in Candidates : process'[d] = "none" <=> process[d] = "none"
    BY <1>11, CommitFacts DEF worker
  <2>2. \A d \in Candidates : Creators(d)' = Creators(d)
    BY <2>1
  <2> QED BY <2>1, <2>2
<1>12. ASSUME NEW r \in Requests, HrStep(r) \/ EmployeeStep(r)
       PROVE  CreatedInv'
  <2>1. Commit(r) \/ UNCHANGED <<process, job, audit>>
    BY <1>12 DEF HrStep, EmployeeStep, LockProcess, RejectCompleted, ReadView,
       CommitPut, CommitDelete, rows, worker
  <2> QED BY <1>5, <1>11, <2>1
<1> QED BY <1>1, <1>2, <1>4, <1>6, <1>7, <1>8, <1>9, <1>10, <1>12
        DEF Next, Consume

-------------------------------------------------------------------------------
(* The theorems *)

LEMMA IInvInit == Init => IInv
<1> SUFFICES ASSUME Init PROVE IInv
  OBVIOUS
<1>1. /\ \A r \in Requests : /\ request[r].pc = "idle"
                            /\ request[r].edit = NoEdit
      /\ \A j \in Jobs : audit[j] = {}
      /\ \A c \in Candidates :
           /\ process[c] = "none" /\ done[c] = {} /\ lock[c] = Free
           /\ employee[c].origin = "none" /\ ~employee[c].active
           /\ activations[c] = 0
  BY DEF Init
<1>2. LockInv /\ HolderInv /\ ViewInv /\ FreshInv
  BY <1>1, FreeAssumption DEF FreeAssumption, LockInv, HolderInv, ViewInv,
     FreshInv, Holds
<1>3. EditInv
  BY <1>1 DEF EditInv, NoEdit
<1>4. CreatedInv
  BY <1>1 DEF CreatedInv, Creators
<1>5. /\ CompleteMeansAllDone /\ InactiveUntilComplete /\ ProcessOwnsEmployee
      /\ NoLostActivation /\ CompleteHasSetup
  BY <1>1 DEF CompleteMeansAllDone, InactiveUntilComplete, ProcessOwnsEmployee,
     NoLostActivation, CompleteHasSetup
<1> QED BY <1>2, <1>3, <1>4, <1>5 DEF IInv

\* The inductive invariant holds in every reachable state: locks, what the
\* transactions have read, and the rows agree.
THEOREM Inductive == Spec => []IInv
<1>1. TypeOK /\ IInv /\ [Next]_vars => IInv'
  BY LockStep, RequestStep, RowsStep, CreatedStep
     DEF IInv, LockI, RequestI, RowsI
<1> QED BY <1>1, IInvInit, TypeCorrect, PTL DEF Spec

\* However many jobs carry the event of a candidate, exactly one of them
\* created the process that exists.
THEOREM Uniqueness == Spec => []ProcessUnique
<1>1. IInv => ProcessUnique
  BY FS_EmptySet, FS_Singleton DEF IInv, CreatedInv, ProcessUnique
<1> QED BY <1>1, Inductive, PTL

\* A completed process has its whole checklist done and activated the employee
\* once; nobody is active from onboarding before that; every process owns the
\* employee row that onboarding created.
THEOREM ActivationIsEarned == Spec => []ActivationEarned
<1>1. IInv => ActivationEarned
  BY DEF IInv, ActivationEarned
<1> QED BY <1>1, Inductive, PTL

\* As long as PUT /employees/{id} leaves the hire alone, no interleaving of HR
\* requests ends with everything done and nobody activated, or with somebody
\* activated whose setup is incomplete.
THEOREM ActivationIsNotLost == Spec => []ActivationKept
<1>1. IInv => ActivationKept
  BY DEF IInv, ActivationKept
<1> QED BY <1>1, Inductive, PTL

\* Both together, whatever the interleaving: an activation is made when it is due,
\* and only then.
THEOREM ActivationAlwaysStands == Spec => []ActivationStands
<1> QED BY ActivationIsEarned, ActivationIsNotLost, PTL DEF ActivationStands

\* A hire whose process is in progress has no access yet: nothing but the
\* activation of _activate_if_complete makes an employee of onboarding active.
THEOREM NobodyActiveEarly == Spec => []InactiveUntilComplete
<1> QED BY ActivationIsEarned, PTL DEF ActivationEarned

\* A process exists exactly for the employees that its consumer created, also
\* when a promotion takes the email between look-up and insert.
THEOREM EmployeesAreOwned == Spec => []ProcessOwnsEmployee
<1> QED BY ActivationIsEarned, PTL DEF ActivationEarned

\* Every completed process has a hire whose setup is complete, save for PUT.
THEOREM SetupIsComplete == Spec => []CompleteHasSetup
<1> QED BY ActivationIsNotLost, PTL DEF ActivationKept

\* Where a step may take a process, its tasks and its hire.
LEMMA RowChange ==
    ASSUME TypeOK, IInv, [Next]_vars, NEW c \in Candidates
    PROVE  \/ /\ process'[c] = process[c] /\ done'[c] = done[c]
              /\ employee'[c].origin = employee[c].origin
              /\ employee'[c].active => employee[c].active
              /\ edited'[c] \/ employee'[c].setup = employee[c].setup
           \/ /\ process[c] = "none" /\ process'[c] = "none"
              /\ done'[c] = done[c]
              /\ employee'[c].origin = "direct"
           \/ /\ process[c] = "none" /\ process'[c] = "in_progress"
              /\ done'[c] = done[c]
              /\ employee'[c].origin = "onboarding" /\ ~employee'[c].active
           \/ /\ process[c] = "in_progress" /\ process'[c] = "in_progress"
              /\ employee'[c].origin = employee[c].origin
              /\ employee'[c].active => employee[c].active
           \/ /\ process[c] = "in_progress" /\ process'[c] = "complete"
              /\ done'[c] = Tasks
              /\ employee'[c].origin = employee[c].origin
              /\ employee'[c].active
<1>1. CASE UNCHANGED rows
  BY <1>1 DEF rows
<1>2. ASSUME NEW r \in Requests, Commit(r), c = request[r].candidate
      PROVE  /\ process[c] = "in_progress"
             /\ employee'[c].origin = employee[c].origin
             /\ \/ /\ process'[c] = "in_progress"
                   /\ employee'[c].active => employee[c].active
                \/ /\ process'[c] = "complete" /\ employee'[c].active
  <2> DEFINE act == Activates(request[r].edit, request[r].view)
  <2>1. /\ process[c] = "in_progress"
        /\ process'[c] = IF act THEN "complete" ELSE "in_progress"
        /\ employee'[c].origin = employee[c].origin
        /\ employee'[c].active => employee[c].active \/ act
        /\ act => employee'[c].active
    BY <1>2, CommitFacts DEF IInv, LockI
  <2> QED BY <2>1
<1>3. ASSUME NEW r \in Requests, Commit(r), c # request[r].candidate
      PROVE  UNCHANGED <<process[c], done[c], employee[c]>>
  BY <1>3, CommitFacts DEF IInv, LockI
<1>4. ASSUME process'[c] = "complete" PROVE done'[c] = Tasks
  <2>1. RowsI'
    BY RowsStep DEF IInv, LockI, RequestI, RowsI
  <2> QED BY <1>4, <2>1 DEF RowsI, CompleteMeansAllDone
<1>5. ASSUME NEW r \in Requests, CommitPut(r)
      PROVE  /\ UNCHANGED <<process, done>>
             /\ employee'[c].origin = employee[c].origin
             /\ employee'[c].active => employee[c].active
             /\ edited'[c] \/ employee'[c].setup = employee[c].setup
  BY <1>5 DEF CommitPut, TypeOK, EmployeeRow, RequestState
<1>6. ASSUME NEW r \in Requests, CommitDelete(r)
      PROVE  /\ UNCHANGED <<process, done>>
             /\ employee'[c].origin = employee[c].origin
             /\ employee'[c].active => employee[c].active
             /\ employee'[c].setup = employee[c].setup
  <2> DEFINE stays == employee[c].active /\ ~request[r].view.active
  <2>1. employee' = [employee EXCEPT ![request[r].candidate].active =
                      @ /\ ~request[r].view.active]
    BY <1>6 DEF CommitDelete
  <2>2. employee'[c].active = stays \/ employee'[c] = employee[c]
    BY <2>1 DEF TypeOK, EmployeeRow
  <2>3. /\ employee'[c].origin = employee[c].origin
        /\ employee'[c].setup = employee[c].setup
    BY <2>1 DEF TypeOK, EmployeeRow
  <2> QED BY <1>6, <2>2, <2>3 DEF CommitDelete
<1>7. ASSUME NEW d \in Candidates, NEW setup, Promote(d, setup)
      PROVE  /\ UNCHANGED <<process, done>>
             /\ \/ employee'[c] = employee[c]
                \/ /\ process[c] = "none"
                   /\ employee'[c].origin = "direct"
  <2>1. employee[d].origin = "none" => process[d] = "none"
    BY DEF IInv, ProcessOwnsEmployee
  <2> QED BY <1>7, <2>1 DEF Promote, TypeOK
<1>8. ASSUME NEW j \in Jobs, Create(j)
      PROVE  /\ done' = done
             /\ \/ employee'[c] = employee[c] /\ process'[c] = process[c]
                \/ /\ process[c] = "none" /\ process'[c] = "in_progress"
                   /\ employee'[c].origin = "onboarding" /\ ~employee'[c].active
  <2>1. employee[c].origin = "none" => process[c] = "none"
    BY DEF IInv, ProcessOwnsEmployee
  <2> QED BY <1>8, <2>1 DEF Create, TypeOK
<1> QED BY <1>1, <1>2, <1>3, <1>4, <1>5, <1>6, <1>7, <1>8, RowsFrame

\* No request writes a completed process, its tasks or, save through PUT, the
\* setup of its hire, even one that was under way when it completed.
THEOREM Frozen == Spec => FrozenWhenComplete
<1>1. TypeOK /\ IInv /\ [Next]_vars =>
        [\A c \in Candidates : process[c] = "complete" =>
          /\ process'[c] = "complete"
          /\ done'[c] = done[c]
          /\ \/ employee'[c].setup = employee[c].setup
             \/ edited'[c]]_vars
  BY RowChange
<1> QED BY <1>1, TypeCorrect, Inductive, PTL DEF Spec, FrozenWhenComplete

\* A step writes the rows of one candidate at most.
LEMMA OneCandidate ==
    ASSUME TypeOK, IInv, [Next]_vars
    PROVE  \/ UNCHANGED rows
           \/ \E c \in Candidates : \A d \in Candidates \ {c} :
                process'[d] = process[d] /\ done'[d] = done[d]
                  /\ employee'[d] = employee[d]
<1>1. ASSUME NEW r \in Requests, Commit(r)
      PROVE  \A d \in Candidates \ {request[r].candidate} :
               process'[d] = process[d] /\ done'[d] = done[d]
                 /\ employee'[d] = employee[d]
  BY <1>1, CommitFacts DEF IInv, LockI
<1>2. ASSUME NEW r \in Requests, CommitPut(r) \/ CommitDelete(r)
      PROVE  \A d \in Candidates \ {request[r].candidate} :
               process'[d] = process[d] /\ done'[d] = done[d]
                 /\ employee'[d] = employee[d]
  BY <1>2 DEF CommitPut, CommitDelete, TypeOK
<1>3. ASSUME NEW c \in Candidates, NEW setup, Promote(c, setup)
      PROVE  \A d \in Candidates \ {c} :
               process'[d] = process[d] /\ done'[d] = done[d]
                 /\ employee'[d] = employee[d]
  BY <1>3 DEF Promote, TypeOK
<1>4. ASSUME NEW j \in Jobs, Create(j)
      PROVE  \A d \in Candidates \ {job[j].candidate} :
               process'[d] = process[d] /\ done'[d] = done[d]
                 /\ employee'[d] = employee[d]
  BY <1>4 DEF Create, TypeOK
<1>5. /\ \A r \in Requests : request[r].candidate \in Candidates
      /\ \A j \in Jobs : job[j].candidate \in Candidates
  BY DEF TypeOK, RequestState, JobState
<1> QED BY <1>1, <1>2, <1>3, <1>4, <1>5, RowsFrame

\* Onboarding implements OnboardingContract: start once, work, and one atomic
\* step that completes the checklist, the process and the hire.
THEOREM Refinement == Spec => ContractSpec
<1> DEFINE Live(c) == employee[c].origin = "onboarding" /\ employee[c].active
           live == [c \in Candidates |-> Live(c)]
<1>1. Init => Contract!Init
  <2> SUFFICES ASSUME Init PROVE Contract!Init
    OBVIOUS
  <2>1. \A c \in Candidates : Live(c) = FALSE
    BY DEF Init
  <2>2. live = [c \in Candidates |-> FALSE]
    BY <2>1
  <2> QED BY <2>2 DEF Init, Contract!Init
<1>2. TypeOK /\ IInv /\ [Next]_vars => [Contract!Next]_Contract!vars
  <2> SUFFICES ASSUME TypeOK, IInv, [Next]_vars
               PROVE  Contract!Next \/ UNCHANGED <<process, done, live>>
    BY DEF Contract!vars
  <2>1. ASSUME UNCHANGED rows PROVE UNCHANGED <<process, done, live>>
    BY <2>1 DEF rows
  <2>2. ASSUME NEW c \in Candidates,
               \A d \in Candidates \ {c} :
                 process'[d] = process[d] /\ done'[d] = done[d]
                   /\ employee'[d] = employee[d]
        PROVE  Contract!Next \/ UNCHANGED <<process, done, live>>
    <3>1. /\ process \in [Candidates -> ProcessStatus]
          /\ done \in [Candidates -> SUBSET Tasks]
          /\ process' \in [Candidates -> ProcessStatus]
          /\ done' \in [Candidates -> SUBSET Tasks]
      BY TypeStep DEF TypeOK
    <3>2. \A d \in Candidates \ {c} : Live(d)' = Live(d)
      BY <2>2
    <3>3. Live(c) => process[c] = "complete"
      BY DEF IInv, InactiveUntilComplete
    <3>4. process[c] = "none" => employee[c].origin # "onboarding"
      BY DEF IInv, ProcessOwnsEmployee
    <3>5. /\ process' = [process EXCEPT ![c] = process'[c]]
          /\ done' = [done EXCEPT ![c] = done'[c]]
          /\ process'[c] = process[c] => process' = process
          /\ done'[c] = done[c] => done' = done
      BY <2>2, <3>1
    <3> HIDE DEF Live
    <3>6. /\ live' = [live EXCEPT ![c] = Live(c)']
          /\ Live(c)' = Live(c) => live' = live
      BY <3>2
    <3> HIDE DEF live
    <3>7. CASE /\ process'[c] = process[c] /\ done'[c] = done[c]
               /\ Live(c)' = Live(c)
      BY <3>5, <3>6, <3>7
    <3>8. CASE /\ process'[c] = "complete" /\ process[c] = "complete"
               /\ done'[c] = done[c] /\ Live(c)' = FALSE
      <4>1. /\ process[c] = "complete"
            /\ live' = [live EXCEPT ![c] = FALSE]
            /\ UNCHANGED <<process, done>>
        BY <3>5, <3>6, <3>8
      <4>2. Contract!Leave(c)
        BY <4>1 DEF Contract!Leave, live, Live
      <4> QED BY <4>2 DEF Contract!Next
    <3>9. CASE /\ process[c] = "none" /\ process'[c] = "in_progress"
               /\ done'[c] = done[c] /\ Live(c)' = Live(c)
      <4>1. /\ process[c] = "none"
            /\ process' = [process EXCEPT ![c] = "in_progress"]
            /\ UNCHANGED <<done, live>>
        BY <3>5, <3>6, <3>9
      <4>2. Contract!Begin(c)
        BY <4>1 DEF Contract!Begin, live, Live
      <4> QED BY <4>2 DEF Contract!Next
    <3>10. CASE /\ process[c] = "in_progress" /\ process'[c] = "in_progress"
                /\ Live(c)' = Live(c)
      <4>1. /\ process[c] = "in_progress"
            /\ \E S \in SUBSET Tasks : done' = [done EXCEPT ![c] = S]
            /\ UNCHANGED <<process, live>>
        BY <3>1, <3>5, <3>6, <3>10
      <4>2. Contract!Work(c)
        BY <4>1 DEF Contract!Work, live, Live
      <4> QED BY <4>2 DEF Contract!Next
    <3>11. CASE /\ process[c] = "in_progress" /\ process'[c] = "complete"
                /\ done'[c] = Tasks /\ Live(c)' = TRUE
      <4>1. /\ process[c] = "in_progress"
            /\ process' = [process EXCEPT ![c] = "complete"]
            /\ done' = [done EXCEPT ![c] = Tasks]
            /\ live' = [live EXCEPT ![c] = TRUE]
        BY <3>5, <3>6, <3>11
      <4>2. Contract!Finish(c)
        BY <4>1 DEF Contract!Finish, live, Live
      <4> QED BY <4>2 DEF Contract!Next
    <3>12. process'[c] = "complete" => employee[c].origin = "onboarding"
      BY RowChange DEF IInv, ProcessOwnsEmployee
    <3>13. \/ /\ process'[c] = process[c] /\ done'[c] = done[c]
              /\ Live(c)' => Live(c)
           \/ /\ process[c] = "none" /\ process'[c] = "none"
              /\ done'[c] = done[c] /\ ~Live(c)'
           \/ /\ process[c] = "none" /\ process'[c] = "in_progress"
              /\ done'[c] = done[c] /\ ~Live(c)'
           \/ /\ process[c] = "in_progress" /\ process'[c] = "in_progress"
              /\ Live(c)' => Live(c)
           \/ /\ process[c] = "in_progress" /\ process'[c] = "complete"
              /\ done'[c] = Tasks /\ Live(c)'
      BY <3>12, RowChange DEF Live
    <3> QED BY <3>3, <3>4, <3>7, <3>8, <3>9, <3>10, <3>11, <3>13 DEF Live
  <2> QED BY <2>1, <2>2, OneCandidate
<1> QED BY <1>1, <1>2, TypeCorrect, Inductive, PTL
        DEF Spec, ContractSpec, Contract!Spec
===============================================================================
