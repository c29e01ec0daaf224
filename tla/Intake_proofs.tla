---------------------------- MODULE Intake_proofs -----------------------------
(* Proofs about Intake, for every value of the constants. *)
EXTENDS Intake, TLAPS

USE RowsAssumption, NoneAssumption, HolderAssumption, UploadsAssumption
    DEF RowsAssumption, NoneAssumption, HolderAssumption, UploadsAssumption, Rows

-------------------------------------------------------------------------------
(* Types *)

LEMMA OpTypes ==
    /\ {"promote", "attach", "none"} \subseteq Ops
    /\ Assignments \subseteq Ops /\ Decisions \subseteq Ops /\ Transitions \subseteq Ops
    /\ \A op : Goal(op) \in {"open", "closed", "cancelled"}
    /\ \A op : Verdict(op) \in {"accepted", "rejected", "archived"}
  BY DEF Ops, Goal, Verdict

LEMMA EndType ==
    ASSUME TypeOK, NEW r \in Requests, End(r)
    PROVE  /\ lock' \in [Rows -> Requests \cup {Free}]
           /\ request' \in [Requests -> Handler]
<1>1. Idle \in Handler
  BY OpTypes DEF Idle, Handler, Pcs
<1>2. \A x \in Rows : lock[x] \in Requests \cup {Free}
  BY DEF TypeOK
<1> QED BY <1>1, <1>2 DEF End, TypeOK

LEMMA GotoType ==
    ASSUME TypeOK, NEW r \in Requests, NEW pc \in Pcs,
           request' = [request EXCEPT ![r].pc = pc]
    PROVE  request' \in [Requests -> Handler]
<1>1. [request[r] EXCEPT !.pc = pc] \in Handler
  BY DEF TypeOK, Handler
<1> QED BY <1>1 DEF TypeOK

LEMMA InitInv == Init => IInv
<1> SUFFICES ASSUME Init PROVE IInv
  OBVIOUS
<1>1. TypeOK
  BY OpTypes DEF Init, TypeOK, Application, Candidate, Handler, Idle, Pcs
<1>2. \A r \in Requests : request[r] = Idle
  BY DEF Init
<1>3. ShapeInv /\ LockInv /\ GuardInv /\ DraftInv /\ RowInv
  BY <1>2 DEF Init, ShapeInv, LockInv, GuardInv, DraftInv, RowInv, Holds, Idle, Assignments,
     Decisions, Transitions
<1>4. UnusedInv /\ PromotedOnce
  BY DEF Init, UnusedInv, PromotedOnce
<1> QED BY <1>1, <1>3, <1>4 DEF IInv

-------------------------------------------------------------------------------
(* Steps that touch no lock *)

\* A row appears that no handler can be about to change.
LEMMA NewRowStep == ASSUME IInv, NewRow PROVE IInv'
<1>1. UNCHANGED <<opening, lock, request>>
  BY DEF NewRow, ReceiveApplication, SplitApplication, CreateCandidate
<1>2. ShapeInv' /\ LockInv' /\ DraftInv'
  <2>1. ShapeInv' /\ DraftInv'
    BY <1>1 DEF IInv, ShapeInv, DraftInv
  <2>2. \A x \in Rows, r \in Requests : Holds(r, x)' <=> Holds(r, x)
    BY <1>1 DEF Holds
  <2>3. LockInv'
    BY <1>1, <2>2 DEF IInv, LockInv
  <2> QED BY <2>1, <2>3
<1>3. ASSUME NEW a \in Applications,
             ReceiveApplication(a) \/ \E o \in Openings : SplitApplication(a, o)
      PROVE  IInv'
  <2>1. /\ application[a].status = "none"
        /\ UNCHANGED candidate
    BY <1>3 DEF ReceiveApplication, SplitApplication
  <2>2. PICK n \in Application :
          /\ application' = [application EXCEPT ![a] = n]
          /\ n.status = "new" /\ n.candidate = application[a].candidate
    <3>1. application[a] \in Application
      BY DEF IInv, TypeOK
    <3>2. CASE ReceiveApplication(a)
      <4>1. [application[a] EXCEPT !.status = "new"] \in Application
        BY <3>1 DEF Application
      <4> QED BY <3>1, <3>2, <4>1 DEF ReceiveApplication, Application
    <3>3. ASSUME NEW o \in Openings, SplitApplication(a, o)
          PROVE  \E n \in Application :
                   /\ application' = [application EXCEPT ![a] = n]
                   /\ n.status = "new" /\ n.candidate = application[a].candidate
      <4>1. [application[a] EXCEPT !.status = "new", !.opening = o] \in Application
        BY <3>1 DEF Application
      <4> QED BY <3>1, <3>3, <4>1 DEF SplitApplication, Application
    <3> QED BY <1>3, <3>2, <3>3
  <2>3. TypeOK'
    BY <1>1, <2>1, <2>2 DEF IInv, TypeOK
  <2>4. /\ application'[a] = n
        /\ \A b \in Applications \ {a} : application'[b] = application[b]
    BY <2>2 DEF IInv, TypeOK
  <2>5. GuardInv'
    BY <1>1, <2>1, <2>2, <2>4 DEF IInv, GuardInv, Permitted, MayAssign, MayReassign, MayUnassign, Assignments, ShapeInv
  <2>6. UnusedInv' /\ PromotedOnce'
    BY <2>1, <2>2, <2>4 DEF IInv, UnusedInv, PromotedOnce
  <2>7. RowInv'
    BY <1>1, <2>1 DEF IInv, RowInv
  <2> QED BY <1>2, <2>3, <2>5, <2>6, <2>7 DEF IInv
<1>4. ASSUME NEW c \in Uploads, CreateCandidate(c) PROVE IInv'
  <2>1. /\ c \in Candidates
        /\ candidate[c].status = "none"
        /\ UNCHANGED application
        /\ [candidate[c] EXCEPT !.status = "undecided"] \in Candidate
    BY <1>4 DEF CreateCandidate, IInv, TypeOK, Candidate
  <2>2. TypeOK'
    BY <1>1, <1>4, <2>1 DEF CreateCandidate, IInv, TypeOK
  <2>3. /\ candidate'[c] = [candidate[c] EXCEPT !.status = "undecided"]
        /\ \A d \in Candidates \ {c} : candidate'[d] = candidate[d]
    BY <1>4, <2>1 DEF CreateCandidate, IInv, TypeOK
  <2>4. candidate'[c].status = "undecided" /\ candidate'[c].from = candidate[c].from
    BY <2>1, <2>3 DEF IInv, TypeOK, Candidate
  <2>5. GuardInv'
    BY <1>1, <2>1, <2>3 DEF IInv, GuardInv, Permitted, MayAssign, MayReassign, MayUnassign, Assignments, ShapeInv
  <2>6. \A d \in Candidates :
          /\ candidate'[d].from = candidate[d].from
          /\ candidate'[d].status = "deleted" <=> candidate[d].status = "deleted"
          /\ candidate'[d].status = "none" => candidate[d].status = "none"
    BY <2>1, <2>3, <2>4
  <2>7. UnusedInv'
    BY <2>1, <2>6 DEF IInv, UnusedInv
  <2>8. PromotedOnce'
    BY <2>1, <2>6 DEF IInv, PromotedOnce
  <2>9. RowInv'
    BY <1>1, <2>3, <2>4 DEF IInv, RowInv, ShapeInv
  <2> QED BY <1>2, <2>2, <2>5, <2>7, <2>8, <2>9 DEF IInv
<1> QED BY <1>3, <1>4 DEF NewRow

\* A new handler holds nothing yet, and its operation fits its row.
LEMMA NewRequestStep == ASSUME IInv, NEW r \in Requests, NewRequest(r) PROVE IInv'
<1>1. PICK q \in Handler :
        /\ request[r].pc = "idle"
        /\ request' = [request EXCEPT ![r] = q]
        /\ UNCHANGED <<opening, application, candidate, lock>>
        /\ q.pc \in {"wait", "decide"} /\ q.op # "none"
        /\ q.op \in {"promote", "attach"} => q.row \in Applications /\ q.pc = "wait"
        /\ q.op \in Assignments => q.row \in Candidates /\ q.pc = "wait"
        /\ q.op \in Decisions => /\ q.row \in Candidates /\ q.pc = "decide"
                                 /\ candidate[q.row].status = "undecided"
        /\ q.op \in Transitions => q.row \in Openings /\ q.pc = "decide"
        /\ q.op \in Transitions \cup {"reject", "archive"} => q.target = None
  <2> DEFINE Q(pc, op, row, target) ==
               [pc |-> pc, op |-> op, row |-> row, target |-> target]
  <2>1. ASSUME NEW pc \in {"wait", "decide"}, NEW op \in Ops \ {"none"}, NEW row \in Rows,
               NEW target \in Openings \cup {None}
        PROVE  Q(pc, op, row, target) \in Handler
    BY DEF Handler, Pcs
  <2>2. ASSUME NEW a \in Applications, NEW t \in Openings \cup {None},
               BeginPromotion(r, a, t) \/ BeginAttachment(r, a, t)
        PROVE  \E op \in {"promote", "attach"} : Begin(r, "wait", op, a, t)
    BY <2>2 DEF BeginPromotion, BeginAttachment
  <2>3. ASSUME NEW a \in Applications, NEW t \in Openings \cup {None},
               NEW op \in {"promote", "attach"}, Begin(r, "wait", op, a, t)
        PROVE  /\ Q("wait", op, a, t) \in Handler
               /\ op \notin {"none"} \cup Assignments \cup Decisions \cup Transitions
               /\ op \notin {"reject", "archive"}
    BY <2>1 DEF Ops, Assignments, Decisions, Transitions
  <2>4. ASSUME NEW c \in Candidates, NEW t \in Openings \cup {None},
               NEW op \in Assignments
        PROVE  /\ Q("wait", op, c, t) \in Handler
               /\ op \notin {"none", "promote", "attach"} \cup Decisions \cup Transitions
               /\ op \notin {"reject", "archive"}
    BY <2>1 DEF Ops, Assignments, Decisions, Transitions
  <2>5. ASSUME NEW c \in Candidates, NEW t \in Openings \cup {None},
               NEW op \in Decisions
        PROVE  /\ Q("decide", op, c, t) \in Handler
               /\ op \notin {"none", "promote", "attach"} \cup Assignments \cup Transitions
    BY <2>1 DEF Ops, Assignments, Decisions, Transitions
  <2>6. ASSUME NEW o \in Openings, NEW op \in Transitions
        PROVE  /\ Q("decide", op, o, None) \in Handler
               /\ op \notin {"none", "promote", "attach"} \cup Assignments \cup Decisions
    BY <2>1 DEF Ops, Assignments, Decisions, Transitions
  <2>7. \A c \in Candidates : candidate[c].opening \in Openings \cup {None}
    BY DEF IInv, TypeOK, Candidate
  <2>8. CASE \E a \in Applications, t \in Openings \cup {None} :
               BeginPromotion(r, a, t) \/ BeginAttachment(r, a, t)
    <3>1. PICK a \in Applications, t \in Openings \cup {None}, op \in {"promote", "attach"} :
            Begin(r, "wait", op, a, t)
      BY <2>2, <2>8
    <3>2. Q("wait", op, a, t) \in Handler
      BY <2>3, <3>1
    <3> WITNESS Q("wait", op, a, t) \in Handler
    <3> QED BY <2>3, <3>1 DEF Begin, rows
  <2>9. CASE \E c \in Candidates, op \in Assignments, t \in Openings \cup {None} :
               BeginAssignment(r, c, op, t)
    <3>1. PICK c \in Candidates, op \in Assignments, t \in Openings \cup {None} :
            Begin(r, "wait", op, c, t)
      BY <2>9 DEF BeginAssignment
    <3>2. Q("wait", op, c, t) \in Handler
      BY <2>4
    <3> WITNESS Q("wait", op, c, t) \in Handler
    <3> QED BY <2>4, <3>1 DEF Begin, rows
  <2>10. CASE \E c \in Candidates, op \in Decisions : BeginDecision(r, c, op)
    <3>1. PICK c \in Candidates, op \in Decisions, t \in Openings \cup {None} :
            /\ Begin(r, "decide", op, c, t)
            /\ candidate[c].status = "undecided"
            /\ op # "accept" => t = None
      BY <2>7, <2>10 DEF BeginDecision
    <3>2. Q("decide", op, c, t) \in Handler
      BY <2>5
    <3> WITNESS Q("decide", op, c, t) \in Handler
    <3> QED BY <2>5, <3>1 DEF Begin, rows
  <2>11. CASE \E o \in Openings, op \in Transitions : BeginTransition(r, o, op)
    <3>1. PICK o \in Openings, op \in Transitions : Begin(r, "decide", op, o, None)
      BY <2>11 DEF BeginTransition
    <3>2. Q("decide", op, o, None) \in Handler
      BY <2>6
    <3> WITNESS Q("decide", op, o, None) \in Handler
    <3> QED BY <2>6, <3>1 DEF Begin, rows
  <2> HIDE DEF Q
  <2> QED BY <2>8, <2>9, <2>10, <2>11 DEF NewRequest
<1>2. /\ request'[r] = q
      /\ \A p \in Requests \ {r} : request'[p] = request[p]
  BY <1>1 DEF IInv, TypeOK
<1>3. TypeOK'
  BY <1>1 DEF IInv, TypeOK
<1>4. ShapeInv'
  BY <1>1, <1>2 DEF IInv, ShapeInv
<1>5. LockInv'
  <2>1. \A x \in Rows, p \in Requests : Holds(p, x)' <=> Holds(p, x)
    BY <1>1, <1>2 DEF Holds
  <2> QED BY <1>1, <2>1 DEF IInv, LockInv
<1>6. GuardInv'
  BY <1>1, <1>2 DEF IInv, GuardInv, Permitted, MayAssign, MayReassign, MayUnassign, Assignments
<1>7. DraftInv'
  BY <1>1, <1>2 DEF IInv, DraftInv
<1>8. UnusedInv' /\ PromotedOnce'
  BY <1>1 DEF IInv, UnusedInv, PromotedOnce
<1>9. RowInv'
  BY <1>1, <1>2 DEF IInv, RowInv
<1> QED BY <1>3, <1>4, <1>5, <1>6, <1>7, <1>8, <1>9 DEF IInv

-------------------------------------------------------------------------------
(* Steps of a handler *)

\* What another handler has locked and found permitted stays permitted.
LEMMA OthersPermitted ==
    ASSUME IInv, NEW r \in Requests,
           \A q \in Requests \ {r} : request'[q] = request[q],
           \A a \in Applications :
             application'[a] = application[a] \/ lock[a] = r,
           \A c \in Candidates :
             \/ candidate'[c] = candidate[c]
             \/ lock[c] = r
             \/ candidate[c].status # "undecided"
    PROVE  \A q \in Requests \ {r} :
             request'[q].pc \in {"held", "ready"} => Permitted(q)'
<1> SUFFICES ASSUME NEW q \in Requests \ {r}, request[q].pc \in {"held", "ready"}
             PROVE  Permitted(q)'
  OBVIOUS
<1>1. Permitted(q) /\ request'[q] = request[q]
  BY DEF IInv, GuardInv
<1>2. ASSUME NEW x \in Rows, x = request[q].row PROVE lock[x] # r
  BY <1>2 DEF IInv, LockInv, Holds
<1>3. ASSUME request[q].op \in {"promote", "attach"}
      PROVE  application'[request[q].row] = application[request[q].row]
  BY <1>2, <1>3 DEF IInv, ShapeInv
<1>4. ASSUME request[q].op \in Assignments
      PROVE  candidate'[request[q].row] = candidate[request[q].row]
  BY <1>1, <1>2, <1>4 DEF IInv, ShapeInv, Permitted, MayAssign, MayReassign, MayUnassign, Assignments
<1> QED BY <1>1, <1>3, <1>4 DEF Permitted, MayAssign, MayReassign, MayUnassign, Assignments

\* The end of a transaction, whatever it wrote.
LEMMA EndInv ==
    ASSUME IInv, NEW r \in Requests, End(r)
    PROVE  /\ request'[r] = Idle
           /\ \A q \in Requests \ {r} : request'[q] = request[q]
           /\ ShapeInv' /\ LockInv'
<1>1. /\ request'[r] = Idle
      /\ \A q \in Requests \ {r} : request'[q] = request[q]
  BY DEF End, IInv, TypeOK
<1>2. ShapeInv'
  BY <1>1 DEF IInv, ShapeInv, Idle, Assignments, Decisions, Transitions
<1>3. \A x \in Rows : lock'[x] = IF lock[x] = r THEN Free ELSE lock[x]
  BY DEF End
<1>4. \A x \in Rows : ~Holds(r, x)'
  BY <1>1 DEF Holds, Idle
<1>5. \A x \in Rows, q \in Requests \ {r} : Holds(q, x)' <=> Holds(q, x)
  BY <1>1 DEF Holds
<1>6. LockInv'
  BY <1>3, <1>4, <1>5 DEF IInv, LockInv
<1> QED BY <1>1, <1>2, <1>6

\* A handler that ends without a write: rolled back, or refused.
LEMMA EndStep ==
    ASSUME IInv, NEW r \in Requests, End(r), UNCHANGED rows
    PROVE  IInv'
<1>1. /\ request'[r] = Idle
      /\ \A q \in Requests \ {r} : request'[q] = request[q]
      /\ ShapeInv' /\ LockInv'
  BY EndInv
<1>2. UNCHANGED <<opening, application, candidate>>
  BY DEF rows
<1>3. TypeOK'
  BY <1>2, EndType DEF IInv, TypeOK
<1>4. GuardInv'
  BY <1>1, <1>2, OthersPermitted DEF GuardInv, Idle
<1>5. DraftInv'
  BY <1>1, <1>2 DEF IInv, DraftInv, Idle
<1>6. UnusedInv' /\ PromotedOnce'
  BY <1>2 DEF IInv, UnusedInv, PromotedOnce
<1>7. RowInv'
  BY <1>1, <1>2 DEF IInv, RowInv, Idle, Decisions
<1> QED BY <1>1, <1>3, <1>4, <1>5, <1>6, <1>7 DEF IInv

\* A handler that moves on, with one more lock or none, and writes nothing.
LEMMA MoveStep ==
    ASSUME IInv, NEW r \in Requests,
           LockRow(r) \/ CheckOpening(r) \/ Write(r) \/ TouchOpening(r)
    PROVE  IInv'
<1>1. request[r] \in Handler
  BY DEF IInv, TypeOK
<1>2. PICK pc \in {"held", "touch", "ready"} :
        request' = [request EXCEPT ![r].pc = pc]
  BY DEF LockRow, CheckOpening, Write, TouchOpening, Acquire
<1>3. UNCHANGED <<opening, application, candidate>>
  BY DEF LockRow, CheckOpening, Write, TouchOpening, Acquire, rows
<1>4. /\ request'[r].pc = pc /\ request'[r].op = request[r].op
      /\ request'[r].row = request[r].row /\ request'[r].target = request[r].target
      /\ \A q \in Requests \ {r} : request'[q] = request[q]
      /\ request' \in [Requests -> Handler]
  BY <1>1, <1>2, GotoType DEF IInv, TypeOK, Handler, Pcs
<1>5. \A x \in Rows, q \in Requests \ {r} : Holds(q, x)' <=> Holds(q, x)
  BY <1>4 DEF Holds
<1>6. RowInv'
  <2>1. request[r].op \in Decisions /\ request[r].pc = "decide"
          => candidate[request[r].row].status # "deleted"
    BY DEF LockRow, CheckOpening, Write, TouchOpening, Acquire, IInv, ShapeInv
  <2> QED BY <1>3, <1>4, <2>1 DEF IInv, RowInv
<1>7. CASE LockRow(r)
  <2>1. /\ request[r].pc = "wait" /\ pc = "held" /\ Permitted(r)
        /\ request[r].row \in Rows
        /\ lock[request[r].row] = Free
        /\ lock' = [lock EXCEPT ![request[r].row] = r]
    BY <1>1, <1>4, <1>7 DEF LockRow, Acquire, IInv, TypeOK, Handler, ShapeInv, Ops
  <2>2. TypeOK'
    BY <1>3, <1>4, <2>1 DEF IInv, TypeOK
  <2>3. ShapeInv'
    BY <1>4, <2>1 DEF IInv, ShapeInv, Decisions, Transitions
  <2>4. \A x \in Rows : ~Holds(r, x) /\ (Holds(r, x)' <=> x = request[r].row)
    BY <1>4, <2>1 DEF Holds
  <2>5. LockInv'
    BY <1>5, <2>1, <2>4 DEF IInv, LockInv, TypeOK
  <2>6. Permitted(r)'
    BY <1>3, <1>4, <2>1 DEF Permitted, MayAssign, MayReassign, MayUnassign, Assignments
  <2>7. GuardInv'
    BY <1>3, <1>4, <2>6, OthersPermitted DEF GuardInv
  <2>8. DraftInv'
    BY <1>3, <1>4, <2>1 DEF IInv, DraftInv
  <2>9. UnusedInv' /\ PromotedOnce'
    BY <1>3 DEF IInv, UnusedInv, PromotedOnce
  <2> QED BY <1>6, <2>2, <2>3, <2>5, <2>7, <2>8, <2>9 DEF IInv
<1>8. CASE CheckOpening(r)
  <2>1. /\ request[r].pc = "held" /\ pc = "ready"
        /\ request[r].target # None => opening[request[r].target] = "open"
        /\ lock' = lock
    BY <1>1, <1>4, <1>8 DEF CheckOpening, IInv, TypeOK, Handler
  <2>2. request[r].op \in {"promote", "attach"} \cup Assignments
    BY <1>1, <2>1 DEF Handler, Ops, IInv, ShapeInv
  <2>3. TypeOK'
    BY <1>3, <1>4, <2>1 DEF IInv, TypeOK
  <2>4. ShapeInv'
    BY <1>4, <2>1 DEF IInv, ShapeInv
  <2>5. \A x \in Rows : Holds(r, x)' <=> Holds(r, x)
    BY <1>4, <2>1, <2>2 DEF Holds, Assignments
  <2>6. LockInv'
    BY <1>5, <2>1, <2>5 DEF IInv, LockInv
  <2>7. Permitted(r)'
    BY <1>3, <1>4, <2>1 DEF IInv, GuardInv, Permitted, MayAssign, MayReassign, MayUnassign, Assignments
  <2>8. GuardInv'
    BY <1>3, <1>4, <2>7, OthersPermitted DEF GuardInv
  <2>9. DraftInv'
    BY <1>3, <1>4, <2>1 DEF IInv, DraftInv
  <2>10. UnusedInv' /\ PromotedOnce'
    BY <1>3 DEF IInv, UnusedInv, PromotedOnce
  <2> QED BY <1>6, <2>3, <2>4, <2>6, <2>8, <2>9, <2>10 DEF IInv
<1>9. CASE Write(r)
  <2>1. /\ request[r].pc = "decide"
        /\ pc = IF request[r].target = None THEN "ready" ELSE "touch"
        /\ request[r].op \in Decisions \cup Transitions
        /\ request[r].row \in Rows
        /\ lock[request[r].row] = Free
        /\ lock' = [lock EXCEPT ![request[r].row] = r]
    BY <1>1, <1>4, <1>9 DEF Write, Acquire, IInv, TypeOK, Handler, ShapeInv, Ops
  <2>2. TypeOK'
    BY <1>3, <1>4, <2>1 DEF IInv, TypeOK
  <2>3. ShapeInv'
    BY <1>1, <1>4, <2>1 DEF IInv, ShapeInv, Handler, Decisions, Transitions
  <2>4. \A x \in Rows : ~Holds(r, x) /\ (Holds(r, x)' <=> x = request[r].row)
    BY <1>4, <2>1 DEF Holds
  <2>5. LockInv'
    BY <1>5, <2>1, <2>4 DEF IInv, LockInv, TypeOK
  <2>6. /\ Permitted(r)'
        /\ request[r].op \notin {"promote", "attach"} \cup Assignments
    BY <1>4, <2>1 DEF Permitted, MayAssign, MayReassign, MayUnassign, Decisions, Transitions, Assignments
  <2>7. GuardInv'
    BY <1>3, <1>4, <2>6, OthersPermitted DEF GuardInv
  <2>8. DraftInv'
    BY <1>3, <1>4, <2>6 DEF IInv, DraftInv
  <2>9. UnusedInv' /\ PromotedOnce'
    BY <1>3 DEF IInv, UnusedInv, PromotedOnce
  <2> QED BY <1>6, <2>2, <2>3, <2>5, <2>7, <2>8, <2>9 DEF IInv
<1>10. CASE TouchOpening(r)
  <2>1. /\ request[r].pc = "touch" /\ pc = "ready" /\ request[r].op = "accept"
        /\ request[r].target \in Openings
        /\ lock[request[r].target] = Free
        /\ lock' = [lock EXCEPT ![request[r].target] = r]
    BY <1>1, <1>4, <1>10 DEF TouchOpening, Acquire, IInv, TypeOK, ShapeInv
  <2>2. TypeOK'
    BY <1>3, <1>4, <2>1 DEF IInv, TypeOK
  <2>3. ShapeInv'
    BY <1>4, <2>1 DEF IInv, ShapeInv, Assignments, Transitions
  <2>4. \A x \in Rows : Holds(r, x)' <=> Holds(r, x) \/ x = request[r].target
    BY <1>4, <2>1 DEF Holds
  <2>5. LockInv'
    BY <1>5, <2>1, <2>4 DEF IInv, LockInv, TypeOK
  <2>6. Permitted(r)'
    BY <1>4, <2>1 DEF Permitted, MayAssign, MayReassign, MayUnassign, Assignments
  <2>7. GuardInv'
    BY <1>3, <1>4, <2>6, OthersPermitted DEF GuardInv
  <2>8. DraftInv'
    BY <1>3, <1>4, <2>1 DEF IInv, DraftInv, Assignments
  <2>9. UnusedInv' /\ PromotedOnce'
    BY <1>3 DEF IInv, UnusedInv, PromotedOnce
  <2> QED BY <1>6, <2>2, <2>3, <2>5, <2>7, <2>8, <2>9 DEF IInv
<1> QED BY <1>7, <1>8, <1>9, <1>10

-------------------------------------------------------------------------------
(* Steps that write rows *)

\* The commit writes rows that its handler has locked, and no draft appears.
LEMMA CommitInv ==
    ASSUME IInv, NEW r \in Requests, Commit(r)
    PROVE  /\ ShapeInv' /\ LockInv' /\ GuardInv' /\ DraftInv'
           /\ lock' \in [Rows -> Requests \cup {Free}]
           /\ request' \in [Requests -> Handler]
<1>1. End(r) /\ request[r].pc = "ready"
  BY DEF Commit, CommitPromotion, CommitAttachment, CommitAssignment, CommitDecision,
     CommitTransition
<1>2. /\ request'[r] = Idle
      /\ \A q \in Requests \ {r} : request'[q] = request[q]
      /\ ShapeInv' /\ LockInv'
  BY <1>1, EndInv
<1>3. request[r].row \in Rows => lock[request[r].row] = r
  BY <1>1 DEF IInv, LockInv, Holds
<1>4. \A a \in Applications : application'[a] = application[a] \/ lock[a] = r
  BY <1>3 DEF Commit, CommitPromotion, CommitAttachment, CommitAssignment,
     CommitDecision, CommitTransition, IInv, TypeOK
<1>5. \A c \in Candidates :
        \/ candidate'[c] = candidate[c]
        \/ lock[c] = r
        \/ candidate[c].status # "undecided"
  BY <1>3 DEF Commit, CommitPromotion, CommitAttachment, CommitAssignment,
     CommitDecision, CommitTransition, IInv, TypeOK
<1>6. GuardInv'
  BY <1>2, <1>4, <1>5, OthersPermitted DEF GuardInv, Idle
<1>7. \A o \in Openings : opening'[o] = "draft" => opening[o] = "draft"
  BY DEF Commit, CommitPromotion, CommitAttachment, CommitAssignment,
     CommitDecision, CommitTransition, IInv, TypeOK, Goal
<1>8. \A q \in Requests : request[q].target \in Openings \cup {None}
  BY DEF IInv, TypeOK, Handler
<1>9. DraftInv'
  BY <1>2, <1>7, <1>8 DEF IInv, DraftInv, Idle
<1> QED BY <1>1, <1>2, <1>6, <1>9, EndType DEF IInv

LEMMA CommitStep == ASSUME IInv, NEW r \in Requests, Commit(r) PROVE IInv'
<1> DEFINE x == request[r].row
           t == request[r].target
<1>1. t \in Openings \cup {None}
  BY DEF IInv, TypeOK, Handler
<1>2. /\ ShapeInv' /\ LockInv' /\ GuardInv' /\ DraftInv'
      /\ lock' \in [Rows -> Requests \cup {Free}]
      /\ request' \in [Requests -> Handler]
  BY CommitInv
<1>3. ASSUME \A d \in Candidates :
               /\ candidate'[d].status = "none" => candidate[d].status = "none"
               /\ candidate'[d].status = "deleted" => candidate[d].status = "deleted"
      PROVE  RowInv'
  <2>1. request'[r] = Idle /\ \A q \in Requests \ {r} : request'[q] = request[q]
    BY EndInv DEF Commit, CommitPromotion, CommitAttachment, CommitAssignment,
       CommitDecision, CommitTransition
  <2> QED BY <1>3, <2>1 DEF IInv, RowInv, ShapeInv, Idle, Decisions
<1>4. ASSUME NEW c \in Candidates, CommitPromotion(r, c) PROVE IInv'
  <2>1. x \in Applications /\ application[x].status = "new"
    BY <1>4 DEF CommitPromotion, IInv, ShapeInv, GuardInv, Permitted, MayAssign, MayReassign, MayUnassign, Assignments
  <2>2. PICK o \in Openings \cup {None} :
          /\ candidate' = [candidate EXCEPT
                             ![c] = [status |-> "undecided", opening |-> o, from |-> x]]
          /\ application' = [application EXCEPT
                ![x] = [status |-> "promoted", opening |-> o, candidate |-> c]]
    <3>1. application[x].opening \in Openings \cup {None}
      BY <2>1 DEF IInv, TypeOK, Application
    <3> QED BY <1>1, <1>4, <3>1 DEF CommitPromotion
  <2>3. candidate[c].status = "none" /\ UNCHANGED opening
    BY <1>4 DEF CommitPromotion
  <2>4. TypeOK'
    BY <1>2, <2>1, <2>2, <2>3 DEF IInv, TypeOK, Application, Candidate
  <2>5. /\ candidate'[c].from = x /\ candidate'[c].status = "undecided"
        /\ \A d \in Candidates \ {c} : candidate'[d] = candidate[d]
    BY <2>2 DEF IInv, TypeOK
  <2>6. /\ application'[x].candidate = c /\ application'[x].status = "promoted"
        /\ \A a \in Applications \ {x} : application'[a] = application[a]
    BY <2>1, <2>2 DEF IInv, TypeOK
  <2>7. candidate[c].from = None /\ application[x].candidate = None
    BY <2>1, <2>3 DEF IInv, UnusedInv
  <2>8. UnusedInv'
    BY <2>5, <2>6 DEF IInv, UnusedInv
  <2>9. PromotedOnce'
    <3>1. ASSUME NEW a \in Applications PROVE application[a].candidate # c
      <4>1. application[a].candidate = c => c \in {d \in Candidates : candidate[d].from = a}
        BY DEF IInv, PromotedOnce
      <4> QED BY <2>7, <4>1
    <3>2. {d \in Candidates : candidate'[d].from = x} = {c}
      <4>1. {d \in Candidates : candidate[d].from = x} = {}
        BY <2>1, <2>7 DEF IInv, PromotedOnce
      <4> QED BY <2>5, <4>1
    <3>3. ASSUME NEW a \in Applications \ {x}
          PROVE  {d \in Candidates : candidate'[d].from = a}
                   = {d \in Candidates : candidate[d].from = a}
      BY <2>1, <2>5, <2>7
    <3>4. ASSUME NEW a \in Applications \ {x}
          PROVE  /\ {d \in Candidates : candidate'[d].from = a}
                       = {application'[a].candidate} \ {None}
                 /\ (application'[a].status = "promoted") = (application'[a].candidate # None)
                 /\ \A d \in Candidates :
                      application'[a].candidate = d => candidate'[d].status # "deleted"
      BY <2>5, <2>6, <3>1, <3>3 DEF IInv, PromotedOnce
    <3>5. /\ {d \in Candidates : candidate'[d].from = x}
                = {application'[x].candidate} \ {None}
          /\ (application'[x].status = "promoted") = (application'[x].candidate # None)
          /\ \A d \in Candidates :
               application'[x].candidate = d => candidate'[d].status # "deleted"
      BY <2>5, <2>6, <3>2
    <3> QED BY <3>4, <3>5 DEF PromotedOnce
  <2> QED BY <1>2, <1>3, <2>3, <2>4, <2>5, <2>8, <2>9 DEF IInv
<1>5. CASE CommitAttachment(r)
  <2>1. x \in Applications /\ application[x].status = "new"
    BY <1>5 DEF CommitAttachment, IInv, ShapeInv, GuardInv, Permitted, MayAssign, MayReassign, MayUnassign, Assignments
  <2>2. /\ application' = [application EXCEPT ![x].opening = t]
        /\ UNCHANGED <<opening, candidate>>
    BY <1>5 DEF CommitAttachment
  <2>3. [application[x] EXCEPT !.opening = t] \in Application
    BY <1>1, <2>1 DEF IInv, TypeOK, Application
  <2>4. TypeOK'
    BY <1>2, <2>2, <2>3 DEF IInv, TypeOK
  <2>5. \A a \in Applications :
          /\ application'[a].status = application[a].status
          /\ application'[a].candidate = application[a].candidate
    BY <2>1, <2>2 DEF IInv, TypeOK, Application
  <2>6. UnusedInv' /\ PromotedOnce'
    BY <2>2, <2>5 DEF IInv, UnusedInv, PromotedOnce
  <2> QED BY <1>2, <1>3, <2>2, <2>4, <2>6 DEF IInv
<1>6. ASSUME CommitAssignment(r) \/ CommitDecision(r) PROVE IInv'
  <2>1. x \in Candidates /\ candidate[x].status \notin {"none", "deleted"}
    <3>1. CASE CommitAssignment(r)
      BY <3>1 DEF CommitAssignment, IInv, ShapeInv, GuardInv, Permitted, MayAssign, MayReassign, MayUnassign, Assignments
    <3>2. CASE CommitDecision(r)
      BY <3>2 DEF CommitDecision, IInv, ShapeInv, RowInv
    <3> QED BY <1>6, <3>1, <3>2
  <2>2. UNCHANGED <<opening, application>>
    BY <1>6 DEF CommitAssignment, CommitDecision
  <2>3. PICK n \in Candidate :
          /\ candidate' = [candidate EXCEPT ![x] = n]
          /\ n.from = candidate[x].from /\ n.status \notin {"none", "deleted"}
    <3>1. candidate[x] \in Candidate
      BY <2>1 DEF IInv, TypeOK
    <3>2. CASE CommitAssignment(r)
      <4>1. [candidate[x] EXCEPT !.opening = t] \in Candidate
        BY <1>1, <3>1 DEF Candidate
      <4> QED BY <2>1, <3>1, <3>2, <4>1 DEF CommitAssignment, Candidate
    <3>3. CASE CommitDecision(r)
      <4>1. Verdict(request[r].op) \in {"accepted", "rejected", "archived"}
        BY DEF Verdict
      <4>2. [candidate[x] EXCEPT !.status = Verdict(request[r].op)] \in Candidate
        BY <3>1, <4>1 DEF Candidate
      <4> QED BY <3>1, <3>3, <4>1, <4>2 DEF CommitDecision, Candidate
    <3> QED BY <1>6, <3>2, <3>3
  <2>4. TypeOK'
    BY <1>2, <2>2, <2>3 DEF IInv, TypeOK
  <2>5. \A d \in Candidates :
          /\ candidate'[d].from = candidate[d].from
          /\ candidate'[d].status = "none" => candidate[d].status = "none"
          /\ candidate'[d].status = "deleted" => candidate[d].status = "deleted"
    BY <2>1, <2>3 DEF IInv, TypeOK
  <2>6. UnusedInv'
    BY <2>2, <2>5 DEF IInv, UnusedInv
  <2>7. PromotedOnce'
    BY <2>2, <2>5 DEF IInv, PromotedOnce
  <2> QED BY <1>2, <1>3, <2>4, <2>5, <2>6, <2>7 DEF IInv
<1>7. CASE CommitTransition(r)
  <2>1. UNCHANGED <<application, candidate>>
    BY <1>7 DEF CommitTransition
  <2>2. TypeOK'
    BY <1>2, <1>7, OpTypes DEF CommitTransition, IInv, TypeOK
  <2>3. UnusedInv' /\ PromotedOnce'
    BY <2>1 DEF IInv, UnusedInv, PromotedOnce
  <2> QED BY <1>2, <1>3, <2>1, <2>2, <2>3 DEF IInv
<1> QED BY <1>4, <1>5, <1>6, <1>7 DEF Commit

\* The foreign key keeps the candidate of a promoted application.
LEMMA DeleteStep == ASSUME IInv, NEW c \in Candidates, DeleteRejected(c) PROVE IInv'
<1>1. /\ candidate[c].status = "rejected"
      /\ \A a \in Applications : application[a].candidate # c
      /\ UNCHANGED <<opening, application, lock, request>>
  BY DEF DeleteRejected
<1>2. [candidate[c] EXCEPT !.status = "deleted"] \in Candidate
  BY DEF IInv, TypeOK, Candidate
<1>3. TypeOK'
  BY <1>1, <1>2 DEF DeleteRejected, IInv, TypeOK
<1>4. /\ \A d \in Candidates \ {c} : candidate'[d] = candidate[d]
      /\ candidate'[c].from = candidate[c].from /\ candidate'[c].status = "deleted"
  BY DEF DeleteRejected, IInv, TypeOK, Candidate
<1>5. ShapeInv' /\ DraftInv'
  BY <1>1 DEF IInv, ShapeInv, DraftInv
<1>6. \A x \in Rows, q \in Requests : Holds(q, x)' <=> Holds(q, x)
  BY <1>1 DEF Holds
<1>7. LockInv'
  BY <1>1, <1>6 DEF IInv, LockInv
<1>8. GuardInv'
  BY <1>1, <1>4 DEF IInv, GuardInv, Permitted, MayAssign, MayReassign, MayUnassign, Assignments, ShapeInv
<1>9. UnusedInv' /\ PromotedOnce'
  BY <1>1, <1>4 DEF IInv, UnusedInv, PromotedOnce
<1>10. RowInv'
  <2>1. ASSUME NEW q \in Requests, request[q].op \in Decisions, request[q].row = c
        PROVE  request[q].pc = "decide"
    BY <2>1 DEF DeleteRejected, IInv, ShapeInv, LockInv, Holds
  <2> QED BY <1>1, <1>4, <2>1 DEF IInv, RowInv, ShapeInv
<1> QED BY <1>3, <1>5, <1>7, <1>8, <1>9, <1>10 DEF IInv

LEMMA InvStep == ASSUME IInv, [Next]_vars PROVE IInv'
<1>1. CASE UNCHANGED vars
  <2>1. UNCHANGED <<opening, application, candidate, lock, request>>
    BY <1>1 DEF vars, rows
  <2>2. TypeOK' /\ ShapeInv' /\ DraftInv'
    BY <2>1 DEF IInv, TypeOK, ShapeInv, DraftInv
  <2>3. \A x \in Rows, q \in Requests : Holds(q, x)' <=> Holds(q, x)
    BY <2>1 DEF Holds
  <2>4. LockInv' /\ GuardInv'
    BY <2>1, <2>3 DEF IInv, LockInv, GuardInv, Permitted, MayAssign, MayReassign, MayUnassign, Assignments
  <2>5. RowInv' /\ UnusedInv' /\ PromotedOnce'
    BY <2>1 DEF IInv, RowInv, UnusedInv, PromotedOnce
  <2> QED BY <2>2, <2>4, <2>5 DEF IInv
<1>2. ASSUME NEW r \in Requests, Advance(r) \/ Abort(r) PROVE IInv'
  <2>1. CASE Refuse(r) \/ RefuseOpening(r) \/ RowGone(r) \/ Abort(r)
    BY <2>1, EndStep DEF Refuse, RefuseOpening, RowGone, Abort
  <2> QED BY <1>2, <2>1, MoveStep, CommitStep DEF Advance
<1> QED BY <1>1, <1>2, NewRowStep, NewRequestStep, DeleteStep DEF Next

-------------------------------------------------------------------------------
(* Theorems *)

\* The locks, the handlers and the rows stay in step.
THEOREM Inductive == Spec => []IInv
  BY InitInv, InvStep, PTL DEF Spec

\* Every variable keeps its type.
THEOREM TypeCorrect == Spec => []TypeOK
<1>1. IInv => TypeOK
  BY DEF IInv
<1> QED BY <1>1, Inductive, PTL

\* However many promotions of an application overlap, it becomes exactly one
\* candidate, which is never deleted under it (promote_to_candidate).
THEOREM OneCandidate == Spec => []PromotedOnce
<1>1. IInv => PromotedOnce
  BY DEF IInv
<1> QED BY <1>1, Inductive, PTL

\* No handlers wait in a circle, and none for an answered one
\* (accept_candidate, get_by_id_for_update).
THEOREM NoCircle == Spec => []WaitingEnds
<1>1. ASSUME IInv PROVE WaitingEnds
  <2> SUFFICES ASSUME NEW r \in Requests, NEW x \in Awaited(r), lock[x] # Free
               PROVE  LET q == lock[x] IN
                        /\ q # r
                        /\ request[q].pc # "idle"
                        /\ \A y \in Awaited(q) : lock[y] # Free =>
                             request[lock[y]].pc # "idle" /\ Awaited(lock[y]) = {}
    BY DEF WaitingEnds
  <2>1. ASSUME NEW p \in Requests, NEW y \in Awaited(p)
        PROVE  /\ y \in Rows /\ ~Holds(p, y)
               /\ request[p].pc \in {"wait", "decide"} \/ y \in Openings
    <3>1. CASE request[p].pc \in {"wait", "decide"}
      BY <1>1, <2>1, <3>1 DEF Awaited, Holds, IInv, ShapeInv, TypeOK, Handler, Ops
    <3>2. CASE request[p].pc = "touch"
      BY <1>1, <2>1, <3>2 DEF Awaited, Holds, IInv, ShapeInv, Decisions
    <3> QED BY <2>1, <3>1, <3>2 DEF Awaited
  <2>2. ASSUME NEW y \in Rows, lock[y] # Free
        PROVE  /\ lock[y] \in Requests /\ Holds(lock[y], y)
               /\ request[lock[y]].pc \in {"held", "touch", "ready"}
    BY <1>1, <2>2 DEF IInv, TypeOK, LockInv, Holds
  <2>3. ASSUME NEW p \in Requests, Awaited(p) # {},
               request[p].pc \in {"held", "touch", "ready"}
        PROVE  request[p].pc = "touch" /\ \A y \in Awaited(p) : y \in Openings
    BY <2>1, <2>3 DEF Awaited
  <2>4. ASSUME NEW y \in Openings, NEW p \in Requests, Holds(p, y)
        PROVE  Awaited(p) = {}
    BY <1>1, <2>4 DEF IInv, ShapeInv, Holds, Awaited, Assignments, Decisions
  <2>5. /\ lock[x] \in Requests /\ lock[x] # r
        /\ request[lock[x]].pc \in {"held", "touch", "ready"}
    BY <2>1, <2>2
  <2>6. ASSUME NEW y \in Awaited(lock[x]), lock[y] # Free
        PROVE  request[lock[y]].pc # "idle" /\ Awaited(lock[y]) = {}
    <3>1. y \in Openings
      BY <2>3, <2>5, <2>6
    <3> QED BY <2>2, <2>4, <2>6, <3>1
  <2> QED BY <2>5, <2>6
<1> QED BY <1>1, Inductive, PTL

\* What somebody was considered for is fixed once it is decided
\* (assign_candidate, assign_to_job_opening).
THEOREM Frozen == Spec => AssignmentFrozen
<1>1. ASSUME IInv, [Next]_vars
      PROVE  /\ \A c \in Candidates :
                  candidate[c].status \in {"accepted", "rejected", "archived"}
                    => candidate'[c].opening = candidate[c].opening
             /\ \A a \in Applications :
                  application[a].status = "promoted"
                    => application'[a] = application[a]
  <2>1. CASE UNCHANGED <<application, candidate>>
    BY <2>1
  <2>2. CASE NewRow
    BY <1>1, <2>2 DEF NewRow, ReceiveApplication, SplitApplication, CreateCandidate,
       IInv, TypeOK
  <2>3. ASSUME NEW c \in Candidates, DeleteRejected(c)
        PROVE  /\ UNCHANGED application
               /\ \A d \in Candidates : candidate'[d].opening = candidate[d].opening
    BY <1>1, <2>3 DEF DeleteRejected, IInv, TypeOK, Candidate
  <2>4. ASSUME NEW r \in Requests, CommitAttachment(r) \/ CommitAssignment(r) \/ CommitDecision(r)
                \/ \E c \in Candidates : CommitPromotion(r, c)
        PROVE  /\ \A c \in Candidates :
                    candidate[c].status \in {"accepted", "rejected", "archived"}
                      => candidate'[c].opening = candidate[c].opening
               /\ \A a \in Applications :
                    application[a].status = "promoted"
                      => application'[a] = application[a]
    <3>1. request[r].pc = "ready" /\ Permitted(r)
      BY <1>1, <2>4 DEF CommitAttachment, CommitAssignment, CommitDecision,
         CommitPromotion, IInv, GuardInv
    <3>2. CASE CommitAttachment(r) \/ \E c \in Candidates : CommitPromotion(r, c)
      BY <1>1, <3>1, <3>2 DEF CommitAttachment, CommitPromotion, Permitted, MayAssign, MayReassign, MayUnassign, Assignments, IInv, TypeOK
    <3>3. CASE CommitAssignment(r)
      BY <1>1, <3>1, <3>3 DEF CommitAssignment, Permitted, MayAssign, MayReassign, MayUnassign, Assignments, IInv, TypeOK
    <3>4. CASE CommitDecision(r)
      BY <1>1, <3>4 DEF CommitDecision, IInv, TypeOK, Candidate
    <3> QED BY <2>4, <3>2, <3>3, <3>4
  <2>5. ASSUME NEW r \in Requests, NewRequest(r) \/ CommitTransition(r) \/ Abort(r)
                \/ LockRow(r) \/ Refuse(r) \/ CheckOpening(r) \/ RefuseOpening(r)
                \/ Write(r) \/ RowGone(r) \/ TouchOpening(r)
        PROVE  UNCHANGED <<application, candidate>>
    BY <2>5 DEF NewRequest, BeginPromotion, BeginAttachment, BeginAssignment,
       BeginDecision, BeginTransition, Begin, CommitTransition, Abort, LockRow, Acquire,
       Refuse, CheckOpening, RefuseOpening, Write, RowGone,
       TouchOpening, rows
  <2>6. UNCHANGED vars => UNCHANGED <<application, candidate>>
    BY DEF vars, rows
  <2> QED BY <1>1, <2>1, <2>2, <2>3, <2>4, <2>5, <2>6 DEF Next, Advance, Commit
<1> QED BY <1>1, Inductive, PTL DEF Spec, AssignmentFrozen

\* Nobody is moved to an opening that has not been published, for all that
\* the check and the commit are apart and the opening is not locked.
THEOREM NoDraftAssigned == Spec => NotAssignedToDraft
<1> DEFINE Kept ==
             /\ \A c \in Candidates :
                  candidate[c].status # "none" => candidate'[c].opening = candidate[c].opening
             /\ \A a \in Applications :
                  application[a].status = "new" => application'[a].opening = application[a].opening
           NoDraft ==
             /\ \A c \in Candidates : LET o == candidate'[c].opening IN
                  candidate[c].status # "none" /\ o \notin {None, candidate[c].opening}
                    => opening[o] # "draft"
             /\ \A a \in Applications : LET o == application'[a].opening IN
                  application[a].status = "new" /\ o \notin {None, application[a].opening}
                    => opening[o] # "draft"
<1>1. ASSUME IInv, [Next]_vars PROVE NoDraft
  <2>1. Kept => NoDraft
    OBVIOUS
  <2>2. CASE UNCHANGED <<application, candidate>>
    BY <2>1, <2>2
  <2>3. CASE NewRow
    <3>1. Kept
      BY <1>1, <2>3 DEF NewRow, ReceiveApplication, SplitApplication, CreateCandidate,
         IInv, TypeOK, Candidate
    <3> QED BY <2>1, <3>1
  <2>4. ASSUME NEW c \in Candidates, DeleteRejected(c) PROVE Kept
    BY <1>1, <2>4 DEF DeleteRejected, IInv, TypeOK, Candidate
  <2>5. ASSUME NEW r \in Requests, CommitDecision(r) PROVE Kept
    BY <1>1, <2>5 DEF CommitDecision, IInv, TypeOK, Candidate
  <2>6. ASSUME NEW r \in Requests,
               CommitAttachment(r) \/ CommitAssignment(r)
                 \/ \E c \in Candidates : CommitPromotion(r, c)
        PROVE  NoDraft
    <3> DEFINE t == request[r].target
    <3>1. t # None => opening[t] # "draft"
      BY <1>1, <2>6 DEF CommitAttachment, CommitAssignment, CommitPromotion, IInv, DraftInv
    <3>2. ASSUME NEW c \in Candidates
          PROVE  \/ candidate[c].status = "none"
                 \/ candidate'[c].opening \in {t, candidate[c].opening}
      <4>1. CASE CommitAttachment(r)
        BY <4>1 DEF CommitAttachment
      <4>2. CASE CommitAssignment(r)
        BY <1>1, <4>2 DEF CommitAssignment, IInv, TypeOK, Candidate
      <4>3. ASSUME NEW d \in Candidates, CommitPromotion(r, d)
            PROVE  candidate[c].status = "none" \/ candidate'[c] = candidate[c]
        BY <1>1, <4>3 DEF CommitPromotion, IInv, TypeOK
      <4> QED BY <2>6, <4>1, <4>2, <4>3
    <3>3. ASSUME NEW a \in Applications
          PROVE  application'[a].opening \in {t, application[a].opening}
      <4>1. CASE CommitAssignment(r)
        BY <4>1 DEF CommitAssignment
      <4>2. CASE CommitAttachment(r)
        BY <1>1, <4>2 DEF CommitAttachment, IInv, TypeOK, Application
      <4>3. ASSUME NEW c \in Candidates, CommitPromotion(r, c)
            PROVE  application'[a].opening \in {t, application[a].opening}
        <5> DEFINE o == IF t = None THEN application[request[r].row].opening ELSE t
        <5>1. application' = [application EXCEPT
                ![request[r].row] = [status |-> "promoted", opening |-> o, candidate |-> c]]
          BY <4>3 DEF CommitPromotion
        <5> QED BY <1>1, <5>1 DEF IInv, TypeOK
      <4> QED BY <2>6, <4>1, <4>2, <4>3
    <3> HIDE DEF t
    <3> QED BY <3>1, <3>2, <3>3
  <2>7. ASSUME NEW r \in Requests, NewRequest(r) \/ CommitTransition(r) \/ Abort(r)
                \/ LockRow(r) \/ Refuse(r) \/ CheckOpening(r) \/ RefuseOpening(r)
                \/ Write(r) \/ RowGone(r) \/ TouchOpening(r)
        PROVE  UNCHANGED <<application, candidate>>
    BY <2>7 DEF NewRequest, BeginPromotion, BeginAttachment, BeginAssignment,
       BeginDecision, BeginTransition, Begin, CommitTransition, Abort, LockRow, Acquire,
       Refuse, CheckOpening, RefuseOpening, Write, RowGone,
       TouchOpening, rows
  <2>8. UNCHANGED vars => UNCHANGED <<application, candidate>>
    BY DEF vars, rows
  <2> QED BY <1>1, <2>1, <2>2, <2>3, <2>4, <2>5, <2>6, <2>7, <2>8 DEF Next, Advance, Commit
<1>2. IInv /\ [Next]_vars => [NoDraft]_vars
  BY <1>1
<1> QED BY <1>2, Inductive, PTL DEF Spec, NotAssignedToDraft

\* An assignment stands once it counts, and is to an opening that was published.
THEOREM AssignmentsAreKept == Spec => AssignmentsStand
  BY Frozen, NoDraftAssigned DEF AssignmentsStand
===============================================================================
