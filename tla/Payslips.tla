-------------------------------- MODULE Payslips -------------------------------
(***************************************************************************)
(* Payslips (modules/payslip): HR drafts, edits, publishes and deletes     *)
(* them; an employee reads the published ones.                             *)
(*                                                                         *)
(* Every operation first reads the payslip without a lock and refuses one  *)
(* that is not a draft. Publication and deletion repeat the condition in   *)
(* their statement, an edit does not.                                      *)
(***************************************************************************)
EXTENDS Naturals, Server

CONSTANTS
    Payslips,   \* bound: payslips ever created
    Slots,      \* pairs of an employee and a pay period
    Amounts     \* what a payslip may say

ASSUME NoneIsNoPayslip == None \notin Payslips \cup Slots \cup Amounts

VARIABLES
    payslipRow,     \* payslips, deleted ones included
    payslipLock,    \* who holds the lock of a row
    payslipAudit,   \* PAYSLIP_PUBLISH and PAYSLIP_DELETE entries, counted
    payslipCall     \* what each handler is doing

payslipVars == <<payslipRow, payslipLock, payslipAudit, payslipCall>>

-------------------------------------------------------------------------------
(* Types *)

PayslipRecord == [status : {"none", "draft", "published", "deleted"},
                  slot : Slots \cup {None}, amounts : Amounts \cup {None}]

PayslipIdle == [pc |-> "idle", row |-> None, slot |-> None, amounts |-> None]

PayslipTypeOK ==
    /\ payslipRow \in [Payslips -> PayslipRecord]
    /\ payslipLock \in [Payslips -> Handlers \cup {None}]
    /\ payslipAudit \in [Payslips -> [publish : 0..1, delete : Nat]]
    /\ payslipCall \in [Handlers ->
            [pc : {"idle", "inserted", "update", "updated", "publish", "published",
                   "delete", "deleted", "missed"},
             row : Payslips \cup {None}, slot : Slots \cup {None},
             amounts : Amounts \cup {None}]]

PayslipInit ==
    /\ payslipRow = [p \in Payslips |->
            [status |-> "none", slot |-> None, amounts |-> None]]
    /\ payslipLock = [p \in Payslips |-> None]
    /\ payslipAudit = [p \in Payslips |-> [publish |-> 0, delete |-> 0]]
    /\ payslipCall = [h \in Handlers |-> PayslipIdle]

-------------------------------------------------------------------------------
(* Queries *)

\* list_by_employee, get_published_by_id_and_employee: what employees may read
Visible == {p \in Payslips : payslipRow[p].status = "published"}

\* uq_payslips_employee_period_month: an insert waits for the transactions that
\* insert or delete a row of this slot, and fails when one remains.
SlotFree(s) ==
    /\ \A p \in Payslips :
        payslipRow[p].slot = s => payslipRow[p].status \notin {"draft", "published"}
    /\ \A h \in Handlers : payslipCall[h].pc = "inserted" => payslipCall[h].slot # s

\* Mutant: DELETE ... WHERE id = :id, the check before it being enough.
StillThere(p) == payslipRow[p].status # "none"

\* The WHERE of the publishing UPDATE and of the DELETE, evaluated once the row
\* lock is there.
StillDraft(p) == payslipRow[p].status = "draft"

-------------------------------------------------------------------------------
(* create_draft *)

InsertDraft(h, p, s, a) ==
    /\ payslipCall[h].pc = "idle"
    /\ payslipRow[p].status = "none"
    /\ \A g \in Handlers : payslipCall[g].row # p
    /\ SlotFree(s)
    /\ payslipCall' = [payslipCall EXCEPT
            ![h] = [pc |-> "inserted", row |-> p, slot |-> s, amounts |-> a]]
    /\ UNCHANGED <<payslipRow, payslipLock, payslipAudit>>

CommitDraft(h) ==
    LET call == payslipCall[h] IN
    /\ call.pc = "inserted"
    /\ payslipRow' = [payslipRow EXCEPT ![call.row] =
            [status |-> "draft", slot |-> call.slot, amounts |-> call.amounts]]
    /\ payslipCall' = [payslipCall EXCEPT ![h] = PayslipIdle]
    /\ UNCHANGED <<payslipLock, payslipAudit>>

-------------------------------------------------------------------------------
(* update_draft, publish, delete *)

\* get_by_id and the check of the status. A payslip that is missing or not a
\* draft is refused, which changes nothing.
ReadDraft(h, p, op, a) ==
    /\ payslipCall[h].pc = "idle"
    /\ payslipRow[p].status = "draft"
    /\ op \in {"update", "publish", "delete"}
    /\ (op = "update") = (a # None)
    /\ payslipCall' = [payslipCall EXCEPT
            ![h] = [pc |-> op, row |-> p, slot |-> None, amounts |-> a]]
    /\ UNCHANGED <<payslipRow, payslipLock, payslipAudit>>

\* One statement of the session: from here on the handler holds the row.
Take(h, pc, next) ==
    LET p == payslipCall[h].row IN
    /\ payslipCall[h].pc = pc
    /\ Available(payslipLock[p], h)
    /\ payslipLock' = [payslipLock EXCEPT ![p] = h]
    /\ payslipCall' = [payslipCall EXCEPT ![h] = [@ EXCEPT !.pc = next]]
    /\ UNCHANGED <<payslipRow, payslipAudit>>

\* The flushed UPDATE names the row by its id. Without a row it fails, and the
\* handler with it (RollBackPayslip).
WriteAmounts(h) ==
    /\ Take(h, "update", "updated")
    /\ payslipRow[payslipCall[h].row].status # "deleted"

\* A publication that matches no row fails an assertion (RollBackPayslip).
MarkPublished(h) ==
    /\ Take(h, "publish", "published")
    /\ StillDraft(payslipCall[h].row)

MarkDeleted(h) ==
    /\ Take(h, "delete", "deleted")
    /\ StillDraft(payslipCall[h].row)

\* A deletion that matches no row goes on as if it had.
MissDeletion(h) ==
    LET p == payslipCall[h].row IN
    /\ payslipCall[h].pc = "delete"
    /\ Available(payslipLock[p], h)
    /\ ~StillDraft(p)
    /\ payslipCall' = [payslipCall EXCEPT ![h] = [@ EXCEPT !.pc = "missed"]]
    /\ UNCHANGED <<payslipRow, payslipLock, payslipAudit>>

\* The change and its audit entry are committed, the row is released.
CommitPayslip(h, pc, row, audit) ==
    LET p == payslipCall[h].row IN
    /\ payslipCall[h].pc = pc
    /\ payslipRow' = [payslipRow EXCEPT ![p] = row]
    /\ payslipAudit' = [payslipAudit EXCEPT ![p] = audit]
    /\ payslipLock' = [payslipLock EXCEPT ![p] = IF @ = h THEN None ELSE @]
    /\ payslipCall' = [payslipCall EXCEPT ![h] = PayslipIdle]

CommitAmounts(h) ==
    LET p == payslipCall[h].row IN
    CommitPayslip(h, "updated", [payslipRow[p] EXCEPT !.amounts = payslipCall[h].amounts],
                  payslipAudit[p])

CommitPublication(h) ==
    LET p == payslipCall[h].row IN
    CommitPayslip(h, "published", [payslipRow[p] EXCEPT !.status = "published"],
                  [payslipAudit[p] EXCEPT !.publish = @ + 1])

CommitDeletion(h) ==
    LET p == payslipCall[h].row IN
    \/ CommitPayslip(h, "deleted", [payslipRow[p] EXCEPT !.status = "deleted"],
                     [payslipAudit[p] EXCEPT !.delete = @ + 1])
    \/ CommitPayslip(h, "missed", payslipRow[p], [payslipAudit[p] EXCEPT !.delete = @ + 1])

\* The handler raises or the process dies: the session is rolled back.
RollBackPayslip(h) ==
    /\ payslipCall[h].pc # "idle"
    /\ payslipLock' = [p \in Payslips |->
            IF payslipLock[p] = h THEN None ELSE payslipLock[p]]
    /\ payslipCall' = [payslipCall EXCEPT ![h] = PayslipIdle]
    /\ UNCHANGED <<payslipRow, payslipAudit>>

PayslipStep(h) ==
    \/ \E p \in Payslips :
        \/ \E s \in Slots, a \in Amounts : InsertDraft(h, p, s, a)
        \/ \E op \in {"update", "publish", "delete"}, a \in Amounts \cup {None} :
            ReadDraft(h, p, op, a)
    \/ CommitDraft(h)
    \/ WriteAmounts(h)
    \/ CommitAmounts(h)
    \/ MarkPublished(h)
    \/ CommitPublication(h)
    \/ MarkDeleted(h)
    \/ MissDeletion(h)
    \/ CommitDeletion(h)
    \/ RollBackPayslip(h)

PayslipNext == \E h \in Handlers : PayslipStep(h)

PayslipSpec == PayslipInit /\ [][PayslipNext]_payslipVars

-------------------------------------------------------------------------------
(* Properties *)

\* What an employee has seen does not go away: publication, editing and deletion
\* of one draft may overlap, yet a published payslip is never deleted or taken
\* back, and it is published and audited once (payslip_repository.py:226-275).
PublishedStays ==
    [][/\ Visible \subseteq Visible'
       /\ \A p \in Payslips : payslipAudit'[p].publish # payslipAudit[p].publish =>
            p \in Visible' \ Visible]_payslipVars

\* "Once published, the Payslip becomes visible to the Employee and can no
\* longer be modified" (payslip_hr_service.py:184).
PublishedIsFinal ==
    [][\A p \in Visible : payslipRow'[p].amounts = payslipRow[p].amounts]_payslipVars
===============================================================================
