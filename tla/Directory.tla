------------------------------- MODULE Directory -------------------------------
(***************************************************************************)
(* The employee directory (modules/employee): creation, promotion, update, *)
(* the Excel import, deactivation, and departments (positions work alike). *)
(*                                                                         *)
(* An employee code is NV- and a number of at least Pad digits to the base *)
(* Base (3 and 10 in the code). The next code is one more than the         *)
(* greatest, and the greatest is the greatest STRING. An email is looked   *)
(* up without regard to case, the index tells cases apart. What keeps      *)
(* codes, emails and departments consistent are the unique indexes and the *)
(* foreign key, which the sessions meet when they flush.                   *)
(***************************************************************************)
EXTENDS FiniteSets, Integers, Server

CONSTANTS
    Staff,             \* bound: employees there ever are
    Edited,            \* bound: those that are updated or deactivated
    Emails, Lower,     \* Lower[m] is m in lower case
    Departments,
    InitialDirectory,  \* the employees there are when a behaviour begins
    Base, Pad          \* of employee codes

Employee == [code : Nat, email : Emails, department : Departments \cup {None},
             active : BOOLEAN]

\* Mutant: only the email is unique.
EmailClash(e, f) == e.email = f.email

\* ix_employees_employee_code and ix_employees_email
Clash(e, f) == e.code = f.code \/ e.email = f.email

ASSUME CodeAssumption == Base \in Nat \ {0, 1} /\ Pad \in Nat \ {0}
ASSUME NoneIsNoStaff ==
    None \notin Staff /\ None \notin Departments /\ None \notin Employee
ASSUME LowerAssumption == Lower \in [Emails -> Emails]
ASSUME InitialAssumption ==
    /\ InitialDirectory \in [Staff -> Employee \cup {None}]
    /\ \A s, t \in Staff :
        (s # t /\ InitialDirectory[s] # None /\ InitialDirectory[t] # None)
        => /\ InitialDirectory[s].code # InitialDirectory[t].code
           /\ InitialDirectory[s].email # InitialDirectory[t].email

VARIABLES
    directory,     \* employees
    departments,   \* the departments that exist
    written,       \* the rows each session has flushed and not yet committed
    directoryCall  \* what each handler is doing

directoryVars == <<directory, departments, written, directoryCall>>

-------------------------------------------------------------------------------
(* Employee codes *)

Digits(n) == CHOOSE d \in 1..(Cardinality(Staff) + Pad + 1) :
    /\ d >= Pad
    /\ n < Base ^ d
    /\ d > Pad => n >= Base ^ (d - 1)

\* The code of m sorts after the code of n: both are brought to the same number
\* of digits, and a string sorts after its own prefix.
SortsAfter(m, n) ==
    LET d == IF Digits(m) > Digits(n) THEN Digits(m) ELSE Digits(n)
        left(k) == k * Base ^ (d - Digits(k))
    IN left(m) > left(n) \/ (left(m) = left(n) /\ Digits(m) > Digits(n))

\* get_next_code, over the codes the session sees
IsNextCode(code, codes) ==
    \/ codes = {} /\ code = 1
    \/ \E m \in codes : code = m + 1 /\ \A n \in codes \ {m} : SortsAfter(m, n)

-------------------------------------------------------------------------------
(* Types *)

\* The columns an UPDATE has: those whose value differs from what was loaded.
Changes == [email : SUBSET Emails, department : SUBSET (Departments \cup {None})]

Changed(loaded, email, d) == [email |-> {email} \ {loaded.email},
                              department |-> {d} \ {loaded.department}]

\* pc: "code" (the email is free, the code not read yet), "insert", "open" (an
\* import between two rows, or a creation before its commit), "check" (an update
\* before the look-up of its new email), "put" and "upsert" (an update or an
\* import before its flush), "done", "delete"
DirectoryIdle == [pc |-> "idle", staff |-> None, row |-> None]

NothingWritten == [s \in Staff |-> None]

DirectoryTypeOK ==
    /\ directory \in [Staff -> Employee \cup {None}]
    /\ departments \subseteq Departments
    /\ written \in [Handlers -> [Staff -> Employee \cup {None}]]
    /\ \A h \in Handlers : LET call == directoryCall[h] IN
        /\ call.pc \in {"idle", "code", "insert", "open", "check", "put", "upsert", "done",
                        "delete"}
        /\ call.pc \in {"code", "insert"} => call.row \in Employee
        /\ call.pc \in {"check", "put", "upsert"} => call.staff \in Staff /\ call.row \in Changes
        /\ call.pc = "delete" => call.row \in Departments

DirectoryInit ==
    /\ directory = InitialDirectory
    /\ departments = Departments
    /\ written = [h \in Handlers |-> NothingWritten]
    /\ directoryCall = [h \in Handlers |-> DirectoryIdle]

Hired == {s \in Staff : directory[s] # None}

\* A session sees what is committed and what it wrote itself.
Seen(h, s) == IF written[h][s] # None THEN written[h][s] ELSE directory[s]

SeenBy(h) == {s \in Staff : Seen(h, s) # None}

\* Another session has written row s and not ended.
Locked(h, s) == \E g \in Handlers \ {h} : written[g][s] # None

Unused(s) == directory[s] = None /\ \A g \in Handlers : written[g][s] = None

\* get_by_email
Named(h, email) == {s \in SeenBy(h) : Lower[Seen(h, s).email] = Lower[email]}

-------------------------------------------------------------------------------
(* Flushes *)

Conflicts(h, s, e) ==
    \E t \in Staff \ {s} :
        \/ Seen(h, t) # None /\ Clash(e, Seen(h, t))
        \/ \E g \in Handlers \ {h} : written[g][t] # None /\ Clash(e, written[g][t])

\* A flush waits for the sessions that have written the row or the same value of
\* an index, and fails (RollBackDirectory) when the value is there or the
\* department is not.
Flush(h, s, e, pc) ==
    /\ ~Locked(h, s)
    /\ ~Conflicts(h, s, e)
    /\ e.department # None => e.department \in departments
    /\ written' = [written EXCEPT ![h] = [@ EXCEPT ![s] = e]]
    /\ directoryCall' = [directoryCall EXCEPT ![h] = [DirectoryIdle EXCEPT !.pc = pc]]
    /\ UNCHANGED <<directory, departments>>

Commit(h) ==
    /\ directoryCall[h].pc \in {"open", "done"}
    /\ directory' = [s \in Staff |-> Seen(h, s)]
    /\ written' = [written EXCEPT ![h] = NothingWritten]
    /\ directoryCall' = [directoryCall EXCEPT ![h] = DirectoryIdle]
    /\ UNCHANGED departments

RollBackDirectory(h) ==
    /\ directoryCall[h].pc # "idle"
    /\ written' = [written EXCEPT ![h] = NothingWritten]
    /\ directoryCall' = [directoryCall EXCEPT ![h] = DirectoryIdle]
    /\ UNCHANGED <<directory, departments>>

\* What a handler read, with nothing written.
Reads(h, call) ==
    /\ directoryCall' = [directoryCall EXCEPT ![h] = call]
    /\ UNCHANGED <<directory, departments, written>>

-------------------------------------------------------------------------------
(* Creation, promotion and import *)

\* create_employee, promote_candidate of an unknown email, and a row of an import.
\* Departments only go, so that one that was there when it was looked up, before or
\* after the email, was there here; it may be gone at the flush.
FindNobody(h, email, d) ==
    /\ directoryCall[h].pc \in {"idle", "open"}
    /\ \E s \in Staff : Unused(s)
    /\ Named(h, email) = {}
    /\ d # None => d \in departments
    /\ Reads(h, [DirectoryIdle EXCEPT
            !.pc = "code",
            !.row = [code |-> 1, email |-> email, department |-> d, active |-> TRUE]])

ReadCode(h) ==
    /\ directoryCall[h].pc = "code"
    /\ \E code \in 1..(Cardinality(Staff) + 1) :
        /\ IsNextCode(code, {Seen(h, s).code : s \in SeenBy(h)})
        /\ Reads(h, [directoryCall[h] EXCEPT !.pc = "insert", !.row = [@ EXCEPT !.code = code]])

Insert(h) ==
    /\ directoryCall[h].pc = "insert"
    /\ \E s \in Staff : Unused(s) /\ Flush(h, s, directoryCall[h].row, "open")

\* A row of an import whose email is known gives the employee its department.
\* (promote_candidate only notes the candidate, which is no column here.)
FindEmployee(h, email, d) ==
    /\ directoryCall[h].pc \in {"idle", "open"}
    /\ d # None => d \in departments
    /\ \E s \in Named(h, email) \cap Edited :
        Reads(h, [pc |-> "upsert", staff |-> s,
                  row |-> Changed(Seen(h, s), Seen(h, s).email, d)])

-------------------------------------------------------------------------------
(* Update *)

\* update_employee up to the look-up of the email, which it leaves out when the
\* new email is the old one but for case.
LoadEmployee(h, s, email, d) ==
    /\ directoryCall[h].pc = "idle"
    /\ s \in Hired \cap Edited
    /\ d # None => d \in departments
    /\ Reads(h, [pc |-> IF Lower[email] = Lower[directory[s].email] THEN "put" ELSE "check",
                 staff |-> s, row |-> Changed(directory[s], email, d)])

CheckEmail(h) ==
    /\ directoryCall[h].pc = "check"
    /\ \A email \in directoryCall[h].row.email : Named(h, email) = {}
    /\ Reads(h, [directoryCall[h] EXCEPT !.pc = "put"])

\* The columns of the UPDATE, the others as they are by then.
Merged(now, changes) ==
    [code |-> now.code, active |-> now.active,
     email |-> IF changes.email = {} THEN now.email ELSE CHOOSE m \in changes.email : TRUE,
     department |-> IF changes.department = {} THEN now.department
                    ELSE CHOOSE d \in changes.department : TRUE]

Update(h) ==
    LET call == directoryCall[h] IN
    /\ call.pc \in {"put", "upsert"}
    /\ Flush(h, call.staff, Merged(Seen(h, call.staff), call.row),
             IF call.pc = "put" THEN "done" ELSE "open")

-------------------------------------------------------------------------------
(* Deactivation and departments *)

\* soft_delete writes one column of one row.
Deactivate(s) ==
    /\ s \in Hired \cap Edited
    /\ \A g \in Handlers : written[g][s] = None
    /\ directory' = [directory EXCEPT ![s] = [@ EXCEPT !.active = FALSE]]
    /\ UNCHANGED <<departments, written, directoryCall>>

HasActiveEmployees(d) ==
    \E s \in Hired : directory[s].department = d /\ directory[s].active

ReadDepartment(h, d) ==
    /\ directoryCall[h].pc = "idle"
    /\ d \in departments
    /\ ~HasActiveEmployees(d)
    /\ Reads(h, [DirectoryIdle EXCEPT !.pc = "delete", !.row = d])

\* Mutant: no foreign key, has_active_employees being enough.
Unreferenced(d) == FALSE

\* The foreign key of employees.department_id, which counts inactive employees
\* and waits for sessions that have written a reference.
Referenced(d) ==
    \/ \E s \in Hired : directory[s].department = d
    \/ \E g \in Handlers, s \in Staff : written[g][s] # None /\ written[g][s].department = d

DeleteDepartment(h) ==
    /\ directoryCall[h].pc = "delete"
    /\ ~Referenced(directoryCall[h].row)
    /\ departments' = departments \ {directoryCall[h].row}
    /\ directoryCall' = [directoryCall EXCEPT ![h] = DirectoryIdle]
    /\ UNCHANGED <<directory, written>>

DirectoryStep(h) ==
    \/ \E email \in Emails, d \in Departments \cup {None} :
        \/ FindNobody(h, email, d)
        \/ FindEmployee(h, email, d)
        \/ \E s \in Staff : LoadEmployee(h, s, email, d)
    \/ \E d \in Departments : ReadDepartment(h, d)
    \/ ReadCode(h)
    \/ CheckEmail(h)
    \/ Insert(h)
    \/ Update(h)
    \/ Commit(h)
    \/ DeleteDepartment(h)
    \/ RollBackDirectory(h)

DirectoryNext ==
    \/ \E h \in Handlers : DirectoryStep(h)
    \/ \E s \in Staff : Deactivate(s)

DirectorySpec == DirectoryInit /\ [][DirectoryNext]_directoryVars

-------------------------------------------------------------------------------
(* Properties *)

\* Imports, promotions, updates and a department's deletion overlap, each deciding
\* on what it read: no two employees get one code or email, not even where the
\* greatest string is no longer the greatest number, and nobody is in a
\* department that is gone, not even an inactive employee whom
\* has_active_employees does not count.
DirectoryConsistent ==
    /\ \A s, t \in Hired : s # t => ~(\/ directory[s].code = directory[t].code
                                      \/ directory[s].email = directory[t].email)
    /\ \A s \in Hired : directory[s].department \in departments \cup {None}

\* "Pad to at least 3 digits, but allow more if needed"
\* (employee_repository.py:259): there is always a code for the next employee.
NextCodeIsFree ==
    LET codes == {directory[s].code : s \in Hired}
    IN \A code \in codes : ~IsNextCode(code, codes)

\* "Retrieve an employee by email address (case-insensitive)"
\* (employee_repository.py:158), the check of every writer of an email: there is
\* at most one employee to be found.
OneEmployeePerAddress ==
    \A s, t \in Hired : Lower[directory[s].email] = Lower[directory[t].email] => s = t
===============================================================================
