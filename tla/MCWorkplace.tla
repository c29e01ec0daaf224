------------------------------ MODULE MCWorkplace ------------------------------
(***************************************************************************)
(* Components behind the HTTP interface that share no state: a behaviour   *)
(* is one of one of them.                                                  *)
(***************************************************************************)
EXTENDS EmployeeRequests, Payslips, Attendance, Directory, KnowledgeBase, CvPipeline,
        CalendarEvent, Accounts, Sessions, AiConfig, TLC

VARIABLE component

otherThan(c) ==
    /\ UNCHANGED component
    /\ c # "requests" => UNCHANGED requestVars
    /\ c # "payslips" => UNCHANGED payslipVars
    /\ c # "attendance" => UNCHANGED attendanceVars
    /\ c # "directory" => UNCHANGED directoryVars
    /\ c # "knowledge" => UNCHANGED kbVars
    /\ c # "cv" => UNCHANGED cvVars
    /\ c # "calendar" => UNCHANGED calendarVars
    /\ c # "accounts" => UNCHANGED accountVars
    /\ c # "sessions" => UNCHANGED sessionVars
    /\ c # "settings" => UNCHANGED settingsVars

WorkplaceInit ==
    /\ component \in {"requests", "payslips", "attendance", "directory", "knowledge",
                      "cv", "calendar", "accounts", "sessions", "settings"}
    /\ RequestInit
    /\ PayslipInit
    /\ AttendanceInit
    /\ DirectoryInit
    /\ KnowledgeBaseInit
    /\ CvInit
    /\ CalendarInit
    /\ AccountInit
    /\ SessionInit
    /\ AiInit

WorkplaceNext ==
    \/ component = "requests" /\ RequestNext /\ otherThan("requests")
    \/ component = "payslips" /\ PayslipNext /\ otherThan("payslips")
    \/ component = "attendance" /\ AttendanceNext /\ otherThan("attendance")
    \/ component = "directory" /\ DirectoryNext /\ otherThan("directory")
    \/ component = "knowledge" /\ KbNext /\ otherThan("knowledge")
    \/ component = "cv" /\ CvNext /\ otherThan("cv")
    \/ component = "calendar" /\ CalendarNext /\ otherThan("calendar")
    \/ component = "accounts" /\ AccountNext /\ otherThan("accounts")
    \/ component = "sessions" /\ SessionNext /\ otherThan("sessions")
    \/ component = "settings" /\ AiNext /\ otherThan("settings")

workplaceVars == <<component, requestVars, payslipVars, attendanceVars, directoryVars, kbVars,
                   cvVars, calendarVars, accountVars, sessionVars, settingsVars>>

WorkplaceSpec == WorkplaceInit /\ [][WorkplaceNext]_workplaceVars

\* Handlers are alike, and so are the two times of an interview, which go by the
\* same names.
MCSymmetry == Permutations(Handlers)

\* Two employees are there. The next two creations have the last code that is also
\* the greatest string, and the first that is not; a third finds its code taken.
MCDirectory ==
    [s \in Staff |-> IF s > 2 THEN None
                     ELSE [code |-> s, email |-> <<"an", "binh">>[s], department |-> None,
                           active |-> TRUE]]

MCLower == [m \in Emails |-> IF m = "Dung" THEN "dung" ELSE m]

\* Two runs of the CV pipeline that met between look-up and insert are not followed
\* further: OneDocumentPerFile claims nothing of them.
MCNeverMet == ~met

\* The types of all the components (the others are still in their initial states),
\* to be added to the invariants of the run when a component is changed.
WorkplaceTypeOK ==
    /\ component = "requests" => RequestTypeOK
    /\ component = "payslips" => PayslipTypeOK
    /\ component = "attendance" => AttendanceTypeOK
    /\ component = "directory" => DirectoryTypeOK
    /\ component = "knowledge" => KnowledgeBaseTypeOK
    /\ component = "cv" => CvTypeOK
    /\ component = "calendar" => CalendarTypeOK
    /\ component = "accounts" => AccountTypeOK
    /\ component = "sessions" => SessionTypeOK
    /\ component = "settings" => AiTypeOK
===============================================================================
