------------------------------- MODULE Attendance ------------------------------
(***************************************************************************)
(* Attendance (modules/attendance): employees check in and out from the    *)
(* office networks, HR corrects a day's record and edits the allowlist.    *)
(*                                                                         *)
(* A handler reads, then writes and commits. The write and the commit are  *)
(* one step here: nothing happens between them but that other writers of   *)
(* the row wait.                                                           *)
(***************************************************************************)
EXTENDS FiniteSets, Naturals, Server

CONSTANTS
    Records,      \* pairs of an employee and a work date
    Times,        \* the times a record may hold
    Networks,     \* networks and the addresses in them
    MaxNetworks,  \* _MAX_NETWORKS; 20 in the code
    MaxCorrections  \* bound: corrections of one record

ASSUME NoneIsNoTime == None \notin Times \cup Records \cup Networks

VARIABLES
    attendanceRow,    \* attendance_records
    allowedNetworks,  \* OrganizationSettings.attendance_allowed_networks
    corrections,      \* ATTENDANCE_CORRECTION entries
    attendanceCall    \* what each handler is doing

attendanceVars == <<attendanceRow, allowedNetworks, corrections, attendanceCall>>

-------------------------------------------------------------------------------
(* Types *)

Time == Times \cup {None}

AttendanceRecord == [exists : BOOLEAN, in : Time, out : Time]

AttendanceIdle == [pc |-> "idle", row |-> None, in |-> None, out |-> None,
                   loaded |-> None, list |-> {}]

AttendanceTypeOK ==
    /\ attendanceRow \in [Records -> AttendanceRecord]
    /\ allowedNetworks \subseteq Networks
    /\ Cardinality(allowedNetworks) <= MaxNetworks
    /\ corrections \in [Records -> 0..MaxCorrections]
    /\ attendanceCall \in [Handlers ->
            [pc : {"idle", "in", "out", "correct", "networks"}, row : Records \cup {None},
             in : Time, out : Time, loaded : AttendanceRecord \cup {None},
             list : SUBSET Networks]]

AttendanceInit ==
    /\ attendanceRow = [r \in Records |-> [exists |-> FALSE, in |-> None, out |-> None]]
    /\ allowedNetworks = {}
    /\ corrections = [r \in Records |-> 0]
    /\ attendanceCall = [h \in Handlers |-> AttendanceIdle]

Call(h, call) ==
    /\ attendanceCall[h].pc = "idle"
    /\ attendanceCall' = [attendanceCall EXCEPT ![h] = call]
    /\ UNCHANGED <<attendanceRow, allowedNetworks, corrections>>

Answer(h) == attendanceCall' = [attendanceCall EXCEPT ![h] = AttendanceIdle]

-------------------------------------------------------------------------------
(* Check-in and check-out *)

\* An empty list allows every address.
IsIpAllowed(n) == allowedNetworks = {} \/ n \in allowedNetworks

\* Mutant: ON CONFLICT DO UPDATE SET check_in_at.
OverwriteCheckIn(r, t) == [attendanceRow[r] EXCEPT !.exists = TRUE, !.in = t]

\* INSERT ... ON CONFLICT DO NOTHING: a record that exists is returned as it is.
UpsertCheckIn(r, t) ==
    IF attendanceRow[r].exists THEN attendanceRow[r]
    ELSE [exists |-> TRUE, in |-> t, out |-> None]

BeginCheckIn(h, r, n, t) ==
    /\ IsIpAllowed(n)
    /\ Call(h, [AttendanceIdle EXCEPT !.pc = "in", !.row = r, !.in = t])

CommitCheckIn(h) ==
    LET r == attendanceCall[h].row IN
    /\ attendanceCall[h].pc = "in"
    /\ attendanceRow' = [attendanceRow EXCEPT ![r] = UpsertCheckIn(r, attendanceCall[h].in)]
    /\ Answer(h)
    /\ UNCHANGED <<allowedNetworks, corrections>>

\* A record without a check-in is refused; one that is checked out is returned.
BeginCheckOut(h, r, n, t) ==
    /\ IsIpAllowed(n)
    /\ attendanceRow[r].in # None
    /\ attendanceRow[r].out = None
    /\ Call(h, [AttendanceIdle EXCEPT !.pc = "out", !.row = r, !.out = t])

CommitCheckOut(h) ==
    LET r == attendanceCall[h].row IN
    /\ attendanceCall[h].pc = "out"
    /\ attendanceRow' = [attendanceRow EXCEPT ![r].out = attendanceCall[h].out]
    /\ Answer(h)
    /\ UNCHANGED <<allowedNetworks, corrections>>

-------------------------------------------------------------------------------
(* Corrections by HR *)

\* CorrectionRequest: at least one of the two times; the other is cleared.
BeginCorrection(h, r, in, out) ==
    /\ attendanceRow[r].exists
    /\ corrections[r] + Cardinality({g \in Handlers : attendanceCall[g].pc = "correct"})
            < MaxCorrections
    /\ {in, out} # {None}
    /\ Call(h, [AttendanceIdle EXCEPT !.pc = "correct", !.row = r, !.in = in, !.out = out,
                                      !.loaded = attendanceRow[r]])

\* The UPDATE names the columns that differ from the record as it was loaded.
Merge(loaded, new, stored) == IF new = loaded THEN stored ELSE new

CommitCorrection(h) ==
    LET call == attendanceCall[h]
        stored == attendanceRow[call.row]
    IN
    /\ call.pc = "correct"
    /\ attendanceRow' = [attendanceRow EXCEPT ![call.row] = [stored EXCEPT
            !.in = Merge(call.loaded.in, call.in, stored.in),
            !.out = Merge(call.loaded.out, call.out, stored.out)]]
    /\ corrections' = [corrections EXCEPT ![call.row] = @ + 1]
    /\ Answer(h)
    /\ UNCHANGED allowedNetworks

-------------------------------------------------------------------------------
(* The allowlist *)

\* add_networks: refuses duplicates and more than MaxNetworks.
ReadToAdd(h, new) ==
    /\ new # {}
    /\ new \cap allowedNetworks = {}
    /\ Cardinality(allowedNetworks \cup new) <= MaxNetworks
    /\ Call(h, [AttendanceIdle EXCEPT !.pc = "networks", !.list = allowedNetworks \cup new])

ReadToRemove(h, n) ==
    /\ n \in allowedNetworks
    /\ Call(h, [AttendanceIdle EXCEPT !.pc = "networks", !.list = allowedNetworks \ {n}])

\* set_allowed_networks looks at nothing.
ReplaceNetworks(h, list) ==
    /\ Cardinality(list) <= MaxNetworks
    /\ Call(h, [AttendanceIdle EXCEPT !.pc = "networks", !.list = list])

\* The whole list is written.
CommitNetworks(h) ==
    /\ attendanceCall[h].pc = "networks"
    /\ allowedNetworks' = attendanceCall[h].list
    /\ Answer(h)
    /\ UNCHANGED <<attendanceRow, corrections>>

RollBackAttendance(h) ==
    /\ attendanceCall[h].pc # "idle"
    /\ Answer(h)
    /\ UNCHANGED <<attendanceRow, allowedNetworks, corrections>>

AttendanceStep(h) ==
    \/ \E r \in Records, n \in Networks, t \in Times :
        \/ BeginCheckIn(h, r, n, t)
        \/ BeginCheckOut(h, r, n, t)
    \/ \E r \in Records, in, out \in Time : BeginCorrection(h, r, in, out)
    \/ \E new \in SUBSET Networks : ReadToAdd(h, new) \/ ReplaceNetworks(h, new)
    \/ \E n \in Networks : ReadToRemove(h, n)
    \/ CommitCheckIn(h)
    \/ CommitCheckOut(h)
    \/ CommitCorrection(h)
    \/ CommitNetworks(h)
    \/ RollBackAttendance(h)

AttendanceNext == \E h \in Handlers : AttendanceStep(h)

AttendanceSpec == AttendanceInit /\ [][AttendanceNext]_attendanceVars

-------------------------------------------------------------------------------
(* Properties *)

\* However many check-ins, check-outs and corrections of a day overlap, the time
\* of the first check-in stands until HR corrects it, and the correction is in
\* the audit log (attendance_record_repository.py:79 "returns it without
\* overwriting — no race condition possible").
CheckInStands ==
    [][\A r \in Records :
        (attendanceRow[r].exists /\ attendanceRow'[r].in # attendanceRow[r].in) =>
            corrections'[r] > corrections[r]]_attendanceVars

\* "idempotent, no-overwrite semantics" (attendance_service.py:3), which the
\* comment says of check-out too.
CheckOutStands ==
    [][\A r \in Records :
        (attendanceRow[r].out # None /\ attendanceRow'[r].out # attendanceRow[r].out) =>
            corrections'[r] > corrections[r]]_attendanceVars
===============================================================================
