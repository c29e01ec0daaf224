SPECIFICATION Spec
CONSTANTS
    Candidates = {c1}
    Malformed = {}
    Tasks = {t1, t2}
    Fields = {dept, mgr}
    Patchable = {dept}
    Requests = {r1, r2}
    Jobs = {j1}
    Free = Free
    MaxTries = 3
    MaxCrashes = 0
    MaxErrors = 1
INVARIANTS
    FailureIsRecorded
