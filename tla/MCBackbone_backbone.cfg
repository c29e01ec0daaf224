SPECIFICATION FairBackboneSpec
CONSTANTS
    Candidates = {c1}
    Slots = {i1}
    Requests = {r1}
    None = None
    MaxFaults = 1
    Malformed = {}
    Tasks = {t1}
    Fields = {}
    Patchable = {}
    Jobs = {j1}
    Free = Free
    MaxTries = 2
    MaxCrashes = 1
    MaxErrors = 1
    Clerks = {h1}
INVARIANTS
    HandedOver
PROPERTIES
    HireReachesOnboarding
CHECK_DEADLOCK FALSE
