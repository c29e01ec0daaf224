SPECIFICATION FairSpec
CONSTANTS
    Candidates = {c1}
    Malformed = {}
    Tasks = {t1}
    Fields = {}
    Patchable = {}
    Requests = {r1, r2}
    Jobs = {j1, j2}
    Free = Free
    MaxTries = 2
    MaxCrashes = 2
    MaxErrors = 0
INVARIANTS
    ProcessUnique
PROPERTIES
    EventDelivered
    EveryRequestAnswered
