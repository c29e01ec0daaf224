SPECIFICATION Spec
CONSTANTS
    Candidates = {c1, c2}
    Malformed = {c2}
    Tasks = {t1, t2}
    Fields = {dept}
    Patchable = {dept}
    Requests = {r1, r2}
    Jobs = {j1}
    Free = Free
    MaxTries = 1
    MaxCrashes = 1
    MaxErrors = 1
SYMMETRY MCSymmetry
INVARIANTS
    ActivationStands
PROPERTIES
    FrozenWhenComplete
    ContractSpec
