SPECIFICATION FairSpec
CONSTANTS
    Candidates = {c1}
    Slots = {i1, i2}
    Requests = {r1, r2}
    None = None
    MaxFaults = 0
PROPERTIES
    AcceptancePublished
    DecisionCallsOff
CHECK_DEADLOCK FALSE
