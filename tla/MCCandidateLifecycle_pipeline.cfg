SPECIFICATION Spec
CONSTANTS
    Candidates = {c1}
    Slots = {i1, i2, i3}
    Requests = {r1, r2}
    None = None
    MaxFaults = 1
SYMMETRY MCSymmetry
INVARIANTS
    CalendarAgrees
    PublishedIsAccepted
PROPERTIES
    EndedStaysEnded
CHECK_DEADLOCK FALSE
