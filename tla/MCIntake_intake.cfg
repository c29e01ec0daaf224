SPECIFICATION Spec
CONSTANTS
    Openings = {o1}
    Applications = {a1}
    Candidates = {c1, c2}
    Uploads = {c1}
    Requests = {r1, r2}
    None = None
    Free = Free
SYMMETRY Symmetry
INVARIANTS
    PromotedOnce
    WaitingEnds
PROPERTIES
    AssignmentsStand
