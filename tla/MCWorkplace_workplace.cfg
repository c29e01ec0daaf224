SPECIFICATION WorkplaceSpec
CONSTANTS
    Handlers = {h1, h2}
    None = None
    Requests = {r1, r2}
    Employees = {e1}
    Days = {1, 2}
    Payslips = {pay1, pay2}
    Slots = {slot}
    Amounts = {a1, a2}
    Records = {d1}
    Times = {t1, t2}
    Networks = {n1, n2}
    MaxNetworks = 1
    MaxCorrections = 2
    Staff = {1, 2, 3, 4, 5}
    Edited = {3}
    Emails = {"an", "binh", "dung", "Dung", "em"}
    Lower <- MCLower
    InitialDirectory <- MCDirectory
    Departments = {dep}
    Base = 2
    Pad = 1
    Documents = {doc}
    MaxVersions = 2
    MaxJobs = 2
    MaxFaults = 2
    MaxCvs = 2
    Starts = {h1, h2}
    MaxEdits = 3
    MaxConflicts = 2
    People = {p1, p2, p3}
    Super = p1
    Linked = {p2, p3}
    MaxReturns = 1
    MaxTokens = 3
    MaxLinks = 2
    MaxPasswords = 2
    MaxRollbacks = 1
    Versions = {v1}
    Capabilities = {"automation"}
    MaxKeys = 1
SYMMETRY MCSymmetry
INVARIANTS
    DirectoryConsistent
    NoOrphanChunks
    OneDocumentPerFile
    EtagVouches
    FoundedOnce
    SingleSession
    RevokedIsGone
PROPERTIES
    ReviewedOnce
    PublishedStays
    CheckInStands
CONSTRAINT MCNeverMet
CHECK_DEADLOCK FALSE
