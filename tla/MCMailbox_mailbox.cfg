SPECIFICATION MailSpec
CONSTANTS
    Handlers = {h1, h2}
    None = None
    GoogleAccounts = {h1, h2}
    MaxStates = 2
    MaxGrants = 2
    MaxLosses = 1
    Accounts = {h1, h2}
    Positions = {}
    Workers = {h1, h2}
    MaxMail = 2
    Page = 1
    Filed = {1}
    MaxChanges = 2
    MaxSyncFaults = 1
    Importers = {i1, i2}
    Batches = {b1, b2}
    MaxImports = 2
    MaxSwitches = 2
    MaxImportFaults = 1
    Mails = {m1, m2}
    MaxRetries = 1
    MaxSends = 3
    MaxMailFaults = 2
    Emails = {m1, m2}
    MaxTries = 1
    MaxApps = 3
    MaxBatches = 2
    MaxMishaps = 1
    Proposals = {q1, q2}
    InboxItems = {n1, n2}
    ThreadMails = {n3}
    Targets = {g1}
    MaxLinkFaults = 1
SYMMETRY MCSymmetry
INVARIANTS
    StateUsedOnce
    CursorCovers
    NoZombie
    SentWasDelivered
    JudgedIsVisible
    LinksAgree
PROPERTIES
    ServesMailbox
CONSTRAINT MCFewMails
CHECK_DEADLOCK FALSE
