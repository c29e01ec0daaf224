SPECIFICATION ServicesSpec
CONSTANTS
    Handlers = {h1, h2}
    None = None
    MaxQuestions = 2
    MaxChats = 3
    MaxClicks = 2
    MaxMishaps = 1
    HrUsers = {u1}
    OtherUsers = {u2}
    MaxSessions = 1
    MaxTurns = 2
    MaxIterations = 1
    MaxCalls = 1
    MaxUpsets = 1
    Tabs = {h1, h2}
    People = {p1, p2}
    Nobody = Nobody
    MaxLogins = 2
    MaxCallouts = 2
    MaxHitches = 1
    Mails = {e1}
    Sides = 2
    MaxAttempts = 2
    MaxJudgements = 2
    Responses <- MCResponses
    RuleBases <- MCRuleBases
    Scorings <- MCScorings
    MaxCorrections = 2
    MaxSamples = 2
    ItemIds = {i1, i2}
    NoId = NoId
    Datasets <- MCDatasets
    Domains = {d1, d2}
    MaxDomains = 1
    Defaults = {}
    Tools = {k1, k2}
    MaxEdits = 3
    MaxOutages = 1
    Papers = {b1, b2}
    Owners = {p1, p2}
    PaperTypes <- MCPaperTypes
    FileNames <- MCFileNames
    MaxVaultFaults = 1
SYMMETRY MCSymmetry
INVARIANTS
    PanelIsTrue
    TurnsAreWhole
    CallsCarryOn
    RolloutKeepsItsWord
    EvaluationIsSound
    EditsStand
    VaultIsWhole
CHECK_DEADLOCK FALSE
