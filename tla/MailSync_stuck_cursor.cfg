\* Does a mailbox whose history id has expired recover?
SPECIFICATION LiveSyncSpec
CONSTANTS
    Handlers = {h1}
    None = None
    Accounts = {a1}
    Positions = {}
    Workers = {w1}
    MaxMail = 2
    Page = 1
    Filed = {}
    MaxChanges = 1
    MaxSyncFaults = 1
PROPERTIES
    SyncRecovers
CHECK_DEADLOCK FALSE
