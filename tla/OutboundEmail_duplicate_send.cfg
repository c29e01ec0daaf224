\* Is a mail delivered at most once?
SPECIFICATION OutboundSpec
CONSTANTS
    Handlers = {h1, h2}
    None = None
    Mails = {m1}
    MaxRetries = 1
    MaxSends = 2
    MaxMailFaults = 1
INVARIANTS
    DeliveredOnce
CHECK_DEADLOCK FALSE
