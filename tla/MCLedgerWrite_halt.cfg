SPECIFICATION Spec
CONSTANTS
    h1 = h1
    h2 = h2
    h3 = h3
    p1 = p1
    p2 = p2
    bad = bad
    NoKey = NoKey
    Chain = {c1}
    Key = {}
    Body = {b1, bad}
    InvalidBody <- BadBody
    Proc = {p1, p2}
    Handler <- Handlers3
    ProcOf <- TwoProcesses3
    EntryId <- Ids
    ChainMaxRetries = 1
    HaltRecovery = 1
    PoolMaxSize = 2
    CreateOutbox = FALSE
    Faults = {}
    MaxEntries = 4
    MaxClock = 2
PROPERTY
    HaltLastsRecovery
