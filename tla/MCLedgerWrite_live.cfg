SPECIFICATION FairSpec
CONSTANTS
    h1 = h1
    h2 = h2
    h3 = h3
    p1 = p1
    p2 = p2
    bad = bad
    NoKey = NoKey
    Chain = {c1, c2}
    Key = {k1}
    Body = {b1, bad}
    InvalidBody <- BadBody
    Proc = {p1, p2}
    Handler <- Handlers3
    ProcOf <- TwoProcesses3
    EntryId <- Ids
    ChainMaxRetries = 2
    HaltRecovery = 1
    PoolMaxSize = 1
    CreateOutbox = FALSE
    Faults = {}
    MaxEntries = 3
    MaxClock = 0
INVARIANTS
    ChainLinked
    KeyUnique
PROPERTY
    RequestsAnswered
