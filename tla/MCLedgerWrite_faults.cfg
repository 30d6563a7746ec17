SPECIFICATION Spec
CONSTANTS
    h1 = h1
    h2 = h2
    h3 = h3
    p1 = p1
    p2 = p2
    bad = bad
    NoKey = NoKey
    Chain = {c1}
    Key = {k1}
    Body = {b1, b2, bad}
    InvalidBody <- BadBody
    Proc = {p1, p2}
    Handler <- Handlers2
    ProcOf <- TwoProcesses2
    EntryId <- Ids
    ChainMaxRetries = 2
    HaltRecovery = 1
    PoolMaxSize = 2
    CreateOutbox = TRUE
    Faults = {"cancel", "crash", "db"}
    MaxEntries = 3
    MaxClock = 1
INVARIANTS
    TypeOK
    WrittenTsMonotone
    ReceiptFaithful
    ConflictHonest
    HaltEarned
    AcknowledgedIsQueued
PROPERTY
    ImplementsLog
