SPECIFICATION Spec
CONSTANTS
    w = w
    i = i
    None = None
    Text <- Texts
    EntryId = {1, 2}
    EntryType = {"t1", "t2"}
    IdempotencyKey = {"k"}
    CreateOutbox = TRUE
    OutboxMaxRetries = 2
    Call = {w, i}
    Endpoint <- EndpointOfCall
    Offered <- OfferedByCall
    Oversized = {"huge"}
    Time = {1, 2}
    MaxTampers = 1
INVARIANTS
    MapsAgree
    ReceiptVerifies
    TamperDetected
    RetryAccepted
    SoleWriterNeverContends
PROPERTY
    ImplementsLog
