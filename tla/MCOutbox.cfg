SPECIFICATION FairSpec
CONSTANTS
    Record = {1, 2}
    Processor = {p1, p2}
    MaxRetries = 2
    MaxFaults = 1
INVARIANTS
    TypeOK
    DeliveredMeansAccepted
    NotAbandonedEarly
    RetriesBounded
PROPERTY
    EventuallySettled
