SPECIFICATION FairSpec
CONSTANTS
    Unset = Unset
    Malformed = Malformed
    Invalid = Invalid
    Environments <- Deviations
    Token = {"t", "other"}
    U32 = 16
    MaxSends = 2
CHECK_DEADLOCK FALSE
INVARIANTS
    TypeOK
    ServesOnlyImmutable
    ExitHonest
PROPERTY
    StopHonoured
