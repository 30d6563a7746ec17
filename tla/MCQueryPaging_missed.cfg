SPECIFICATION Spec
CONSTANTS
    NoToken = NoToken
    Junk = Junk
    EntryType <- Types
    Agent = {"x"}
    Query <- Everything
    PageSize <- Sizes
    DefaultPageSize = 1
    MaxPageSize = 2
    MicrosPerMilli = 2
    MaxRows = 3
    MaxClock = 3
INVARIANT
    PagesReturnAll
