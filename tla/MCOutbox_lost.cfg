SPECIFICATION Spec
CONSTANTS
    Record = {1}
    Processor = {p1, p2}
    MaxRetries = 2
    MaxFaults = 0
INVARIANT
    SuccessRecorded
