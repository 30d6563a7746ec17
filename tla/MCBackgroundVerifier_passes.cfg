SPECIFICATION FairSpec
CONSTANTS
    Chain = {1, 2}
    MaxFaults = 2
INVARIANTS
    TypeOK
    GaugeMatchesReadiness
    AlarmEarned
PROPERTIES
    AlarmRaised
    AlarmClears
