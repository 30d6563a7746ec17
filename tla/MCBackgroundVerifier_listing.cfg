SPECIFICATION Spec
CONSTANTS
    Chain = {1}
    MaxFaults = 1
INVARIANT
    GaugeEarned
