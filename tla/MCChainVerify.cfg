SPECIFICATION Spec
CONSTANTS
    BatchSize = 2
    MaxEntries = 2
    MaxLen = 3
    MaxDamage = 2
INVARIANTS
    TypeOK
    RangeCovered
    NoFalseAlarm
    DamageReported
    PointVerdict
