SPECIFICATION Spec
CONSTANTS
    Readings <- CoarseReadings
    MaxBurst = 3
INVARIANT TypeOK
PROPERTY IdsIncrease
PROPERTY DocumentedRule
