SPECIFICATION Spec
CONSTANTS
    Readings <- FineReadings
    MaxBurst = 3
PROPERTY IdsIncrease
