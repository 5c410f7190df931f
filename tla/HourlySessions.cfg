SPECIFICATION Spec
CONSTANTS
    Assets = {btc}
    Hours = {1, 2}
    Conditions = {c1, c2}
    HourTicks = 1
    MaxClock = 3
    MaxSourceId = 1
    MaxEpochs = 2
    ClockStepsBack = TRUE
INVARIANTS
    EvidenceIsFinal
PROPERTIES
    LifecycleAdvances
CHECK_DEADLOCK FALSE
