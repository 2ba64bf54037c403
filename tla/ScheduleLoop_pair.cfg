SPECIFICATION Spec
CONSTANTS
    Second = 2
    Period = 12
    SleepDelta = 2
    SleepAt <- MCSleepAt
    WakeUpAt <- MCWakeUpAt
    StartTimes <- MCStartTimes
    MaxTime = 70
    MaxLag = 1
    MaxBackoff = 1
    MaxErrors = 1
    ResourcesVary = TRUE
    OnDemand = FALSE
    Restarts = TRUE
INVARIANTS
    TypeOK
    NeverStalls
    AsleepWhenDue
    AwakeWhenDue
CHECK_DEADLOCK FALSE
