SPECIFICATION Spec
CONSTANTS
    Second = 2
    Period = 12
    SleepDelta = 2
    SleepAt <- MCSleepAt
    WakeUpAt <- MCNoWakeUpAt
    StartTimes <- MCStartTimes
    MaxTime = 70
    MaxLag = 1
    MaxBackoff = 1
    MaxErrors = 1
    ResourcesVary = FALSE
    OnDemand = TRUE
    Restarts = TRUE
INVARIANTS
    SleepsEveryNight
PROPERTIES
    TickNotRepeated
CHECK_DEADLOCK FALSE
