SPECIFICATION Spec
CONSTANTS
    Second = 2
    Period = 12
    SleepDelta = 2
    SleepAt <- MCSleepAt
    WakeUpAt <- MCNoWakeUpAt
    StartTimes <- MCStartTimes
    MaxTime = 70
    MaxLag = 1
    MaxBackoff = 1
    MaxErrors = 0
    ResourcesVary = TRUE
    OnDemand = FALSE
    Restarts = FALSE
INVARIANT
    SleepsEveryNight
CHECK_DEADLOCK FALSE
