SPECIFICATION Spec
CONSTANTS
    MAXTICKS = 7
    TickMax = 15
    BeforeSleep = 2
    IdleTimes <- MCIdleTimes
    MaxBehind = 2
    MaxPended = 2
    WakeLatency = 1
    ConfirmsPended = TRUE
    PromptSleep = TRUE
INVARIANT TickNeverAhead
INVARIANT SleepCounted
PROPERTY CatchesUp
