SPECIFICATION Spec
CONSTANTS
    Tasks = {t1}
    Isr = Isr
    None = None
    Ops <- MCWriteNoStop
    ReissueInCallback = TRUE
    StopInFlight = FALSE
    MaskedByTasks = FALSE
INVARIANT PromptHandlerFindsEvent
CHECK_DEADLOCK FALSE
