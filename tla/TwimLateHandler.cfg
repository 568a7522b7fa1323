SPECIFICATION Spec
CONSTANTS
    Tasks = {t1}
    Isr = Isr
    None = None
    Ops <- MCWrite
    ReissueInCallback = FALSE
    StopInFlight = FALSE
    MaskedByTasks = FALSE
INVARIANT CallbackFindsBusy
