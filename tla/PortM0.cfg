SPECIFICATION Spec
CONSTANTS
    low = low
    high = high
    Tasks = {t1, t2}
    Main = Main
    Tick = Tick
    PendSV = PendSV
    UserIrqs = {low, high}
    Urgency <- MCUrgency
    Builds = {TRUE, FALSE}
    MaxNesting = 2
INVARIANT KernelExclusion
INVARIANT NestingOfCurrent
INVARIANT YieldBeforeReturn
INVARIANT MaskReopened
INVARIANT ContextOfCurrent
