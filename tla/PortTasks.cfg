SPECIFICATION FairSpec
CONSTANTS
    t1 = t1
    t2 = t2
    low = low
    high = high
    Tasks = {t1, t2}
    Main = Main
    Tick = Tick
    PendSV = PendSV
    UserIrqs = {low, high}
    IrqPriority <- MCPriorities
    SoftDevicePresent = TRUE
    MaxNesting = 2
INVARIANT ContextOfCurrent
INVARIANT KernelExclusion
INVARIANT NestingOfCurrent
INVARIANT MaskWasClear
INVARIANT FirstTaskFirst
INVARIANT MaskReopened
PROPERTY YieldServed
