SPECIFICATION Spec
CONSTANTS
    t1 = t1
    t2 = t2
    low = low
    high = high
    Tasks = {t1, t2}
    Main = Main
    Tick = Tick
    PendSV = PendSV
    UserIrqs = {high}
    IrqPriority <- MCTooUrgent
    SoftDevicePresent = FALSE
    MaxNesting = 1
INVARIANT TooUrgentCaught
