SPECIFICATION Spec
CONSTANTS
    Tasks = {t1, t2}
    Isr = Isr
    None = None
    Ops <- MCAllOps
    ReissueInCallback = TRUE
    StopInFlight = TRUE
    MaskedByTasks = TRUE
CONSTRAINT MCInTime
SYMMETRY MCSymmetry
INVARIANT NoSecondCompletion
INVARIANT NoSpuriousInterrupt
INVARIANT FreeMeansQuiet
INVARIANT StartsOnQuietBus
INVARIANT CallbackToOwner
INVARIANT BusyMeansInFlight
INVARIANT ErrorReported
