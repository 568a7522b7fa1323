SPECIFICATION FairSpec
CONSTANTS
    Tasks = {t1, t2}
    None = None
    Ops <- MCAllOps
    Bauds = {"standard", "fast"}
    LastByteNack <- MCAllKinds
    Serialized = TRUE
    StopsOpenBus = TRUE
    PromptPoll = TRUE
INVARIANT BufferReleased
INVARIANT StatusIsOwn
INVARIANT OkMeansMoved
INVARIANT EnabledOnItsPins
PROPERTY CallReturns
PROPERTY ContractSpec
