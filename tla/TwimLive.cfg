SPECIFICATION FairSpec
CONSTANTS
    Tasks = {t1, t2}
    Isr = Isr
    None = None
    Ops <- MCTransferOps
    ReissueInCallback = TRUE
    StopInFlight = FALSE
    MaskedByTasks = TRUE
CONSTRAINT MCInTime
PROPERTY TransferCompletes
PROPERTY ContractSpec
