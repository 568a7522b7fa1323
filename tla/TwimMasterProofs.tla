-------------------------- MODULE TwimMasterProofs --------------------------
(***************************************************************************)
(* Proofs about TwimMaster, for any set of tasks, any operations and any   *)
(* use of start() and stop().                                              *)
(***************************************************************************)
EXTENDS TwimMaster, TLAPS

(***************************************************************************)
(* Type correctness: every step of the driver, of the interrupt and of the *)
(* bus keeps the registers and the driver's variables in their types.      *)
(***************************************************************************)

LEMMA InitTypeOK == Init => TypeOK
BY ContextAssumption
   DEF Init, PeripheralInit, TypeOK, Contexts, EngineStates, TransferPcs, IsrPcs, Kinds

LEMMA KindsOfOps == \A op \in Ops : OpKind[op] \in Kinds
BY OpsAssumption DEF OpKind, Kinds

\* The shortcuts and events of a kind of transfer exist.
LEMMA KindTypes ==
    \A k \in Kinds : /\ Completion(k) \in Events
                     /\ KickoffShortcuts[k] \subseteq Shortcuts
BY DEF Completion, KickoffShortcuts, Events, Shortcuts, Kinds

LEMMA EngineTypes ==
    \A e \in EngineStates : {Resume(e), StartTx(e), StartRx(e), Stop(e)} \subseteq EngineStates
BY DEF Resume, StartTx, StartRx, Stop, EngineStates

LEMMA StepTypeOK == TypeOK /\ [Next]_vars => TypeOK'
<1> SUFFICES ASSUME TypeOK, [Next]_vars PROVE TypeOK'
    OBVIOUS
<1> USE ContextAssumption, KindsOfOps, KindTypes, EngineTypes
    DEF TypeOK, Contexts, Goto, TransferPcs, IsrPcs, HandlerPcs
<1>1. ASSUME NEW c \in Contexts, Transfer(c) PROVE TypeOK'
    BY <1>1 DEF Transfer, CallSite, twim, nvic
<1>2. ASSUME NEW c \in Contexts, TransferBusy(c) PROVE TypeOK'
    BY <1>2 DEF TransferBusy, CallSite, ReturnSite, twim, nvic, driver, history
<1>3. ASSUME NEW c \in Contexts, StoreActive(c) PROVE TypeOK'
    BY <1>3 DEF StoreActive, twim, nvic, history
<1>4. ASSUME NEW c \in Contexts, StopCondition(c) PROVE TypeOK'
    BY <1>4 DEF StopCondition, ReturnSite, nvic, driver, history
<1>5. ASSUME NEW c \in Contexts, QuietInterrupts(c) PROVE TypeOK'
    BY <1>5 DEF QuietInterrupts, Latch, driver, history
<1>6. ASSUME NEW c \in Contexts, EnableInterrupts(c) PROVE TypeOK'
    BY <1>6 DEF EnableInterrupts, Latch, driver, history, Events
<1>7. ASSUME NEW c \in Contexts, ClearEvents(c) PROVE TypeOK'
    BY <1>7 DEF ClearEvents, Latch, driver, history
<1>8. ASSUME NEW c \in Contexts, Kickoff(c) PROVE TypeOK'
    BY <1>8 DEF Kickoff, StartTask, nvic, driver, history
<1>9. ASSUME NEW c \in Contexts, LoadErrors(c) PROVE TypeOK'
    BY <1>9 DEF LoadErrors, twim, nvic, driver, history
<1>10. ASSUME NEW c \in Contexts, ReturnStatus(c) PROVE TypeOK'
    BY <1>10 DEF ReturnStatus, ReturnSite, nvic, driver
<1>11. ASSUME IsrEnter PROVE TypeOK'
  <2>1. pc' = [pc EXCEPT ![Isr] = "entry"]
    BY <1>11 DEF IsrEnter
  <2>2. UNCHANGED <<twim, nvicEnabled, driver, kind, error, history>> /\ pending' = FALSE
    BY <1>11 DEF IsrEnter
  <2>3. /\ enabled' \in BOOLEAN /\ nvicEnabled' \in BOOLEAN /\ pending' \in BOOLEAN
        /\ twim_callback' \in BOOLEAN /\ busy_' \in BOOLEAN /\ nacked' \in BOOLEAN
        /\ told' \in BOOLEAN /\ mixed' \in BOOLEAN /\ stranded' \in BOOLEAN
    BY <2>2, Zenon DEF twim, driver, history
  <2>4. UNCHANGED <<engine, events, inten, shorts, errorsrc, active_, owner, called, overtaken, kind,
                   error>>
    BY <2>2 DEF twim, driver, history
  <2> QED
    BY <2>1, <2>3, <2>4
<1>12. ASSUME HandleError PROVE TypeOK'
    BY <1>12 DEF HandleError, Latch, driver, history
<1>13. ASSUME HaltTransfer PROVE TypeOK'
    BY <1>13 DEF HaltTransfer, nvic, driver, history
<1>14. ASSUME WatchStopped PROVE TypeOK'
    BY <1>14 DEF WatchStopped, Latch, driver, history, Events
<1>15. ASSUME RecheckStopped PROVE TypeOK'
    BY <1>15 DEF RecheckStopped, twim, nvic, driver, history
<1>16. ASSUME HandleStopped PROVE TypeOK'
    BY <1>16 DEF HandleStopped, Latch, driver, history
<1>17. ASSUME HandleSuspended PROVE TypeOK'
    BY <1>17 DEF HandleSuspended, Latch, driver, history
<1>18. ASSUME TwimCallback PROVE TypeOK'
    BY <1>18 DEF TwimCallback, nvic
<1>19. ASSUME CallbackReturns PROVE TypeOK'
    BY <1>19 DEF CallbackReturns, twim, nvic, driver, history
<1>20. ASSUME IsrExit PROVE TypeOK'
    BY <1>20 DEF IsrExit, twim, driver, history
<1>21. ASSUME DriverStart PROVE TypeOK'
    BY <1>21 DEF DriverStart, setCallback, enable_interrupts, NVIC_enable, driver, local, history
<1>22. ASSUME DriverStop PROVE TypeOK'
    BY <1>22 DEF DriverStop, disable_interrupts, NVIC_disable, Latch, driver, local, history, EngineStates
<1>23. ASSUME BusNack PROVE TypeOK'
    BY <1>23 DEF BusNack, driver, local, HwNack, Latch, ErrorSources, EngineStates, Events
<1>24. ASSUME BusTxLast PROVE TypeOK'
    BY <1>24 DEF BusTxLast, driver, local, history, HwTxLast, Latch, TxLastEngine,
       EngineStates, Events
<1>25. ASSUME BusTxLastNack PROVE TypeOK'
    BY <1>25 DEF BusTxLastNack, driver, local, HwTxLast, Latch, TxLastEngine, ErrorSources,
       EngineStates, Events
<1>26. ASSUME BusRxLast PROVE TypeOK'
    BY <1>26 DEF BusRxLast, driver, local, history, HwRxLast, EngineStates
<1>27. ASSUME BusStopped PROVE TypeOK'
    BY <1>27 DEF BusStopped, driver, local, history, HwStopped, Latch, EngineStates, Events
<1>28. CASE UNCHANGED vars
    BY <1>28 DEF vars, twim, nvic, driver, local, history
<1>29. ASSUME enableInterrupts \/ disableInterrupts PROVE TypeOK'
    BY <1>29 DEF enableInterrupts, disableInterrupts, enable_interrupts,
       disable_interrupts, NVIC_enable, NVIC_disable, twim, driver, local, history
<1> QED
    BY <1>1, <1>2, <1>3, <1>4, <1>5, <1>6, <1>7, <1>8, <1>9, <1>10, <1>11, <1>12, <1>13,
       <1>14, <1>15, <1>16, <1>17, <1>18, <1>19, <1>20, <1>21, <1>22, <1>23, <1>24, <1>25,
       <1>26, <1>27, <1>28, <1>29 DEF Next, TransferStep,
       IsrStep, BusMoves

\* Every variable of the driver and of the peripheral stays within its type.
THEOREM TypeCorrect == Spec => []TypeOK
BY InitTypeOK, StepTypeOK, PTL DEF Spec

\* While no end overtakes an error, the byte that is refused is not the last of a
\* write without stop,
LEMMA RefusedInTime ==
    ASSUME BusTxLastNack, InTime' PROVE TxLastEngine # "suspended"
BY DEF BusTxLastNack, InTime

\* and no STOP condition is complete before the error branch is done.
LEMMA StoppedInTime ==
    ASSUME BusStopped, InTime'
    PROVE  "ERROR" \notin events /\ pc[Isr] \notin {"halt", "watch", "recheck"}
BY DEF BusStopped, InTime

LEMMA OwnershipStep ==
    ASSUME IInv, [Next]_vars, InTime' PROVE Ownership'
<1> USE ContextAssumption
    DEF IInv, TypeOK, Contexts, Goto, BeforeStart, HandlerPcs, Ownership, HandlerState
<1>1. ASSUME NEW c \in Contexts, Transfer(c) PROVE Ownership'
    BY <1>1 DEF Transfer, CallSite, twim, nvic, MayCall
<1>2. ASSUME NEW c \in Contexts, TransferBusy(c) PROVE Ownership'
    BY <1>2 DEF TransferBusy, CallSite, ReturnSite, twim, nvic, driver, history, MayCall
<1>3. ASSUME NEW c \in Contexts, StoreActive(c) PROVE Ownership'
    BY <1>3 DEF StoreActive, twim, nvic, history
<1>4. ASSUME NEW c \in Contexts, StopCondition(c) PROVE Ownership'
    BY <1>4 DEF StopCondition, ReturnSite, nvic, driver, history
<1>5. ASSUME NEW c \in Contexts, QuietInterrupts(c) PROVE Ownership'
    BY <1>5 DEF QuietInterrupts, Latch, driver, history
<1>6. ASSUME NEW c \in Contexts, EnableInterrupts(c) PROVE Ownership'
    BY <1>6 DEF EnableInterrupts, Latch, driver, history, Completion
<1>7. ASSUME NEW c \in Contexts, ClearEvents(c) PROVE Ownership'
    BY <1>7 DEF ClearEvents, Latch, driver, history, Completion
<1>8. ASSUME NEW c \in Contexts, Kickoff(c) PROVE Ownership'
    BY <1>8 DEF Kickoff, StartTask, nvic, driver, history
<1>9. ASSUME NEW c \in Contexts, LoadErrors(c) PROVE Ownership'
    BY <1>9 DEF LoadErrors, twim, nvic, driver, history
<1>10. ASSUME NEW c \in Contexts, ReturnStatus(c) PROVE Ownership'
    BY <1>10 DEF ReturnStatus, ReturnSite, nvic, driver
<1>11. ASSUME IsrEnter PROVE Ownership'
    BY <1>11 DEF IsrEnter, twim, driver, history
<1>12. ASSUME HandleError PROVE Ownership'
    BY <1>12 DEF HandleError, Latch, driver, history
<1>13. ASSUME HaltTransfer PROVE Ownership'
    BY <1>13 DEF HaltTransfer, nvic, driver, history
<1>14. ASSUME WatchStopped PROVE Ownership'
    BY <1>14 DEF WatchStopped, Latch, driver, history
<1>15. ASSUME RecheckStopped PROVE Ownership'
    BY <1>15 DEF RecheckStopped, twim, nvic, driver, history
<1>16. ASSUME HandleStopped PROVE Ownership'
    BY <1>16 DEF HandleStopped, Latch, driver, history
<1>17. ASSUME HandleSuspended PROVE Ownership'
    BY <1>17 DEF HandleSuspended, Latch, driver, history
<1>18. ASSUME TwimCallback PROVE Ownership'
    BY <1>18 DEF TwimCallback, nvic
<1>19. ASSUME CallbackReturns PROVE Ownership'
    BY <1>19 DEF CallbackReturns, twim, nvic, driver, history
<1>20. ASSUME IsrExit PROVE Ownership'
    BY <1>20 DEF IsrExit, twim, driver, history
<1>21. ASSUME DriverStart PROVE Ownership'
    BY <1>21 DEF DriverStart, setCallback, enable_interrupts, NVIC_enable, driver, local, history, Quiescent
<1>22. ASSUME DriverStop PROVE Ownership'
    BY <1>22 DEF DriverStop, disable_interrupts, NVIC_disable, Latch, driver, local, history, Quiescent
<1>23. ASSUME BusNack PROVE Ownership'
    BY <1>23 DEF BusNack, driver, local, HwNack, Latch
<1>24. ASSUME BusTxLast PROVE Ownership'
    BY <1>24 DEF BusTxLast, driver, local, history, HwTxLast, Latch, TxLastEngine
<1>25. ASSUME BusTxLastNack PROVE Ownership'
    BY <1>25, RefusedInTime DEF BusTxLastNack, driver, local, HwTxLast, Latch,
       TxLastEngine
<1>26. ASSUME BusRxLast PROVE Ownership'
    BY <1>26 DEF BusRxLast, driver, local, history, HwRxLast
<1>27. ASSUME BusStopped PROVE Ownership'
    BY <1>27, StoppedInTime DEF BusStopped, driver, local, history, HwStopped, Latch
<1>28. CASE UNCHANGED vars
    BY <1>28 DEF vars, twim, nvic, driver, local, history
<1>29. ASSUME enableInterrupts \/ disableInterrupts PROVE Ownership'
    BY <1>29 DEF enableInterrupts, disableInterrupts, enable_interrupts,
       disable_interrupts, NVIC_enable, NVIC_disable, twim, driver, local, history
<1> QED
    BY <1>1, <1>2, <1>3, <1>4, <1>5, <1>6, <1>7, <1>8, <1>9, <1>10, <1>11, <1>12, <1>13,
       <1>14, <1>15, <1>16, <1>17, <1>18, <1>19, <1>20, <1>21, <1>22, <1>23, <1>24, <1>25,
       <1>26, <1>27, <1>28, <1>29 DEF Next, TransferStep,
       IsrStep, BusMoves

LEMMA QuietUntilStartStep ==
    ASSUME IInv, [Next]_vars, InTime' PROVE QuietUntilStart'
<1> USE ContextAssumption
    DEF IInv, TypeOK, Contexts, Goto, BeforeStart, HandlerPcs, Ownership, QuietUntilStart, HandlerState, OneEvent, Quiet, AtRest
<1>1. ASSUME NEW c \in Contexts, Transfer(c) PROVE QuietUntilStart'
    BY <1>1 DEF Transfer, CallSite, twim, nvic, MayCall, Runs
<1>2. ASSUME NEW c \in Contexts, TransferBusy(c) PROVE QuietUntilStart'
    BY <1>2 DEF TransferBusy, CallSite, ReturnSite, twim, nvic, driver, history, MayCall
<1>3. ASSUME NEW c \in Contexts, StoreActive(c) PROVE QuietUntilStart'
    BY <1>3 DEF StoreActive, twim, nvic, history
<1>4. ASSUME NEW c \in Contexts, StopCondition(c) PROVE QuietUntilStart'
    BY <1>4 DEF StopCondition, ReturnSite, nvic, driver, history, Stop
<1>5. ASSUME NEW c \in Contexts, QuietInterrupts(c) PROVE QuietUntilStart'
    BY <1>5 DEF QuietInterrupts, Latch, driver, history, Line, Events
<1>6. ASSUME NEW c \in Contexts, EnableInterrupts(c) PROVE QuietUntilStart'
    BY <1>6 DEF EnableInterrupts, Latch, driver, history, Completion, Line, Events
<1>7. ASSUME NEW c \in Contexts, ClearEvents(c) PROVE QuietUntilStart'
    BY <1>7 DEF ClearEvents, Latch, driver, history, Completion, Line, Events
<1>8. ASSUME NEW c \in Contexts, Kickoff(c) PROVE QuietUntilStart'
    BY <1>8 DEF Kickoff, StartTask, nvic, driver, history, KickoffShortcuts, Kinds, StartTx,
       StartRx, Resume
<1>9. ASSUME NEW c \in Contexts, LoadErrors(c) PROVE QuietUntilStart'
    BY <1>9 DEF LoadErrors, twim, nvic, driver, history
<1>10. ASSUME NEW c \in Contexts, ReturnStatus(c) PROVE QuietUntilStart'
    BY <1>10 DEF ReturnStatus, ReturnSite, nvic, driver
<1>11. ASSUME IsrEnter PROVE QuietUntilStart'
    BY <1>11 DEF IsrEnter, twim, driver, history
<1>12. ASSUME HandleError PROVE QuietUntilStart'
    BY <1>12 DEF HandleError, Latch, driver, history, EngineStates, Line, Events
<1>13. ASSUME HaltTransfer PROVE QuietUntilStart'
    BY <1>13 DEF HaltTransfer, nvic, driver, history, Stop, Resume
<1>14. ASSUME WatchStopped PROVE QuietUntilStart'
    BY <1>14 DEF WatchStopped, Latch, driver, history, Line, Events
<1>15. ASSUME RecheckStopped PROVE QuietUntilStart'
    BY <1>15 DEF RecheckStopped, twim, nvic, driver, history
<1>16. ASSUME HandleStopped PROVE QuietUntilStart'
    BY <1>16 DEF HandleStopped, Latch, driver, history, EngineStates, Line, Events
<1>17. ASSUME HandleSuspended PROVE QuietUntilStart'
    BY <1>17 DEF HandleSuspended, Latch, driver, history, EngineStates, Line, Events
<1>18. ASSUME TwimCallback PROVE QuietUntilStart'
    BY <1>18 DEF TwimCallback, nvic
<1>19. ASSUME CallbackReturns PROVE QuietUntilStart'
    BY <1>19 DEF CallbackReturns, twim, nvic, driver, history
<1>20. ASSUME IsrExit PROVE QuietUntilStart'
    BY <1>20 DEF IsrExit, twim, driver, history, Line, Events
<1>21. ASSUME DriverStart PROVE QuietUntilStart'
    BY <1>21 DEF DriverStart, setCallback, enable_interrupts, NVIC_enable, driver, local, history, Quiescent
<1>22. ASSUME DriverStop PROVE QuietUntilStart'
    BY <1>22 DEF DriverStop, disable_interrupts, NVIC_disable, Latch, driver, local, history, Quiescent, Line, Events
<1>23. ASSUME BusNack PROVE QuietUntilStart'
    BY <1>23 DEF BusNack, driver, local, HwNack, Latch, KickoffShortcuts, Kinds, Line,
       Events
<1>24. ASSUME BusTxLast PROVE QuietUntilStart'
    BY <1>24 DEF BusTxLast, driver, local, history, HwTxLast, Latch, TxLastEngine,
       EngineStates, KickoffShortcuts, Kinds, Line, Events
<1>25. ASSUME BusTxLastNack PROVE QuietUntilStart'
    BY <1>25, RefusedInTime DEF BusTxLastNack, driver, local, HwTxLast, Latch,
       TxLastEngine, EngineStates, KickoffShortcuts, Kinds, Line, Events
<1>26. ASSUME BusRxLast PROVE QuietUntilStart'
    BY <1>26 DEF BusRxLast, driver, local, history, HwRxLast, KickoffShortcuts, Kinds
<1>27. ASSUME BusStopped PROVE QuietUntilStart'
    BY <1>27, StoppedInTime DEF BusStopped, driver, local, history, HwStopped, Latch, Line,
       Events
<1>28. CASE UNCHANGED vars
    BY <1>28 DEF vars, twim, nvic, driver, local, history
<1>29. ASSUME enableInterrupts \/ disableInterrupts PROVE QuietUntilStart'
    BY <1>29 DEF enableInterrupts, disableInterrupts, enable_interrupts,
       disable_interrupts, NVIC_enable, NVIC_disable, twim, driver, local, history
<1> QED
    BY <1>1, <1>2, <1>3, <1>4, <1>5, <1>6, <1>7, <1>8, <1>9, <1>10, <1>11, <1>12, <1>13,
       <1>14, <1>15, <1>16, <1>17, <1>18, <1>19, <1>20, <1>21, <1>22, <1>23, <1>24, <1>25,
       <1>26, <1>27, <1>28, <1>29 DEF Next, TransferStep,
       IsrStep, BusMoves

LEMMA OneEventStep ==
    ASSUME IInv, [Next]_vars, InTime' PROVE OneEvent'
<1> USE ContextAssumption
    DEF IInv, TypeOK, Contexts, Goto, BeforeStart, HandlerPcs, Ownership, QuietUntilStart, HandlerState, OneEvent, Quiet, AtRest
<1>1. ASSUME NEW c \in Contexts, Transfer(c) PROVE OneEvent'
    BY <1>1 DEF Transfer, CallSite, twim, nvic, MayCall, Runs
<1>2. ASSUME NEW c \in Contexts, TransferBusy(c) PROVE OneEvent'
    BY <1>2 DEF TransferBusy, CallSite, ReturnSite, twim, nvic, driver, history, MayCall
<1>3. ASSUME NEW c \in Contexts, StoreActive(c) PROVE OneEvent'
    BY <1>3 DEF StoreActive, twim, nvic, history
<1>4. ASSUME NEW c \in Contexts, StopCondition(c) PROVE OneEvent'
    BY <1>4 DEF StopCondition, ReturnSite, nvic, driver, history, Stop
<1>5. ASSUME NEW c \in Contexts, QuietInterrupts(c) PROVE OneEvent'
    BY <1>5 DEF QuietInterrupts, Latch, driver, history, Line, Events
<1>6. ASSUME NEW c \in Contexts, EnableInterrupts(c) PROVE OneEvent'
    BY <1>6 DEF EnableInterrupts, Latch, driver, history, Completion, Line, Events
<1>7. ASSUME NEW c \in Contexts, ClearEvents(c) PROVE OneEvent'
    BY <1>7 DEF ClearEvents, Latch, driver, history, Completion, Line, Events
<1>8. ASSUME NEW c \in Contexts, Kickoff(c) PROVE OneEvent'
    BY <1>8 DEF Kickoff, StartTask, nvic, driver, history, KickoffShortcuts, Kinds, StartTx,
       StartRx, Resume
<1>9. ASSUME NEW c \in Contexts, LoadErrors(c) PROVE OneEvent'
    BY <1>9 DEF LoadErrors, twim, nvic, driver, history
<1>10. ASSUME NEW c \in Contexts, ReturnStatus(c) PROVE OneEvent'
    BY <1>10 DEF ReturnStatus, ReturnSite, nvic, driver
<1>11. ASSUME IsrEnter PROVE OneEvent'
    BY <1>11 DEF IsrEnter, twim, driver, history
<1>12. ASSUME HandleError PROVE OneEvent'
    BY <1>12 DEF HandleError, Latch, driver, history, EngineStates, Line, Events
<1>13. ASSUME HaltTransfer PROVE OneEvent'
    BY <1>13 DEF HaltTransfer, nvic, driver, history, Stop, Resume
<1>14. ASSUME WatchStopped PROVE OneEvent'
    BY <1>14 DEF WatchStopped, Latch, driver, history, Line, Events
<1>15. ASSUME RecheckStopped PROVE OneEvent'
    BY <1>15 DEF RecheckStopped, twim, nvic, driver, history
<1>16. ASSUME HandleStopped PROVE OneEvent'
    BY <1>16 DEF HandleStopped, Latch, driver, history, EngineStates, Line, Events
<1>17. ASSUME HandleSuspended PROVE OneEvent'
    BY <1>17 DEF HandleSuspended, Latch, driver, history, EngineStates, Line, Events
<1>18. ASSUME TwimCallback PROVE OneEvent'
    BY <1>18 DEF TwimCallback, nvic
<1>19. ASSUME CallbackReturns PROVE OneEvent'
    BY <1>19 DEF CallbackReturns, twim, nvic, driver, history
<1>20. ASSUME IsrExit PROVE OneEvent'
    BY <1>20 DEF IsrExit, twim, driver, history, Line, Events
<1>21. ASSUME DriverStart PROVE OneEvent'
    BY <1>21 DEF DriverStart, setCallback, enable_interrupts, NVIC_enable, driver, local, history, Quiescent
<1>22. ASSUME DriverStop PROVE OneEvent'
    BY <1>22 DEF DriverStop, disable_interrupts, NVIC_disable, Latch, driver, local, history, Quiescent, Line, Events
<1>23. ASSUME BusNack PROVE OneEvent'
    BY <1>23 DEF BusNack, driver, local, HwNack, Latch, KickoffShortcuts, Kinds, Line,
       Events
<1>24. ASSUME BusTxLast PROVE OneEvent'
    BY <1>24 DEF BusTxLast, driver, local, history, HwTxLast, Latch, TxLastEngine,
       EngineStates, KickoffShortcuts, Kinds, Line, Events
<1>25. ASSUME BusTxLastNack PROVE OneEvent'
    BY <1>25, RefusedInTime DEF BusTxLastNack, driver, local, HwTxLast, Latch,
       TxLastEngine, EngineStates, KickoffShortcuts, Kinds, Line, Events
<1>26. ASSUME BusRxLast PROVE OneEvent'
    BY <1>26 DEF BusRxLast, driver, local, history, HwRxLast, KickoffShortcuts, Kinds
<1>27. ASSUME BusStopped PROVE OneEvent'
    BY <1>27, StoppedInTime DEF BusStopped, driver, local, history, HwStopped, Latch, Line,
       Events
<1>28. CASE UNCHANGED vars
    BY <1>28 DEF vars, twim, nvic, driver, local, history
<1>29. ASSUME enableInterrupts \/ disableInterrupts PROVE OneEvent'
    BY <1>29 DEF enableInterrupts, disableInterrupts, enable_interrupts,
       disable_interrupts, NVIC_enable, NVIC_disable, twim, driver, local, history
<1> QED
    BY <1>1, <1>2, <1>3, <1>4, <1>5, <1>6, <1>7, <1>8, <1>9, <1>10, <1>11, <1>12, <1>13,
       <1>14, <1>15, <1>16, <1>17, <1>18, <1>19, <1>20, <1>21, <1>22, <1>23, <1>24, <1>25,
       <1>26, <1>27, <1>28, <1>29 DEF Next, TransferStep,
       IsrStep, BusMoves

LEMMA HandlerStateStep ==
    ASSUME IInv, [Next]_vars, InTime' PROVE HandlerState'
<1> USE ContextAssumption
    DEF IInv, TypeOK, Contexts, Goto, BeforeStart, HandlerPcs, Ownership, QuietUntilStart, HandlerState, OneEvent, Quiet, AtRest
<1>1. ASSUME NEW c \in Contexts, Transfer(c) PROVE HandlerState'
    BY <1>1 DEF Transfer, CallSite, twim, nvic, MayCall, Runs
<1>2. ASSUME NEW c \in Contexts, TransferBusy(c) PROVE HandlerState'
    BY <1>2 DEF TransferBusy, CallSite, ReturnSite, twim, nvic, driver, history, MayCall
<1>3. ASSUME NEW c \in Contexts, StoreActive(c) PROVE HandlerState'
    BY <1>3 DEF StoreActive, twim, nvic, history
<1>4. ASSUME NEW c \in Contexts, StopCondition(c) PROVE HandlerState'
    BY <1>4 DEF StopCondition, ReturnSite, nvic, driver, history, Stop
<1>5. ASSUME NEW c \in Contexts, QuietInterrupts(c) PROVE HandlerState'
    BY <1>5 DEF QuietInterrupts, Latch, driver, history, Line, Events
<1>6. ASSUME NEW c \in Contexts, EnableInterrupts(c) PROVE HandlerState'
    BY <1>6 DEF EnableInterrupts, Latch, driver, history, Completion, Line, Events
<1>7. ASSUME NEW c \in Contexts, ClearEvents(c) PROVE HandlerState'
    BY <1>7 DEF ClearEvents, Latch, driver, history, Completion, Line, Events
<1>8. ASSUME NEW c \in Contexts, Kickoff(c) PROVE HandlerState'
    BY <1>8 DEF Kickoff, StartTask, nvic, driver, history, KickoffShortcuts, Kinds, StartTx,
       StartRx, Resume
<1>9. ASSUME NEW c \in Contexts, LoadErrors(c) PROVE HandlerState'
    BY <1>9 DEF LoadErrors, twim, nvic, driver, history
<1>10. ASSUME NEW c \in Contexts, ReturnStatus(c) PROVE HandlerState'
    BY <1>10 DEF ReturnStatus, ReturnSite, nvic, driver
<1>11. ASSUME IsrEnter PROVE HandlerState'
    BY <1>11 DEF IsrEnter, twim, driver, history
<1>12. ASSUME HandleError PROVE HandlerState'
    BY <1>12 DEF HandleError, Latch, driver, history, EngineStates, Line, Events
<1>13. ASSUME HaltTransfer PROVE HandlerState'
    BY <1>13 DEF HaltTransfer, nvic, driver, history, Stop, Resume
<1>14. ASSUME WatchStopped PROVE HandlerState'
    BY <1>14 DEF WatchStopped, Latch, driver, history, Line, Events
<1>15. ASSUME RecheckStopped PROVE HandlerState'
    BY <1>15 DEF RecheckStopped, twim, nvic, driver, history
<1>16. ASSUME HandleStopped PROVE HandlerState'
    BY <1>16 DEF HandleStopped, Latch, driver, history, EngineStates, Line, Events
<1>17. ASSUME HandleSuspended PROVE HandlerState'
    BY <1>17 DEF HandleSuspended, Latch, driver, history, EngineStates, Line, Events
<1>18. ASSUME TwimCallback PROVE HandlerState'
    BY <1>18 DEF TwimCallback, nvic
<1>19. ASSUME CallbackReturns PROVE HandlerState'
    BY <1>19 DEF CallbackReturns, twim, nvic, driver, history
<1>20. ASSUME IsrExit PROVE HandlerState'
    BY <1>20 DEF IsrExit, twim, driver, history, Line, Events
<1>21. ASSUME DriverStart PROVE HandlerState'
    BY <1>21 DEF DriverStart, setCallback, enable_interrupts, NVIC_enable, driver, local, history, Quiescent
<1>22. ASSUME DriverStop PROVE HandlerState'
    BY <1>22 DEF DriverStop, disable_interrupts, NVIC_disable, Latch, driver, local, history, Quiescent, Line, Events
<1>23. ASSUME BusNack PROVE HandlerState'
  <2> USE <1>23 DEF BusNack, HwNack, driver, local
  <2>1. pc[Isr] = "entry" => events = {"ERROR"} /\ engine = "rx"
        OBVIOUS
  <2>2. pc[Isr] = "entry" => ~pending'
        BY <2>1 DEF Latch, Line
  <2>3. pending' => events' # {}
        OBVIOUS
  <2> QED
      BY <2>2, <2>3
<1>24. ASSUME BusTxLast PROVE HandlerState'
    BY <1>24 DEF BusTxLast, driver, local, history, HwTxLast, Latch, TxLastEngine,
       EngineStates, KickoffShortcuts, Kinds, Line, Events
<1>25. ASSUME BusTxLastNack PROVE HandlerState'
    BY <1>25, RefusedInTime DEF BusTxLastNack, driver, local, HwTxLast, Latch,
       TxLastEngine, EngineStates, KickoffShortcuts, Kinds, Line, Events
<1>26. ASSUME BusRxLast PROVE HandlerState'
    BY <1>26 DEF BusRxLast, driver, local, history, HwRxLast, KickoffShortcuts, Kinds
<1>27. ASSUME BusStopped PROVE HandlerState'
  <2> USE <1>27 DEF BusStopped, HwStopped, driver, local, history
  <2>1. "ERROR" \notin events /\ pc[Isr] \notin {"halt", "watch", "recheck"}
        BY StoppedInTime
  <2>2. events = {}
        BY <2>1
  <2>4. pc[Isr] \notin HandlerPcs
        BY <2>1, <2>2
  <2>3. pending' => events' # {}
        OBVIOUS
  <2> QED
      BY <2>3, <2>4
<1>28. CASE UNCHANGED vars
    BY <1>28 DEF vars, twim, nvic, driver, local, history
<1>29. ASSUME enableInterrupts \/ disableInterrupts PROVE HandlerState'
    BY <1>29 DEF enableInterrupts, disableInterrupts, enable_interrupts,
       disable_interrupts, NVIC_enable, NVIC_disable, twim, driver, local, history
<1> QED
    BY <1>1, <1>2, <1>3, <1>4, <1>5, <1>6, <1>7, <1>8, <1>9, <1>10, <1>11, <1>12, <1>13,
       <1>14, <1>15, <1>16, <1>17, <1>18, <1>19, <1>20, <1>21, <1>22, <1>23, <1>24, <1>25,
       <1>26, <1>27, <1>28, <1>29 DEF Next, TransferStep,
       IsrStep, BusMoves

LEMMA InitIInv == Init => IInv
<1> SUFFICES ASSUME Init PROVE IInv
    OBVIOUS
<1>1. TypeOK
      BY InitTypeOK
<1>2. \A c \in Contexts : pc[c] \in {"idle", "off"}
      BY DEF Init
<1> QED
    BY <1>1, <1>2, ContextAssumption
    DEF IInv, Init, PeripheralInit, Ownership, QuietUntilStart, OneEvent, HandlerState,
        BeforeStart, HandlerPcs, Quiet, AtRest, Contexts

LEMMA StepIInv == IInv /\ [Next]_vars /\ InTime' => IInv'
BY StepTypeOK, OwnershipStep, QuietUntilStartStep, OneEventStep, HandlerStateStep DEF IInv

\* What has overtaken an error is never forgotten.
LEMMA StaysLate ==
    ASSUME [Next]_vars, InTime' PROVE InTime
BY DEF InTime, Next, vars, history, local, TransferStep, IsrStep, BusMoves, Transfer, TransferBusy,
   StoreActive, StopCondition, QuietInterrupts, EnableInterrupts, ClearEvents, Kickoff,
   LoadErrors, ReturnStatus, IsrEnter, HandleError, HaltTransfer, WatchStopped,
   RecheckStopped, HandleStopped, HandleSuspended, TwimCallback, CallbackReturns, IsrExit,
   DriverStart, DriverStop, enableInterrupts, disableInterrupts, BusNack, BusTxLast,
   BusTxLastNack, BusRxLast, BusStopped

\* The invariant holds until the end of a transfer overtakes an error
\* (twim_helper.cpp: twim_irq_handler_; nrf52_i2c_master.hpp: twim_callback_).
THEOREM Invariance == Spec => [](InTime => IInv)
<1>1. (InTime => IInv) /\ [Next]_vars => (InTime => IInv)'
      BY StepIInv, StaysLate
<1> QED
    BY <1>1, InitIInv, PTL DEF Spec

\* The assertion of twim_callback_: no transfer is completed a second time
\* (nrf52_i2c_master.hpp:242), until an end overtakes an error.
THEOREM NoFailedAssertion == Spec => []NoSecondCompletion
<1>1. IInv => CallbackFindsBusy
    BY ContextAssumption DEF IInv, CallbackFindsBusy, HandlerState, HandlerPcs
<1> QED
    BY <1>1, Invariance, PTL DEF NoSecondCompletion

\* The assertion of twim_irq_handler_: the interrupt is not taken without an event to
\* handle (twim_helper.cpp:124), until an end overtakes an error.
THEOREM AnEventForEveryInterrupt == Spec => []NoSpuriousInterrupt
<1>1. IInv => HandlerFindsEvent
    BY ContextAssumption DEF IInv, HandlerFindsEvent, HandlerState
<1> QED
    BY <1>1, Invariance, PTL DEF NoSpuriousInterrupt

\* When busy_ is clear, EasyDMA is done with every buffer and the peripheral
\* raises no interrupt.
THEOREM BufferReleased == Spec => []FreeMeansQuiet
<1>1. (InTime => IInv) => FreeMeansQuiet
      BY ContextAssumption DEF IInv, FreeMeansQuiet, QuietUntilStart, Quiet
<1> QED
    BY <1>1, Invariance, PTL

\* Every START task finds a bus engine at rest and no stale completion event.
THEOREM StartAccepted == Spec => []StartsOnQuietBus
<1>1. (InTime => IInv) => StartsOnQuietBus
      BY ContextAssumption DEF IInv, StartsOnQuietBus, QuietUntilStart, Quiet, BeforeStart
<1> QED
    BY <1>1, Invariance, PTL

\* The callback that the interrupt invokes is the one of the transfer in flight.
THEOREM RightCallback == Spec => []CallbackToOwner
<1>1. (InTime => IInv) => CallbackToOwner
      BY ContextAssumption DEF IInv, CallbackToOwner, Ownership, HandlerState, HandlerPcs,
       BeforeStart, TypeOK, Contexts
<1> QED
    BY <1>1, Invariance, PTL

-----------------------------------------------------------------------------
(* busy_ means that the transfer will end by itself.                       *)

LEMMA ProgressInvStep ==
    ASSUME IInv, ProgressInv, [Next]_vars, InTime' PROVE ProgressInv'
<1> USE ContextAssumption
    DEF IInv, TypeOK, Contexts, Goto, BeforeStart, HandlerPcs, Ownership,
       QuietUntilStart, HandlerState,
        OneEvent, Quiet, AtRest, ProgressInv
<1>1. ASSUME NEW c \in Contexts, Transfer(c) PROVE ProgressInv'
    BY <1>1 DEF Transfer, CallSite, twim, nvic, MayCall, Runs, Line, Events
<1>2. ASSUME NEW c \in Contexts, TransferBusy(c) PROVE ProgressInv'
    BY <1>2 DEF TransferBusy, CallSite, ReturnSite, twim, nvic, driver, history, MayCall,
       Line, Events
<1>3. ASSUME NEW c \in Contexts, StoreActive(c) PROVE ProgressInv'
    BY <1>3 DEF StoreActive, twim, nvic, history, Line, Events
<1>4. ASSUME NEW c \in Contexts, StopCondition(c) PROVE ProgressInv'
    BY <1>4 DEF StopCondition, ReturnSite, nvic, driver, history, Stop, Line, Events
<1>5. ASSUME NEW c \in Contexts, QuietInterrupts(c) PROVE ProgressInv'
    BY <1>5 DEF QuietInterrupts, driver, history, Line, Events
<1>6. ASSUME NEW c \in Contexts, EnableInterrupts(c) PROVE ProgressInv'
    BY <1>6 DEF EnableInterrupts, driver, history, Completion, Line, Events
<1>7. ASSUME NEW c \in Contexts, ClearEvents(c) PROVE ProgressInv'
    BY <1>7 DEF ClearEvents, driver, history, Completion, Line, Events
<1>8. ASSUME NEW c \in Contexts, Kickoff(c) PROVE ProgressInv'
    BY <1>8 DEF Kickoff, StartTask, nvic, driver, history, KickoffShortcuts, Kinds,
       StartTx, StartRx, Resume, Completion, Line, Events
<1>9. ASSUME NEW c \in Contexts, LoadErrors(c) PROVE ProgressInv'
    BY <1>9 DEF LoadErrors, twim, nvic, driver, history, Line, Events
<1>10. ASSUME NEW c \in Contexts, ReturnStatus(c) PROVE ProgressInv'
    BY <1>10 DEF ReturnStatus, ReturnSite, nvic, driver, Line, Events
<1>11. ASSUME IsrEnter PROVE ProgressInv'
    BY <1>11 DEF IsrEnter, twim, driver, history, Line, Events
<1>12. ASSUME HandleError PROVE ProgressInv'
    BY <1>12 DEF HandleError, driver, history, EngineStates, Line, Events
<1>13. ASSUME HaltTransfer PROVE ProgressInv'
    BY <1>13 DEF HaltTransfer, nvic, driver, history, Stop, Resume, Line, Events
<1>14. ASSUME WatchStopped PROVE ProgressInv'
    BY <1>14 DEF WatchStopped, driver, history, Line, Events
<1>15. ASSUME RecheckStopped PROVE ProgressInv'
    BY <1>15 DEF RecheckStopped, twim, nvic, driver, history, Line, Events
<1>16. ASSUME HandleStopped PROVE ProgressInv'
    BY <1>16 DEF HandleStopped, driver, history, EngineStates, Line, Events
<1>17. ASSUME HandleSuspended PROVE ProgressInv'
    BY <1>17 DEF HandleSuspended, driver, history, EngineStates, Line, Events
<1>18. ASSUME TwimCallback PROVE ProgressInv'
    BY <1>18 DEF TwimCallback, nvic, Line, Events
<1>19. ASSUME CallbackReturns PROVE ProgressInv'
    BY <1>19 DEF CallbackReturns, twim, nvic, driver, history, Line, Events
<1>20. ASSUME IsrExit PROVE ProgressInv'
    BY <1>20 DEF IsrExit, twim, driver, history, Line, Events
<1>21. ASSUME DriverStart PROVE ProgressInv'
    BY <1>21 DEF DriverStart, setCallback, enable_interrupts, NVIC_enable, driver, local,
       history, Quiescent, Line, Events
<1>22. ASSUME DriverStop PROVE ProgressInv'
    BY <1>22 DEF DriverStop, disable_interrupts, NVIC_disable, driver, local, history,
       Quiescent, Line, Events
<1>23. ASSUME BusNack PROVE ProgressInv'
    BY <1>23 DEF BusNack, driver, local, HwNack, Line, Events
<1>24. ASSUME BusTxLast PROVE ProgressInv'
    BY <1>24 DEF BusTxLast, driver, local, history, HwTxLast, TxLastEngine,
       KickoffShortcuts, Kinds, Line, Events
<1>25. ASSUME BusTxLastNack PROVE ProgressInv'
    BY <1>25, RefusedInTime DEF BusTxLastNack, driver, local, HwTxLast,
       TxLastEngine, KickoffShortcuts, Kinds, Line, Events
<1>26. ASSUME BusRxLast PROVE ProgressInv'
    BY <1>26 DEF BusRxLast, driver, local, history, HwRxLast, KickoffShortcuts, Kinds,
       Line, Events
<1>27. ASSUME BusStopped PROVE ProgressInv'
    BY <1>27, StoppedInTime DEF BusStopped, driver, local, history, HwStopped, Line, Events
<1>28. ASSUME UNCHANGED vars PROVE ProgressInv'
    BY <1>28 DEF vars, twim, nvic, driver, local, history, Line, Events
<1>29. ASSUME enableInterrupts \/ disableInterrupts PROVE ProgressInv'
    BY <1>29 DEF enableInterrupts, disableInterrupts, enable_interrupts,
       disable_interrupts, NVIC_enable, NVIC_disable, twim, driver, local, history, Line,
       Events
<1> QED
    BY <1>1, <1>2, <1>3, <1>4, <1>5, <1>6, <1>7, <1>8, <1>9, <1>10, <1>11, <1>12, <1>13,
       <1>14, <1>15, <1>16, <1>17, <1>18, <1>19, <1>20, <1>21, <1>22, <1>23, <1>24, <1>25,
       <1>26, <1>27, <1>28, <1>29
    DEF Next, TransferStep, IsrStep, BusMoves

LEMMA ProgressInvariance == Spec => [](InTime => IInv /\ ProgressInv)
<1>1. Init => ProgressInv
    BY DEF Init, PeripheralInit, ProgressInv
<1>2. (InTime => IInv /\ ProgressInv) /\ [Next]_vars => (InTime => IInv /\ ProgressInv)'
    BY ProgressInvStep, StepIInv, StaysLate
<1> QED
    BY <1>1, <1>2, InitIInv, PTL DEF Spec

\* transfer() answers status::busy (nrf52_i2c_master.hpp:158) only while a transfer
\* is about to start, is on the bus, or has an end that the interrupt is about to
\* handle; stop, restart and stop() with a transfer in flight are the exceptions.
THEOREM BusyIsBusy == Spec => []BusyMeansInFlight
<1>1. (InTime => IInv /\ ProgressInv) => BusyMeansInFlight
    BY DEF ProgressInv, BusyMeansInFlight
<1> QED
    BY <1>1, ProgressInvariance, PTL

-----------------------------------------------------------------------------
(* What the slave refused is told.                                         *)

LEMMA ReportInvStep ==
    ASSUME IInv, ReportInv, [Next]_vars, InTime' PROVE ReportInv'
<1> USE ContextAssumption
    DEF IInv, TypeOK, Contexts, Goto, QuietUntilStart, Quiet, AtRest, ReportInv
<1>1. ASSUME NEW c \in Contexts, Transfer(c) PROVE ReportInv'
    BY <1>1 DEF Transfer, CallSite, twim, nvic, MayCall, Runs, TransferPcs
<1>2. ASSUME NEW c \in Contexts, TransferBusy(c) PROVE ReportInv'
    BY <1>2 DEF TransferBusy, CallSite, ReturnSite, twim, nvic, driver, history, MayCall
<1>3. ASSUME NEW c \in Contexts, StoreActive(c) PROVE ReportInv'
    BY <1>3 DEF StoreActive, twim, nvic, history
<1>4. ASSUME NEW c \in Contexts, StopCondition(c) PROVE ReportInv'
    BY <1>4 DEF StopCondition, ReturnSite, nvic, driver, history, Stop
<1>5. ASSUME NEW c \in Contexts, QuietInterrupts(c) PROVE ReportInv'
    BY <1>5 DEF QuietInterrupts, driver, history
<1>6. ASSUME NEW c \in Contexts, EnableInterrupts(c) PROVE ReportInv'
    BY <1>6 DEF EnableInterrupts, driver, history, Completion
<1>7. ASSUME NEW c \in Contexts, ClearEvents(c) PROVE ReportInv'
    BY <1>7 DEF ClearEvents, driver, history, Completion
<1>8. ASSUME NEW c \in Contexts, Kickoff(c) PROVE ReportInv'
    BY <1>8 DEF Kickoff, StartTask, nvic, driver, history, KickoffShortcuts, Kinds,
       StartTx, StartRx, Resume, Completion
<1>9. ASSUME NEW c \in Contexts, LoadErrors(c) PROVE ReportInv'
    BY <1>9 DEF LoadErrors, twim, nvic, driver, history
<1>10. ASSUME NEW c \in Contexts, ReturnStatus(c) PROVE ReportInv'
    BY <1>10 DEF ReturnStatus, ReturnSite, nvic, driver
<1>11. ASSUME IsrEnter PROVE ReportInv'
    BY <1>11 DEF IsrEnter, twim, driver, history
<1>12. ASSUME HandleError PROVE ReportInv'
    BY <1>12 DEF HandleError, driver, history, EngineStates
<1>13. ASSUME HaltTransfer PROVE ReportInv'
    BY <1>13 DEF HaltTransfer, nvic, driver, history, Stop, Resume
<1>14. ASSUME WatchStopped PROVE ReportInv'
    BY <1>14 DEF WatchStopped, driver, history
<1>15. ASSUME RecheckStopped PROVE ReportInv'
    BY <1>15 DEF RecheckStopped, twim, nvic, driver, history
<1>16. ASSUME HandleStopped PROVE ReportInv'
    BY <1>16 DEF HandleStopped, driver, history, EngineStates
<1>17. ASSUME HandleSuspended PROVE ReportInv'
    BY <1>17 DEF HandleSuspended, driver, history, EngineStates
<1>18. ASSUME TwimCallback PROVE ReportInv'
    BY <1>18 DEF TwimCallback, nvic
<1>19. ASSUME CallbackReturns PROVE ReportInv'
    BY <1>19 DEF CallbackReturns, twim, nvic, driver, history
<1>20. ASSUME IsrExit PROVE ReportInv'
    BY <1>20 DEF IsrExit, twim, driver, history
<1>21. ASSUME DriverStart PROVE ReportInv'
    BY <1>21 DEF DriverStart, setCallback, enable_interrupts, NVIC_enable, driver, local,
       history, Quiescent
<1>22. ASSUME DriverStop PROVE ReportInv'
    BY <1>22 DEF DriverStop, disable_interrupts, NVIC_disable, driver, local, history,
       Quiescent
<1>23. ASSUME BusNack PROVE ReportInv'
    BY <1>23 DEF BusNack, driver, local, HwNack, ErrorSources
<1>24. ASSUME BusTxLast PROVE ReportInv'
    BY <1>24 DEF BusTxLast, driver, local, history, HwTxLast, TxLastEngine,
       KickoffShortcuts, Kinds
<1>25. ASSUME BusTxLastNack PROVE ReportInv'
    BY <1>25, RefusedInTime DEF BusTxLastNack, driver, local, HwTxLast,
       TxLastEngine, KickoffShortcuts, Kinds, ErrorSources
<1>26. ASSUME BusRxLast PROVE ReportInv'
    BY <1>26 DEF BusRxLast, driver, local, history, HwRxLast, KickoffShortcuts, Kinds
<1>27. ASSUME BusStopped PROVE ReportInv'
    BY <1>27, StoppedInTime DEF BusStopped, driver, local, history, HwStopped
<1>28. ASSUME UNCHANGED vars PROVE ReportInv'
    BY <1>28 DEF vars, twim, nvic, driver, local, history
<1>29. ASSUME enableInterrupts \/ disableInterrupts PROVE ReportInv'
    BY <1>29 DEF enableInterrupts, disableInterrupts, enable_interrupts,
       disable_interrupts, NVIC_enable, NVIC_disable, twim, driver, local, history
<1> QED
    BY <1>1, <1>2, <1>3, <1>4, <1>5, <1>6, <1>7, <1>8, <1>9, <1>10, <1>11, <1>12, <1>13,
       <1>14, <1>15, <1>16, <1>17, <1>18, <1>19, <1>20, <1>21, <1>22, <1>23, <1>24, <1>25,
       <1>26, <1>27, <1>28, <1>29
    DEF Next, TransferStep, IsrStep, BusMoves

LEMMA ReportInvariance == Spec => [](InTime => IInv /\ ReportInv)
<1>1. Init => ReportInv
    BY DEF Init, PeripheralInit, ReportInv
<1>2. (InTime => IInv /\ ReportInv) /\ [Next]_vars => (InTime => IInv /\ ReportInv)'
    BY ReportInvStep, StepIInv, StaysLate
<1> QED
    BY <1>1, <1>2, InitIInv, PTL DEF Spec

\* Between the status that transfer() returns and the status of the callback, an
\* error of the transfer is told, and none is made up: both read and clear ERRORSRC
\* (get_converted_error), the interrupt at any time in between.
THEOREM ErrorsTold == Spec => []ErrorReported
<1>1. (InTime => IInv /\ ReportInv) => ErrorReported
    BY ContextAssumption DEF IInv, TypeOK, ReportInv, ErrorReported, Quiescent, Contexts,
       TransferPcs
<1> QED
    BY <1>1, ReportInvariance, PTL

-----------------------------------------------------------------------------
(* The contract of an I2C master.                                          *)

LEMMA SettledInvStep ==
    ASSUME OrderlyUse, IInv, SettledInv, [Next]_vars, InTime' PROVE SettledInv'
<1> USE ContextAssumption
    DEF IInv, TypeOK, Contexts, Goto, BeforeStart, HandlerPcs, Ownership,
       QuietUntilStart, HandlerState,
        OneEvent, Quiet, AtRest, OrderlyUse, SettledInv
<1>1. ASSUME NEW c \in Contexts, Transfer(c) PROVE SettledInv'
    BY <1>1 DEF Transfer, CallSite, twim, nvic, MayCall, Runs
<1>2. ASSUME NEW c \in Contexts, TransferBusy(c) PROVE SettledInv'
    BY <1>2 DEF TransferBusy, CallSite, ReturnSite, twim, nvic, driver, history, MayCall
<1>3. ASSUME NEW c \in Contexts, StoreActive(c) PROVE SettledInv'
    BY <1>3 DEF StoreActive, twim, nvic, history
<1>4. ASSUME NEW c \in Contexts, StopCondition(c) PROVE SettledInv'
    BY <1>4 DEF StopCondition, ReturnSite, nvic, driver, history, Stop
<1>5. ASSUME NEW c \in Contexts, QuietInterrupts(c) PROVE SettledInv'
    BY <1>5 DEF QuietInterrupts, driver, history
<1>6. ASSUME NEW c \in Contexts, EnableInterrupts(c) PROVE SettledInv'
    BY <1>6 DEF EnableInterrupts, driver, history, Completion
<1>7. ASSUME NEW c \in Contexts, ClearEvents(c) PROVE SettledInv'
    BY <1>7 DEF ClearEvents, driver, history, Completion
<1>8. ASSUME NEW c \in Contexts, Kickoff(c) PROVE SettledInv'
    BY <1>8 DEF Kickoff, StartTask, nvic, driver, history, KickoffShortcuts, Kinds,
       StartTx, StartRx, Resume, Completion
<1>9. ASSUME NEW c \in Contexts, LoadErrors(c) PROVE SettledInv'
    BY <1>9 DEF LoadErrors, twim, nvic, driver, history
<1>10. ASSUME NEW c \in Contexts, ReturnStatus(c) PROVE SettledInv'
    BY <1>10 DEF ReturnStatus, ReturnSite, nvic, driver
<1>11. ASSUME IsrEnter PROVE SettledInv'
    BY <1>11 DEF IsrEnter, twim, driver, history
<1>12. ASSUME HandleError PROVE SettledInv'
    BY <1>12 DEF HandleError, driver, history, EngineStates, Events
<1>13. ASSUME HaltTransfer PROVE SettledInv'
    BY <1>13 DEF HaltTransfer, nvic, driver, history, Stop, Resume
<1>14. ASSUME WatchStopped PROVE SettledInv'
    BY <1>14 DEF WatchStopped, driver, history
<1>15. ASSUME RecheckStopped PROVE SettledInv'
    BY <1>15 DEF RecheckStopped, twim, nvic, driver, history
<1>16. ASSUME HandleStopped PROVE SettledInv'
    BY <1>16 DEF HandleStopped, driver, history, EngineStates
<1>17. ASSUME HandleSuspended PROVE SettledInv'
    BY <1>17 DEF HandleSuspended, driver, history, EngineStates
<1>18. ASSUME TwimCallback PROVE SettledInv'
    BY <1>18 DEF TwimCallback, nvic
<1>19. ASSUME CallbackReturns PROVE SettledInv'
    BY <1>19 DEF CallbackReturns, twim, nvic, driver, history
<1>20. ASSUME IsrExit PROVE SettledInv'
    BY <1>20 DEF IsrExit, twim, driver, history
<1>21. ASSUME DriverStart PROVE SettledInv'
    BY <1>21 DEF DriverStart, setCallback, enable_interrupts, NVIC_enable, driver, local,
       history, Quiescent
<1>22. ASSUME DriverStop PROVE SettledInv'
    BY <1>22 DEF DriverStop, disable_interrupts, NVIC_disable, driver, local, history,
       Quiescent
<1>23. ASSUME BusNack PROVE SettledInv'
    BY <1>23 DEF BusNack, driver, local, HwNack
<1>24. ASSUME BusTxLast PROVE SettledInv'
    BY <1>24 DEF BusTxLast, driver, local, history, HwTxLast, TxLastEngine,
       KickoffShortcuts, Kinds
<1>25. ASSUME BusTxLastNack PROVE SettledInv'
    BY <1>25, RefusedInTime DEF BusTxLastNack, driver, local, HwTxLast,
       TxLastEngine, KickoffShortcuts, Kinds
<1>26. ASSUME BusRxLast PROVE SettledInv'
    BY <1>26 DEF BusRxLast, driver, local, history, HwRxLast, KickoffShortcuts, Kinds
<1>27. ASSUME BusStopped PROVE SettledInv'
    BY <1>27, StoppedInTime DEF BusStopped, driver, local, history, HwStopped
<1>28. ASSUME UNCHANGED vars PROVE SettledInv'
    BY <1>28 DEF vars, twim, nvic, driver, local, history
<1>29. ASSUME enableInterrupts \/ disableInterrupts PROVE SettledInv'
    BY <1>29 DEF enableInterrupts, disableInterrupts, enable_interrupts,
       disable_interrupts, NVIC_enable, NVIC_disable, twim, driver, local, history
<1> QED
    BY <1>1, <1>2, <1>3, <1>4, <1>5, <1>6, <1>7, <1>8, <1>9, <1>10, <1>11, <1>12, <1>13,
       <1>14, <1>15, <1>16, <1>17, <1>18, <1>19, <1>20, <1>21, <1>22, <1>23, <1>24, <1>25,
       <1>26, <1>27, <1>28, <1>29
    DEF Next, TransferStep, IsrStep, BusMoves

LEMMA SettledInvariance == OrderlyUse => (Spec => [](InTime => IInv /\ SettledInv))
<1> SUFFICES ASSUME OrderlyUse PROVE Spec => [](InTime => IInv /\ SettledInv)
    OBVIOUS
<1>1. Init => SettledInv
    BY ContextAssumption DEF Init, PeripheralInit, SettledInv, Contexts
<1>2. (InTime => IInv /\ SettledInv) /\ [Next]_vars => (InTime => IInv /\ SettledInv)'
    BY SettledInvStep, StepIInv, StaysLate
<1> QED
    BY <1>1, <1>2, InitIInv, PTL DEF Spec

LEMMA InitContract == Init => Contract!Init
BY DEF Init, Contract!Init, Phase

\* A step that neither takes the bus engine out of its phase nor the transfer.
LEMMA Unseen ==
    ASSUME UNCHANGED <<busy_, owner, called>>,
           (\E c \in Contexts : pc'[c] \in BeforeStart) <=>
               (\E c \in Contexts : pc[c] \in BeforeStart),
           (engine \in AtRest) <=> (engine' \in AtRest)
    PROVE  UNCHANGED Contract!vars
BY DEF Phase, Contract!vars

LEMMA StepContract ==
    ASSUME OrderlyUse, IInv, SettledInv, [Next]_vars, InTime'
    PROVE  [Contract!Next]_Contract!vars
<1> USE ContextAssumption
    DEF IInv, TypeOK, Contexts, Goto, BeforeStart, HandlerPcs, Ownership, QuietUntilStart,
        HandlerState, OneEvent, Quiet, AtRest
<1>1. ASSUME NEW c \in Contexts, Transfer(c) PROVE Contract!Accept(c)
    BY <1>1 DEF Transfer, Phase, Contract!Accept
<1>2. ASSUME NEW c \in Contexts, TransferBusy(c) PROVE UNCHANGED Contract!vars
    BY <1>2, Unseen DEF TransferBusy, CallSite, ReturnSite, twim, driver, history
<1>3. ASSUME NEW c \in Contexts,
             StoreActive(c) \/ QuietInterrupts(c) \/ EnableInterrupts(c) \/ ClearEvents(c)
      PROVE  UNCHANGED Contract!vars
    BY <1>3, Unseen DEF StoreActive, QuietInterrupts, EnableInterrupts, ClearEvents, twim,
       driver, history
<1>4. ASSUME NEW c \in Contexts PROVE ~StopCondition(c)
    BY DEF StopCondition, SettledInv
<1>5. ASSUME NEW c \in Contexts, Kickoff(c) PROVE Contract!Move
  <2>1. engine' \in {"tx", "rx"} /\ \A d \in Contexts : pc'[d] \notin BeforeStart
    BY <1>5 DEF Kickoff, StartTask, StartTx, StartRx, Resume
  <2>2. busy_ /\ UNCHANGED <<busy_, owner, called>>
    BY <1>5 DEF Kickoff, driver, history
  <2>3. Phase = "accepted"
    BY <1>5, <2>2 DEF Kickoff, Phase
  <2>4. Phase' = "moving"
    BY <2>1, <2>2 DEF Phase
  <2> QED
    BY <2>2, <2>3, <2>4 DEF Contract!Move
<1>6. ASSUME NEW c \in Contexts, LoadErrors(c) \/ ReturnStatus(c)
      PROVE  UNCHANGED Contract!vars
    BY <1>6, Unseen DEF LoadErrors, ReturnStatus, ReturnSite, twim, driver, history
<1>7. ASSUME IsrEnter \/ HandleError \/ WatchStopped \/ RecheckStopped \/ HandleStopped
             \/ HandleSuspended \/ CallbackReturns \/ IsrExit
      PROVE  UNCHANGED Contract!vars
    BY <1>7, Unseen DEF IsrEnter, HandleError, WatchStopped, RecheckStopped, HandleStopped,
       HandleSuspended, CallbackReturns, IsrExit, twim, driver, history
<1>8. ASSUME HaltTransfer PROVE UNCHANGED Contract!vars
    BY <1>8, Unseen DEF HaltTransfer, Stop, Resume, SettledInv, driver, history
<1>9. ASSUME TwimCallback PROVE Contract!Complete
    BY <1>9 DEF TwimCallback, Phase, Contract!Complete
<1>10. ASSUME DriverStart \/ enableInterrupts \/ disableInterrupts
       PROVE  UNCHANGED Contract!vars
    BY <1>10, Unseen DEF DriverStart, enableInterrupts, disableInterrupts, twim, driver,
       local, history
<1>11. ASSUME DriverStop PROVE UNCHANGED Contract!vars
    BY <1>11, Unseen DEF DriverStop, OrderlyUse, driver, local
<1>12. ASSUME BusMoves \/ BusStopped PROVE Contract!Settle \/ UNCHANGED Contract!vars
  <2>1. UNCHANGED <<busy_, owner, called, pc>> /\ engine \notin AtRest
    BY <1>12 DEF BusMoves, BusNack, HwNack, BusTxLast, BusTxLastNack, HwTxLast, BusRxLast,
       HwRxLast, BusStopped, HwStopped, driver, local, history
  <2>2. Phase = "moving"
    BY <2>1 DEF Phase
  <2>3. Phase' \in {"moving", "settled"}
    BY <2>1 DEF Phase
  <2> QED
    BY <2>1, <2>2, <2>3 DEF Contract!Settle, Contract!vars
<1>13. CASE UNCHANGED vars
    BY <1>13, Unseen DEF vars, twim, driver, local, history
<1> QED
    BY <1>1, <1>2, <1>3, <1>4, <1>5, <1>6, <1>7, <1>8, <1>9, <1>10, <1>11, <1>12, <1>13
    DEF Next, TransferStep, IsrStep, Contract!Next

\* The non-blocking driver keeps the contract of an I2C master: it holds one transfer
\* at a time, moves its data, settles it on the bus, gives the bus back and calls its
\* own client's callback, in this order, whatever preempts what.
THEOREM KeepsContract == OrderlyUse => (Spec => ContractSpec)
<1> SUFFICES ASSUME OrderlyUse PROVE Spec => ContractSpec
    OBVIOUS
<1>1. (InTime => IInv /\ SettledInv) /\ [Next]_vars
          => [~InTime' \/ Contract!Next]_Contract!vars
    BY StepContract, StaysLate
<1> QED
    BY <1>1, InitContract, SettledInvariance, PTL DEF Spec, ContractSpec
=============================================================================
