----------------------------- MODULE TwimMaster -----------------------------
(***************************************************************************)
(* The non-blocking nRF52 I2C master: nRFi2cMaster<..., TBlocking = false> *)
(* of nrf52_i2c_master.hpp on the helpers of twim_helper.cpp, over the     *)
(* peripheral of TwimPeripheral and the kickoffs of TwimKickoff.           *)
(*                                                                         *)
(* Tasks call transfer(); the TWIM interrupt (context Isr) completes the   *)
(* transfers and calls the users' callbacks, which may call transfer()     *)
(* again.  Every context has a program counter, and the driver may be      *)
(* preempted between any two of its steps: a task by another task and by   *)
(* the interrupt, the interrupt by nothing.  The bus moves at any time.    *)
(*                                                                         *)
(* owner, called, nacked, told, mixed, stranded and overtaken are history  *)
(* variables: whose transfer holds busy_, whose callback was invoked last, *)
(* whether the slave refused a byte of the transfer, whether the driver    *)
(* said so, whether an earlier call had not returned when the transfer     *)
(* began, whether nothing on the bus will end the transfer that holds      *)
(* busy_, and which ends of a transfer have come, ever, while an error of  *)
(* it was still to be handled.                                             *)
(***************************************************************************)
EXTENDS TwimKickoff

CONSTANTS
    Tasks,             \* threads that share the driver
    Isr,               \* the interrupt context
    None,              \* no context: an empty callback
    Ops,               \* embvm::i2c::operation values the users ask for
    ReissueInCallback, \* callbacks call transfer() from the interrupt
    StopInFlight,      \* stop() is called with a transfer in flight
    MaskedByTasks      \* tasks call disableInterrupts() and enableInterrupts()

ASSUME ContextAssumption == /\ Isr \notin Tasks
                            /\ None \notin Tasks \cup {Isr}
ASSUME OpsAssumption == Ops \subseteq DOMAIN OpKind
ASSUME UseAssumption == {ReissueInCallback, StopInFlight, MaskedByTasks} \subseteq BOOLEAN

Contexts == Tasks \cup {Isr}

VARIABLES
    twim_callback, \* twim0_callback is set
    busy_,    \* busy_
    active_,  \* active_cb_ and active_op_: the context they were stored for
    pc,       \* what each context executes next
    kind,     \* the kind of the transfer each context asks for
    error,    \* the local of get_errorsrc_ in each context
    owner, called, nacked, told, mixed, stranded, overtaken

driver  == <<twim_callback, busy_, active_>>
local   == <<pc, kind, error>>
history == <<owner, called, nacked, told, mixed, stranded, overtaken>>
vars    == <<twim, nvic, driver, local, history>>

TransferPcs == {"store", "stop", "quiet", "enable", "clear", "start", "load", "return"}
HandlerPcs == {"entry", "halt", "watch", "recheck", "notify"}
IsrPcs == HandlerPcs \cup {"callback", "exit"}

\* The steps of a transfer before its START task: busy_ is held and the bus
\* does not move yet.
BeforeStart == {"store", "stop", "quiet", "enable", "clear", "start"}

Init ==
    /\ PeripheralInit
    /\ twim_callback = FALSE /\ busy_ = FALSE /\ active_ = None
    /\ pc = [c \in Contexts |-> IF c = Isr THEN "off" ELSE "idle"]
    /\ kind = [c \in Contexts |-> "tx"]
    /\ error = [c \in Contexts |-> {}]
    /\ owner = None /\ called = None /\ nacked = FALSE /\ told = FALSE
    /\ mixed = FALSE /\ stranded = FALSE /\ overtaken = {}

\* The interrupt preempts every task.
Runs(c) == c = Isr \/ pc[Isr] = "off"

Goto(c, from, to) == /\ Runs(c)
                     /\ pc[c] = from
                     /\ pc' = [pc EXCEPT ![c] = to]

-----------------------------------------------------------------------------
(* transfer(): transfer_impl_ and the xx_transfer helper it calls.         *)

\* Where a call of transfer() is made, and where it returns to.
CallSite(c) == IF c = Isr THEN "callback" ELSE "idle"
ReturnSite(c) == IF c = Isr THEN "exit" ELSE "idle"

MayCall(c) == /\ enabled
              /\ c = Isr => ReissueInCallback

\* Mutant: busy_ is set without being compared.
TransferWithoutSwap(c) ==
    /\ MayCall(c)
    /\ Goto(c, CallSite(c), "store")
    /\ busy_' = TRUE
    /\ \E op \in Ops : kind' = [kind EXCEPT ![c] = OpKind[op]]
    /\ owner' = c /\ nacked' = FALSE /\ told' = FALSE
    /\ mixed' = \E d \in Contexts : pc[d] \in TransferPcs
    /\ UNCHANGED <<twim, nvic, twim_callback, active_, error, called, stranded, overtaken>>

\* The compare-and-swap succeeds.
Transfer(c) ==
    /\ MayCall(c) /\ ~busy_
    /\ Goto(c, CallSite(c), "store")
    /\ busy_' = TRUE
    /\ \E op \in Ops : kind' = [kind EXCEPT ![c] = OpKind[op]]
    /\ owner' = c /\ nacked' = FALSE /\ told' = FALSE
    /\ mixed' = \E d \in Contexts : pc[d] \in TransferPcs
    /\ UNCHANGED <<twim, nvic, twim_callback, active_, error, called, stranded, overtaken>>

\* Mutant: the callback is stored before busy_ is compared.
TransferBusyStores(c) ==
    /\ MayCall(c) /\ busy_
    /\ Goto(c, CallSite(c), ReturnSite(c))
    /\ active_' = c
    /\ UNCHANGED <<twim, nvic, twim_callback, busy_, kind, error, history>>

\* It fails: status::busy, and nothing else happens.
TransferBusy(c) ==
    /\ MayCall(c) /\ busy_
    /\ Goto(c, CallSite(c), ReturnSite(c))
    /\ UNCHANGED <<twim, nvic, driver, kind, error, history>>

StoreActive(c) ==
    /\ Goto(c, "store", IF kind[c] = "stop" THEN "stop" ELSE "quiet")
    /\ active_' = c
    /\ UNCHANGED <<twim, nvic, twim_callback, busy_, kind, error, history>>

\* operation::stop and operation::restart only trigger the STOP task.
StopCondition(c) ==
    /\ Goto(c, "stop", ReturnSite(c))
    /\ engine' = Stop(engine)
    /\ stranded' = TRUE
    /\ UNCHANGED <<enabled, events, inten, shorts, errorsrc, nvic, driver, kind, error,
                   owner, called, nacked, told, mixed, overtaken>>

\* interrupts_disable_; the buffer registers are then loaded.
QuietInterrupts(c) ==
    /\ Goto(c, "quiet", "enable")
    /\ inten' = {}
    /\ UNCHANGED <<enabled, engine, events, shorts, errorsrc, nvicEnabled, driver, kind,
                   error, history>>
    /\ Latch

EnableInterrupts(c) ==
    /\ Goto(c, "enable", "clear")
    /\ inten' = inten \cup {"ERROR", Completion(kind[c])}
    /\ UNCHANGED <<enabled, engine, events, shorts, errorsrc, nvicEnabled, driver, kind,
                   error, history>>
    /\ Latch

\* The first half of kickoff_xx: stale events go, the shortcuts are set.
ClearEvents(c) ==
    /\ Goto(c, "clear", "start")
    /\ events' = events \ {"STOPPED", "ERROR", Completion(kind[c])}
    /\ shorts' = KickoffShortcuts[kind[c]]
    /\ UNCHANGED <<enabled, engine, inten, errorsrc, nvicEnabled, driver, kind, error,
                   history>>
    /\ Latch

\* The second half: RESUME and the START task.
Kickoff(c) ==
    /\ Goto(c, "start", "load")
    /\ engine' = StartTask(kind[c])
    /\ UNCHANGED <<enabled, events, inten, shorts, errorsrc, nvic, driver, kind, error,
                   history>>

\* get_converted_error: ERRORSRC is loaded, then what was read is written back
\* to clear it, and a NACK becomes the status that transfer() returns.
LoadErrors(c) ==
    /\ Goto(c, "load", "return")
    /\ error' = [error EXCEPT ![c] = errorsrc]
    /\ UNCHANGED <<twim, nvic, driver, kind, history>>

\* Mutant: status::enqueued is returned whatever was read and cleared.
ReturnEnqueued(c) ==
    /\ Goto(c, "return", ReturnSite(c))
    /\ errorsrc' = errorsrc \ error[c]
    /\ error' = [error EXCEPT ![c] = {}]
    /\ UNCHANGED <<enabled, engine, events, inten, shorts, nvic, driver, kind, history>>

ReturnStatus(c) ==
    /\ Goto(c, "return", ReturnSite(c))
    /\ errorsrc' = errorsrc \ error[c]
    /\ error' = [error EXCEPT ![c] = {}]
    /\ told' = (told \/ error[c] # {})
    /\ UNCHANGED <<enabled, engine, events, inten, shorts, nvic, driver, kind,
                   owner, called, nacked, mixed, stranded, overtaken>>

TransferStep(c) ==
    \/ StoreActive(c) \/ StopCondition(c)
    \/ QuietInterrupts(c) \/ EnableInterrupts(c) \/ ClearEvents(c) \/ Kickoff(c)
    \/ LoadErrors(c) \/ ReturnStatus(c)

-----------------------------------------------------------------------------
(* The interrupt: twim_irq_handler_ and the driver's twim_callback_.       *)

IsrEnter ==
    /\ pending /\ nvicEnabled
    /\ Goto(Isr, "off", "entry")
    /\ pending' = FALSE
    /\ UNCHANGED <<twim, nvicEnabled, driver, kind, error, history>>

\* handle_error_event_: unless the STOP condition is already complete, it is
\* asked for.
HandleError ==
    /\ Goto(Isr, "entry", IF "STOPPED" \in events THEN "watch" ELSE "halt")
    /\ "ERROR" \in events
    /\ events' = events \ {"ERROR"}
    /\ UNCHANGED <<enabled, engine, inten, shorts, errorsrc, nvicEnabled, driver, kind,
                   error, history>>
    /\ Latch

\* Mutant: the error handler resumes the transfer and forgets the STOP task.
HaltWithoutStop ==
    /\ Goto(Isr, "halt", "watch")
    /\ engine' = Resume(engine)
    /\ UNCHANGED <<enabled, events, inten, shorts, errorsrc, nvic, driver, kind, error,
                   history>>

HaltTransfer ==
    /\ Goto(Isr, "halt", "watch")
    /\ engine' = Stop(Resume(engine))
    /\ UNCHANGED <<enabled, events, inten, shorts, errorsrc, nvic, driver, kind, error,
                   history>>

WatchStopped ==
    /\ Goto(Isr, "watch", "recheck")
    /\ inten' = inten \cup {"STOPPED"}
    /\ UNCHANGED <<enabled, engine, events, shorts, errorsrc, nvicEnabled, driver, kind,
                   error, history>>
    /\ Latch

\* Mutant: the early return is missing, an error completes the transfer at once.
RecheckIgnored ==
    /\ Goto(Isr, "recheck", "notify")
    /\ UNCHANGED <<twim, nvic, driver, kind, error, history>>

\* "If we aren't stopped, wait until we are."
RecheckStopped ==
    /\ Goto(Isr, "recheck", IF "STOPPED" \in events THEN "notify" ELSE "exit")
    /\ UNCHANGED <<twim, nvic, driver, kind, error, history>>

\* Mutant: the STOPPED event is not cleared, nor its interrupt disabled.
HandleStoppedLeavesEvent ==
    /\ Goto(Isr, "entry", "notify")
    /\ "ERROR" \notin events /\ "STOPPED" \in events
    /\ shorts' = {}
    /\ UNCHANGED <<enabled, engine, events, inten, errorsrc, nvic, driver, kind, error,
                   history>>

\* Mutant: the interrupts stay enabled after the transfer.
HandleStoppedLeavesInterrupts ==
    /\ Goto(Isr, "entry", "notify")
    /\ "ERROR" \notin events /\ "STOPPED" \in events
    /\ events' = events \ {"STOPPED"}
    /\ shorts' = {}
    /\ UNCHANGED <<enabled, engine, inten, errorsrc, nvicEnabled, driver, kind, error,
                   history>>
    /\ Latch

HandleStopped ==
    /\ Goto(Isr, "entry", "notify")
    /\ "ERROR" \notin events /\ "STOPPED" \in events
    /\ events' = events \ {"STOPPED"}
    /\ shorts' = {} /\ inten' = {}
    /\ UNCHANGED <<enabled, engine, errorsrc, nvicEnabled, driver, kind, error, history>>
    /\ Latch

\* Mutant: the SUSPENDED event is left for the next transfer to clear.
HandleSuspendedLeavesEvent ==
    /\ Goto(Isr, "entry", "notify")
    /\ events = {"SUSPENDED"}
    /\ shorts' = {} /\ inten' = {}
    /\ UNCHANGED <<enabled, engine, events, errorsrc, nvicEnabled, driver, kind, error,
                   history>>
    /\ Latch

\* "We treat suspended like done to allow the no_stop case"
HandleSuspended ==
    /\ Goto(Isr, "entry", "notify")
    /\ events = {"SUSPENDED"}
    /\ events' = {}
    /\ shorts' = {} /\ inten' = {}
    /\ UNCHANGED <<enabled, engine, errorsrc, nvicEnabled, driver, kind, error, history>>
    /\ Latch

\* invoke_callback_ and twim_callback_: the error is read and cleared, the
\* stored callback is moved out, the bus is released and the callback called.
\* The compare-and-swap, whose success is asserted, needs busy_; start_() has set
\* twim_callback before it enabled the interrupt.
TwimCallback ==
    /\ Goto(Isr, "notify", "callback")
    /\ twim_callback /\ busy_
    /\ errorsrc' = {}
    /\ busy_' = FALSE /\ active_' = None
    /\ owner' = None /\ called' = active_
    /\ told' = (told \/ errorsrc # {})
    /\ stranded' = FALSE
    /\ UNCHANGED <<enabled, engine, events, inten, shorts, nvic, twim_callback, kind,
                   error, nacked, mixed, overtaken>>

\* The callback returns without a new transfer.
CallbackReturns ==
    /\ Goto(Isr, "callback", "exit")
    /\ UNCHANGED <<twim, nvic, driver, kind, error, history>>

\* The NVIC pends the interrupt again while its line is active.
IsrExit ==
    /\ Goto(Isr, "exit", "off")
    /\ pending' = (pending \/ Line(events, inten))
    /\ UNCHANGED <<twim, nvicEnabled, driver, kind, error, history>>

IsrStep ==
    \/ IsrEnter
    \/ HandleError \/ HaltTransfer \/ WatchStopped \/ RecheckStopped
    \/ HandleStopped \/ HandleSuspended
    \/ TwimCallback \/ CallbackReturns \/ IsrExit

-----------------------------------------------------------------------------
(* start() and stop(), called while no call of transfer() is under way.    *)

Quiescent == /\ pc[Isr] = "off"
             /\ \A t \in Tasks : pc[t] = "idle"

\* The helpers of the translator.
enable_interrupts  == NVIC_enable
disable_interrupts == NVIC_disable
setCallback        == twim_callback' = TRUE

DriverStart ==
    /\ Quiescent /\ ~enabled
    /\ enabled' = TRUE
    /\ setCallback
    /\ enable_interrupts
    /\ UNCHANGED <<engine, events, inten, shorts, errorsrc, pending, busy_, active_,
                   local, history>>

DriverStop ==
    /\ Quiescent /\ enabled
    /\ StopInFlight \/ ~busy_
    /\ disable_interrupts
    /\ inten' = {} /\ shorts' = {}
    /\ enabled' = FALSE /\ engine' = "idle"
    /\ stranded' = busy_
    /\ UNCHANGED <<events, errorsrc, driver, local, owner, called, nacked, told, mixed, overtaken>>
    /\ Latch

\* The methods of the same name, which a task may call at any time to keep the
\* interrupt out for a while.
enableInterrupts ==
    /\ MaskedByTasks /\ pc[Isr] = "off" /\ enabled
    /\ enable_interrupts
    /\ UNCHANGED <<twim, pending, driver, local, history>>

disableInterrupts ==
    /\ MaskedByTasks /\ pc[Isr] = "off" /\ enabled
    /\ disable_interrupts
    /\ UNCHANGED <<twim, pending, driver, local, history>>

-----------------------------------------------------------------------------
(* The bus, under the transfers of the driver.                             *)

BusNack ==
    /\ HwNack
    /\ nacked' = TRUE
    /\ UNCHANGED <<driver, local, owner, called, told, mixed, stranded, overtaken>>

BusTxLast ==
    /\ HwTxLast(FALSE)
    /\ UNCHANGED <<driver, local, history>>

\* The last byte of a write without stop ends the transfer as it is refused:
\* ERROR and SUSPENDED are set at once.
BusTxLastNack ==
    /\ HwTxLast(TRUE)
    /\ nacked' = TRUE
    /\ overtaken' = overtaken \cup
                      (IF TxLastEngine = "suspended" THEN {"SUSPENDED"} ELSE {})
    /\ UNCHANGED <<driver, local, owner, called, told, mixed, stranded>>

BusRxLast ==
    /\ HwRxLast
    /\ UNCHANGED <<driver, local, history>>

\* The bus waits for nobody: the STOP condition may be complete before an error
\* of the transfer is handled, because the interrupt is late or masked, and while
\* the error branch is at work.
BusStopped ==
    /\ HwStopped
    /\ overtaken' = overtaken \cup
          (IF "ERROR" \in events \/ pc[Isr] \in {"halt", "watch", "recheck"}
           THEN {"STOPPED"} ELSE {})
    /\ UNCHANGED <<driver, local, owner, called, nacked, told, mixed, stranded>>

BusMoves == BusNack \/ BusTxLast \/ BusTxLastNack \/ BusRxLast

-----------------------------------------------------------------------------
Next ==
    \/ \E c \in Contexts : Transfer(c) \/ TransferBusy(c) \/ TransferStep(c)
    \/ IsrStep
    \/ DriverStart \/ DriverStop
    \/ enableInterrupts \/ disableInterrupts
    \/ BusMoves \/ BusStopped

Spec == Init /\ [][Next]_vars

\* The scheduler resumes a preempted task, who disabled the interrupt enables it
\* again, the interrupt is served at the latest when it is enabled again and
\* again, its callback returns, and the bus goes on.  Nobody has to start a
\* transfer.
Fairness == /\ \A c \in Contexts : WF_vars(TransferStep(c))
            /\ WF_vars(enableInterrupts)
            /\ SF_vars(IsrStep)
            /\ WF_vars(BusMoves)
            /\ WF_vars(BusStopped)

FairSpec == Spec /\ Fairness

-----------------------------------------------------------------------------
(* Properties.                                                             *)

\* The registers, the driver's state and the program counters keep their
\* types (the fields of twim_helper_.hpp and nrf52_i2c_master.hpp:248-251).
TypeOK ==
    /\ enabled \in BOOLEAN /\ nvicEnabled \in BOOLEAN /\ pending \in BOOLEAN
    /\ twim_callback \in BOOLEAN /\ busy_ \in BOOLEAN /\ nacked \in BOOLEAN /\ told \in BOOLEAN
    /\ mixed \in BOOLEAN /\ stranded \in BOOLEAN /\ overtaken \subseteq {"STOPPED", "SUSPENDED"}
    /\ engine \in EngineStates
    /\ events \subseteq Events /\ inten \subseteq Events
    /\ shorts \subseteq Shortcuts /\ errorsrc \subseteq ErrorSources
    /\ active_ \in Contexts \cup {None}
    /\ owner \in Contexts \cup {None} /\ called \in Contexts \cup {None}
    /\ pc \in [Contexts -> TransferPcs \cup IsrPcs \cup {"idle", "off"}]
    /\ \A t \in Tasks : pc[t] \in TransferPcs \cup {"idle"}
    /\ pc[Isr] # "idle"
    /\ kind \in [Contexts -> Kinds]
    /\ error \in [Contexts -> SUBSET ErrorSources]

\* No end of a transfer has come yet while an error of it was still to be handled.
InTime == overtaken = {}

\* The assertion of nrf52_i2c_master.hpp:242: when the interrupt is about to
\* call back, a transfer is in flight, so its compare-and-swap succeeds.
CallbackFindsBusy == pc[Isr] = "notify" => busy_

\* The assertion of twim_helper.cpp:124: the interrupt is never taken without
\* an event that it handles.  A program that fails either assertion halts.
HandlerFindsEvent == pc[Isr] = "entry" => events # {}

\* The same while the STOP condition of a transfer is never complete before its
\* error is handled.
PromptHandlerFindsEvent == "STOPPED" \notin overtaken => HandlerFindsEvent

\* Neither assertion holds on every bus: the error branch leaves the event of a
\* transfer that ended meanwhile.  Until the first time an end overtakes an error
\* no transfer is completed twice
NoSecondCompletion == InTime => CallbackFindsBusy

\* and no interrupt is taken for nothing, whatever the users ask for and whoever
\* masks the interrupt.  The properties that follow are under the same condition.
NoSpuriousInterrupt == InTime => HandlerFindsEvent

\* While busy_ is clear nobody's buffer is in the hands of EasyDMA and the
\* peripheral raises no interrupt: the user may reuse the buffer, and the next
\* transfer starts on a quiet bus.
FreeMeansQuiet == InTime /\ ~busy_ => engine \in AtRest /\ inten = {}

\* The START task is only triggered on a bus engine that takes it, with no
\* completion event left over that would complete the new transfer at once.
StartsOnQuietBus ==
    InTime =>
        \A c \in Contexts :
            pc[c] = "start" => engine \in AtRest /\ Completion(kind[c]) \notin events

\* The interrupt calls back the user whose transfer holds the bus, never one
\* of an earlier or of a refused transfer.
CallbackToOwner == InTime /\ pc[Isr] = "notify" => active_ = owner

\* "The bus is busy" (nrf52_i2c_master.hpp:158) is true when it is said: some
\* transfer is about to start or on the bus, or its end is about to be handled.
\* Only operation::stop and restart, which start nothing, and stop() with a
\* transfer in flight leave a bus that is busy with nothing.
BusyMeansInFlight ==
    InTime /\ busy_ =>
        \/ stranded
        \/ \E c \in Contexts : pc[c] \in BeforeStart
        \/ engine \notin AtRest
        \/ pending \/ Line(events, inten)
        \/ pc[Isr] \in HandlerPcs

\* When everything has come to rest, the driver has reported an error for the
\* last transfer, in the returned status or in the callback's, exactly when
\* the slave refused a byte of it.  (Not so if an earlier call was preempted
\* before it read ERRORSRC: it takes, and clears, whatever it finds.)
ErrorReported ==
    InTime /\ Quiescent /\ ~busy_ /\ ~mixed => (told <=> nacked)

\* Every accepted transfer gets its callback: busy_ does not stay with its
\* owner.
TransferCompletes ==
    \A c \in Contexts : owner = c ~> owner # c \/ ~busy_ \/ ~InTime

\* The driver implements the contract of an I2C master, up to the first time an
\* end overtakes an error.
Phase ==
    IF ~busy_ THEN "free"
    ELSE IF \E c \in Contexts : pc[c] \in BeforeStart THEN "accepted"
    ELSE IF engine \notin AtRest THEN "moving"
    ELSE "settled"

Contract == INSTANCE I2cMasterContract
            WITH Clients <- Contexts, NoClient <- None,
                 phase <- Phase, client <- owner, notified <- called

ContractSpec == Contract!Init /\ [][~InTime' \/ Contract!Next]_(Contract!vars)

-----------------------------------------------------------------------------
(* The invariant behind NoSecondCompletion, NoSpuriousInterrupt,           *)
(* FreeMeansQuiet, StartsOnQuietBus and CallbackToOwner.  It holds until   *)
(* the first time an end overtakes an error: whatever the users ask for,   *)
(* and even when they stop the driver with a transfer in flight.           *)

Quiet == engine \in AtRest /\ events = {} /\ ~pending

Ownership ==
    /\ busy_ <=> owner # None
    /\ \A c \in Contexts : pc[c] \in BeforeStart => owner = c
    /\ busy_ => active_ = owner \/ pc[owner] = "store"

QuietUntilStart ==
    /\ ~busy_ => Quiet /\ inten = {}
    /\ \A c \in Contexts :
          /\ pc[c] \in BeforeStart => Quiet
          /\ pc[c] \in {"quiet", "enable", "clear", "start"} => kind[c] # "stop"
          /\ pc[c] = "start" => shorts = KickoffShortcuts[kind[c]]

\* One event at a time: the engine is done before it says so.
OneEvent ==
    /\ \A e, f \in events : e = f
    /\ engine # "held"
    /\ engine = "tx" => /\ events = {}
                        /\ shorts \in {KickoffShortcuts[k] : k \in Kinds \ {"rx", "stop"}}
    /\ engine = "rx" => "LASTRX_STOP" \in shorts
    /\ engine \in {"rx", "error", "stopping"} => events \subseteq {"ERROR"}

HandlerState ==
    /\ pending => events # {}
    /\ pc[Isr] \in HandlerPcs =>
          busy_ /\ engine # "tx" /\ \A c \in Contexts : pc[c] \notin BeforeStart
    /\ pc[Isr] = "callback" => ~busy_
    /\ pc[Isr] = "entry" => events # {} /\ ~pending
    /\ pc[Isr] \in {"halt", "watch", "recheck"} => events \subseteq {"ERROR"}
    /\ pc[Isr] = "notify" => Quiet /\ inten = {}

IInv == TypeOK /\ Ownership /\ QuietUntilStart /\ OneEvent /\ HandlerState

(* Behind BusyMeansInFlight: the event that will end the transfer can raise *)
(* the interrupt.                                                          *)

ProgressInv ==
    /\ stranded => busy_
    /\ busy_ /\ ~stranded =>
          /\ \A c \in Contexts : pc[c] \in {"clear", "start"} =>
                {"ERROR", Completion(kind[c])} \subseteq inten
          /\ engine \in {"tx", "rx"} => "ERROR" \in inten
          /\ engine = "tx" =>
                (IF "LASTTX_SUSPEND" \in shorts THEN "SUSPENDED" ELSE "STOPPED") \in inten
          /\ engine = "rx" => "STOPPED" \in inten
          /\ engine = "stopping" => "STOPPED" \in inten \/ pc[Isr] = "watch"
          /\ engine = "error" => Line(events, inten) \/ pc[Isr] \in {"entry", "halt"}
          /\ pc[Isr] \in {"watch", "recheck"} => engine = "stopping"
          /\ \/ \E c \in Contexts : pc[c] \in BeforeStart
             \/ engine \notin AtRest
             \/ Line(events, inten)
             \/ pc[Isr] \in HandlerPcs

(* Behind ErrorReported: what the slave refused is in ERRORSRC, has been   *)
(* read by transfer(), or has been told.                                   *)

ReportInv ==
    /\ ~busy_ => errorsrc = {}
    /\ ~mixed => (nacked <=> \/ told \/ errorsrc # {}
                            \/ \E c \in Contexts : pc[c] = "return" /\ error[c] # {})

(* Behind ContractSpec, for users who leave stop and restart alone and do  *)
(* not stop the driver with a transfer in flight: an error is handled      *)
(* while the bus still moves.                                              *)

OrderlyUse == ~StopInFlight /\ \A op \in Ops : OpKind[op] # "stop"

SettledInv ==
    /\ "ERROR" \in events \/ pc[Isr] = "halt" => engine \notin AtRest
    /\ \A c \in Contexts : pc[c] # "stop" /\ (pc[c] = "store" => kind[c] # "stop")
=============================================================================
