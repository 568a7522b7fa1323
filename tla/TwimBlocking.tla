----------------------------- MODULE TwimBlocking -----------------------------
(***************************************************************************)
(* The blocking nRF52 I2C master: nRFi2cMaster<..., TBlocking = true> of   *)
(* nrf52_i2c_master.hpp, whose transfers poll the events themselves        *)
(* (block_until_complete), with start_(), stop_() and baudrate_().         *)
(*                                                                         *)
(* Tasks call transfer().  No interrupt is enabled and nothing like busy_  *)
(* keeps them apart: that is left to the callers (Serialized).  The bus    *)
(* moves between any two register accesses.                                *)
(*                                                                         *)
(* caller, returned, result, refused and moved are history variables: who  *)
(* is inside a transfer, whose transfer returned last and with which       *)
(* status, and, of the latest transfer, the bytes that the slave refused   *)
(* and the directions in which all bytes were moved, with the buffer and   *)
(* the address that they were moved with.  An address, or a buffer, is     *)
(* named by the task whose op_t it comes from.                             *)
(***************************************************************************)
EXTENDS TwimKickoff

CONSTANTS
    Tasks,        \* threads that share the driver
    None,         \* no task
    Ops,          \* embvm::i2c::operation values the users ask for
    Bauds,        \* embvm::i2c::baud values the users ask for
    LastByteNack, \* kinds of transfer whose last byte may be refused
    Serialized,   \* the callers make one call at a time
    StopsOpenBus, \* stop and restart come after a write without stop only
    PromptPoll    \* no STOP condition ends between the last check of STOPPED
                  \* in handle_error_event_ and its STOP task

ASSUME TaskAssumption == None \notin Tasks
ASSUME OpsAssumption == Ops \subseteq DOMAIN OpKind

\* What getTWIFrequency takes; it asserts on lowSpeed.
getTWIFrequency == [standard |-> "K100", fast |-> "K400"]

ASSUME BaudsAssumption == Bauds \subseteq DOMAIN getTWIFrequency
ASSUME EnvironmentAssumption ==
    /\ LastByteNack \subseteq Kinds
    /\ {Serialized, StopsOpenBus, PromptPoll} \subseteq BOOLEAN

VARIABLES
    power,      \* how far start_() and stop_() have come
    pins,       \* PIN_CNF of SCL and SDA
    PSEL,       \* whether the PSEL registers select these pins
    FREQUENCY,
    ADDRESS, TXD, RXD, \* address, TXD.PTR and RXD.PTR
    pc, kind,   \* of each task
    exit_event, \* the event block_until_complete waits for, in each task
    error,      \* the local of get_errorsrc_ in each task
    caller, returned, result, refused, moved

board   == <<power, pins, PSEL, FREQUENCY>>
target  == <<ADDRESS, TXD, RXD>>
local   == <<pc, kind, exit_event, error>>
history == <<caller, returned, result, refused, moved>>
vars    == <<twim, nvic, board, target, local, history>>

Statuses == {"ok", "addrNACK", "dataNACK"}

\* The directions in which the kinds of transfer move bytes.
Moves == [tx |-> {"tx"}, tx_no_stop |-> {"tx"}, rx |-> {"rx"}, txrx |-> {"tx", "rx"},
          stop |-> {}]

Init ==
    /\ PeripheralInit
    /\ power = "off" /\ pins = "default" /\ PSEL = FALSE /\ FREQUENCY = "reset"
    /\ ADDRESS = None /\ TXD = None /\ RXD = None
    /\ pc = [c \in Tasks |-> "idle"]
    /\ kind = [c \in Tasks |-> "tx"]
    /\ exit_event = [c \in Tasks |-> "STOPPED"]
    /\ error = [c \in Tasks |-> {}]
    /\ caller = None /\ returned = None
    /\ result = [c \in Tasks |-> "ok"]
    /\ refused = {} /\ moved = {}

\* The event and shortcut registers, as twim_helper_.hpp accesses them.
check_event_(event)    == event \in events
clear_events_(cleared) == events' = events \ cleared
set_shortcuts_(mask)   == shorts' = mask
disable_shortcuts_     == shorts' = shorts \ Shortcuts
interrupts_disable_    == inten' = inten \ Events

set_transfer_address(c) == ADDRESS' = c
setFrequency(baud)      == FREQUENCY' = getTWIFrequency[baud]

Idle == \A c \in Tasks : pc[c] = "idle"

Goto(c, from, to) == pc[c] = from /\ pc' = [pc EXCEPT ![c] = to]

-----------------------------------------------------------------------------
(* start_(), stop_() and baudrate_(), called while no transfer is under    *)
(* way.  The registers keep what stop_() does not reset.                   *)

configure_i2c ==
    /\ power = "off" /\ power' = "configured"
    /\ pins' = "i2c"
    /\ UNCHANGED <<twim, nvic, PSEL, FREQUENCY, target, local, history>>

\* setSCLPin and setSDAPin.
SelectPins ==
    /\ power = "configured" /\ power' = "wired"
    /\ PSEL' = TRUE
    /\ UNCHANGED <<twim, nvic, pins, FREQUENCY, target, local, history>>

enable ==
    /\ power = "wired" /\ power' = "on"
    /\ enabled' = TRUE
    /\ UNCHANGED <<engine, events, inten, shorts, errorsrc, nvic, pins, PSEL, FREQUENCY,
                   target, local, history>>

\* Mutant: the pins are given back while the peripheral is enabled.
StopPinsFirst ==
    /\ Idle
    /\ power = "on" /\ power' = "off"
    /\ pins' = "default"
    /\ UNCHANGED <<twim, nvic, PSEL, FREQUENCY, target, local, history>>

\* Interrupts and shortcuts first, then the peripheral.
disable ==
    /\ Idle
    /\ power = "on" /\ power' = "disabled"
    /\ interrupts_disable_ /\ disable_shortcuts_
    /\ enabled' = FALSE /\ engine' = "idle"
    /\ UNCHANGED <<events, errorsrc, nvic, pins, PSEL, FREQUENCY, target, local, history>>

configure_default ==
    /\ power = "disabled" /\ power' = "off"
    /\ pins' = "default"
    /\ UNCHANGED <<twim, nvic, PSEL, FREQUENCY, target, local, history>>

baudrate_ ==
    /\ Serialized => Idle
    /\ \E baud \in Bauds : setFrequency(baud)
    /\ UNCHANGED <<twim, nvic, power, pins, PSEL, target, local, history>>

-----------------------------------------------------------------------------
(* transfer(): transfer_impl_ and the xx_transfer_blocking helpers.        *)

MayCall(c) == /\ power = "on"
              /\ pc[c] = "idle"
              /\ Serialized => Idle

\* Every operation sets the address and decides about the rest.
Transfer(c) ==
    /\ MayCall(c)
    /\ pc' = [pc EXCEPT ![c] = "load_buffers"]
    /\ \E op \in Ops : /\ OpKind[op] # "stop"
                       /\ kind' = [kind EXCEPT ![c] = OpKind[op]]
    /\ set_transfer_address(c)
    /\ caller' = c /\ refused' = {} /\ moved' = {}
    /\ UNCHANGED <<twim, nvic, board, TXD, RXD, exit_event, error, returned, result>>

\* operation::stop and restart only trigger the STOP task.
StopCondition(c) ==
    /\ MayCall(c)
    /\ \E op \in Ops : OpKind[op] = "stop"
    /\ StopsOpenBus => engine = "suspended"
    /\ engine' = Stop(engine)
    /\ set_transfer_address(c)
    /\ UNCHANGED <<enabled, events, inten, shorts, errorsrc, nvic, board, TXD, RXD, local,
                   history>>

\* The buffer that this kind of transfer needs, in RAM; the other register
\* keeps the buffer of an earlier transfer.
set_tx_buffer_(c) == TXD' = IF "tx" \in Moves[kind[c]] THEN c ELSE TXD
set_rx_buffer_(c) == RXD' = IF "rx" \in Moves[kind[c]] THEN c ELSE RXD

\* Mutant: a write that turns into a read loads the first buffer only.
LoadFirstBuffer(c) ==
    /\ Goto(c, "load_buffers", "clear")
    /\ set_tx_buffer_(c)
    /\ IF kind[c] = "txrx" THEN UNCHANGED RXD ELSE set_rx_buffer_(c)
    /\ UNCHANGED <<twim, nvic, board, ADDRESS, kind, exit_event, error, history>>

LoadBuffers(c) ==
    /\ Goto(c, "load_buffers", "clear")
    /\ set_tx_buffer_(c)
    /\ set_rx_buffer_(c)
    /\ UNCHANGED <<twim, nvic, board, ADDRESS, kind, exit_event, error, history>>

\* The first half of kickoff_xx.
ClearEvents(c) ==
    /\ Goto(c, "clear", "start")
    /\ clear_events_({"STOPPED", "ERROR", Completion(kind[c])})
    /\ set_shortcuts_(KickoffShortcuts[kind[c]])
    /\ UNCHANGED <<enabled, engine, inten, errorsrc, nvic, board, target, kind,
                   exit_event, error, history>>

\* The second half, which returns the event to wait for.
Kickoff(c) ==
    /\ Goto(c, "start", "poll")
    /\ engine' = StartTask(kind[c])
    /\ exit_event' = [exit_event EXCEPT ![c] = Completion(kind[c])]
    /\ UNCHANGED <<enabled, events, inten, shorts, errorsrc, nvic, board, target, kind,
                   error, history>>

\* block_until_complete: while(!check_event_(exit_event)) ...
CheckExit(c) ==
    /\ Goto(c, "poll", IF check_event_(exit_event[c]) THEN "load" ELSE "check")
    /\ UNCHANGED <<twim, nvic, board, target, kind, exit_event, error, history>>

CheckNoError(c) ==
    /\ Goto(c, "check", "poll")
    /\ ~check_event_("ERROR")
    /\ UNCHANGED <<twim, nvic, board, target, kind, exit_event, error, history>>

\* Mutant: after an error the poll still waits for the event of its kickoff.
HandleErrorKeepsExit(c) ==
    /\ Goto(c, "check", IF check_event_("STOPPED") THEN "poll" ELSE "halt")
    /\ check_event_("ERROR")
    /\ clear_events_({"ERROR"})
    /\ UNCHANGED <<enabled, engine, inten, shorts, errorsrc, nvic, board, target, kind,
                   exit_event, error, history>>

\* Mutant: an error ends the poll at once.
HandleErrorReturns(c) ==
    /\ Goto(c, "check", "load")
    /\ check_event_("ERROR")
    /\ clear_events_({"ERROR"})
    /\ engine' = Stop(Resume(engine))
    /\ UNCHANGED <<enabled, inten, shorts, errorsrc, nvic, board, target, kind,
                   exit_event, error, history>>

\* handle_error_event_; whatever the transfer was, it now ends with STOPPED.
HandleError(c) ==
    /\ Goto(c, "check", IF check_event_("STOPPED") THEN "poll" ELSE "halt")
    /\ check_event_("ERROR")
    /\ clear_events_({"ERROR"})
    /\ exit_event' = [exit_event EXCEPT ![c] = "STOPPED"]
    /\ UNCHANGED <<enabled, engine, inten, shorts, errorsrc, nvic, board, target, kind,
                   error, history>>

\* Mutant: the poll ends with the STOP task, not with the STOP condition.
HaltAndLeave(c) ==
    /\ Goto(c, "halt", "load")
    /\ engine' = Stop(Resume(engine))
    /\ UNCHANGED <<enabled, events, inten, shorts, errorsrc, nvic, board, target, kind,
                   exit_event, error, history>>

HaltTransfer(c) ==
    /\ Goto(c, "halt", "poll")
    /\ engine' = Stop(Resume(engine))
    /\ UNCHANGED <<enabled, events, inten, shorts, errorsrc, nvic, board, target, kind,
                   exit_event, error, history>>

\* get_converted_error: ERRORSRC is loaded,
LoadErrors(c) ==
    /\ Goto(c, "load", "return")
    /\ error' = [error EXCEPT ![c] = errorsrc]
    /\ UNCHANGED <<twim, nvic, board, target, kind, exit_event, history>>

\* Mutant: ERRORSRC is read and not written back.
ReturnWithoutClearing(c) ==
    /\ Goto(c, "return", "idle")
    /\ error' = [error EXCEPT ![c] = {}]
    /\ caller' = None /\ returned' = c
    /\ result' = [result EXCEPT ![c] = Converted(error[c])]
    /\ UNCHANGED <<twim, nvic, board, target, kind, exit_event, refused, moved>>

\* what was read is cleared, and becomes the status that transfer() returns.
ReturnStatus(c) ==
    /\ Goto(c, "return", "idle")
    /\ errorsrc' = errorsrc \ error[c]
    /\ error' = [error EXCEPT ![c] = {}]
    /\ caller' = None /\ returned' = c
    /\ result' = [result EXCEPT ![c] = Converted(error[c])]
    /\ UNCHANGED <<enabled, engine, events, inten, shorts, nvic, board, target, kind,
                   exit_event, refused, moved>>

TransferStep(c) ==
    \/ LoadBuffers(c) \/ ClearEvents(c) \/ Kickoff(c)
    \/ CheckExit(c) \/ CheckNoError(c) \/ HandleError(c) \/ HaltTransfer(c)
    \/ LoadErrors(c) \/ ReturnStatus(c)

-----------------------------------------------------------------------------
(* The bus.                                                                *)

BusNack ==
    /\ HwNack
    /\ refused' = refused \cup (errorsrc' \ errorsrc)
    /\ UNCHANGED <<board, target, local, caller, returned, result, moved>>

BusTxLast ==
    /\ HwTxLast(FALSE)
    /\ moved' = moved \cup {<<"tx", TXD, ADDRESS>>}
    /\ UNCHANGED <<board, target, local, caller, returned, result, refused>>

BusTxLastNack ==
    /\ \E k \in LastByteNack : shorts = KickoffShortcuts[k]
    /\ HwTxLast(TRUE)
    /\ refused' = refused \cup {"DNACK"}
    /\ UNCHANGED <<board, target, local, caller, returned, result, moved>>

BusRxLast ==
    /\ HwRxLast
    /\ moved' = moved \cup {<<"rx", RXD, ADDRESS>>}
    /\ UNCHANGED <<board, target, local, caller, returned, result, refused>>

BusStopped ==
    /\ PromptPoll => \A c \in Tasks : pc[c] # "halt"
    /\ HwStopped
    /\ UNCHANGED <<board, target, local, history>>

BusMoves == BusNack \/ BusTxLast \/ BusTxLastNack \/ BusRxLast

-----------------------------------------------------------------------------
Next ==
    \/ configure_i2c \/ SelectPins \/ enable
    \/ disable \/ configure_default
    \/ baudrate_
    \/ \E c \in Tasks : Transfer(c) \/ StopCondition(c) \/ TransferStep(c)
    \/ BusMoves \/ BusStopped

Spec == Init /\ [][Next]_vars

\* The scheduler lets a polling task go on, and the bus moves.
Fairness == /\ \A c \in Tasks : WF_vars(TransferStep(c))
            /\ WF_vars(BusMoves)
            /\ WF_vars(BusStopped)

FairSpec == Spec /\ Fairness

-----------------------------------------------------------------------------
(* Properties.                                                             *)

\* When transfer() has returned, or not yet started anything, nobody's buffer
\* is in the hands of EasyDMA (twim_helper_.hpp:158-171).
BufferReleased ==
    (\A c \in Tasks : pc[c] \in {"idle", "load_buffers", "clear", "start", "load", "return"})
        => engine \in AtRest

\* The status that transfer() returns tells what the slave did to this very
\* transfer: no error of an earlier one, none lost, whichever of the events
\* the poll saw first.
StatusIsOwn ==
    Idle /\ returned # None => result[returned] = Converted(refused)

\* Bytes moved in these directions with the buffers and the address of c.
Carried(c, directions) == {<<d, c, c>> : d \in directions}

\* status::ok means that all bytes went over the bus, in both directions of a
\* writeRead, between the slave and the buffers that this call named: no stale
\* event ended the poll, no START was ignored, and no register was left to an
\* earlier transfer.
OkMeansMoved ==
    Idle /\ returned # None /\ result[returned] = "ok"
        => moved = Carried(returned, Moves[kind[returned]])

\* "these pins must be configured" (nrf52_i2c_master.hpp:46-49): the master is
\* never enabled on pins in another configuration, or on none.
EnabledOnItsPins == enabled => pins = "i2c" /\ PSEL

\* Every call returns: block_until_complete has no timeout, and needs none as
\* long as the bus goes on.
CallReturns == \A c \in Tasks : pc[c] # "idle" ~> pc[c] = "idle"

\* The blocking driver keeps the contract of an I2C master, too.  Its transfer
\* is settled when the poll has ended with the bus at rest, and nothing moves
\* again until it returns, which is telling the client.
Phase ==
    IF caller = None THEN "free"
    ELSE IF pc[caller] \in {"load_buffers", "clear", "start"} THEN "accepted"
    ELSE IF engine \in AtRest /\ pc[caller] \in {"load", "return"} THEN "settled"
    ELSE "moving"

Contract == INSTANCE I2cMasterContract
            WITH Clients <- Tasks, NoClient <- None,
                 phase <- Phase, client <- caller, notified <- returned

ContractSpec == Contract!Spec

-----------------------------------------------------------------------------
(* The inductive invariant behind the safety properties and the contract,  *)
(* under the three assumptions about the callers and the poll.             *)

Disciplined == Serialized /\ StopsOpenBus /\ PromptPoll

BeforeStart == {"load_buffers", "clear", "start"}
InFlight == {"poll", "check", "halt", "load", "return"}

TypeOK ==
    /\ engine \in EngineStates
    /\ events \subseteq Events /\ shorts \subseteq Shortcuts
    /\ errorsrc \subseteq ErrorSources /\ refused \subseteq ErrorSources
    /\ pc \in [Tasks -> BeforeStart \cup InFlight \cup {"idle"}]
    /\ kind \in [Tasks -> Kinds \ {"stop"}]
    /\ exit_event \in [Tasks -> Events]
    /\ error \in [Tasks -> SUBSET ErrorSources]
    /\ result \in [Tasks -> Statuses]
    /\ {caller, returned} \subseteq Tasks \cup {None}

\* Only the caller of the transfer is inside the driver.
OneCaller == \A c \in Tasks : pc[c] # "idle" <=> caller = c

\* Without a transfer under way the engine rests, and no error is left over.
RestInv ==
    (\A c \in Tasks : pc[c] \notin InFlight) => engine \in AtRest /\ errorsrc = {}

\* Before START nothing has been moved, and just before it no event is left that
\* the poll waits for.
StartInv ==
    \A c \in Tasks :
        /\ pc[c] \in BeforeStart => moved = {} /\ refused = {}
        /\ pc[c] = "start" => /\ events \cap {"STOPPED", "ERROR", Completion(kind[c])} = {}
                              /\ shorts = KickoffShortcuts[kind[c]]

\* The registers are the transfer's own.
TargetInv ==
    \A c \in Tasks :
        /\ pc[c] # "idle" => ADDRESS = c
        /\ pc[c] \in InFlight \cup {"clear", "start"} =>
              /\ "tx" \in Moves[kind[c]] => TXD = c
              /\ "rx" \in Moves[kind[c]] => RXD = c
        /\ pc[c] \in InFlight => shorts = KickoffShortcuts[kind[c]]

\* What the engine does tells how far the transfer has got, which events are set
\* and which of them ends the poll.
EngineInv ==
    \A c \in Tasks : pc[c] \in InFlight =>
        /\ engine # "held"
        /\ engine = "tx" => kind[c] # "rx" /\ exit_event[c] = Completion(kind[c])
                            /\ "ERROR" \notin events /\ pc[c] # "halt" /\ refused = {}
        /\ engine = "rx" => kind[c] \in {"rx", "txrx"}
        /\ engine = "error" => "ERROR" \in events \/ pc[c] = "halt"
        /\ engine = "suspended" => kind[c] = "tx_no_stop"
        /\ engine = "idle" <=> "STOPPED" \in events
        /\ "SUSPENDED" \in events /\ kind[c] = "tx_no_stop" =>
              engine = "suspended" \/ exit_event[c] = "STOPPED"
        /\ exit_event[c] # Completion(kind[c]) => exit_event[c] = "STOPPED"
        /\ pc[c] = "halt" => exit_event[c] = "STOPPED" /\ engine # "idle"
        /\ pc[c] \in {"load", "return"} => engine \in AtRest

\* ERRORSRC has what the slave refused, until it is cleared by what was read.
ErrorInv ==
    \A c \in Tasks : pc[c] \in InFlight =>
        /\ errorsrc = refused
        /\ pc[c] = "return" => error[c] = refused
        /\ "ERROR" \in events \/ pc[c] = "halt" => refused # {}

\* What has been moved when the slave refused nothing.
MovedInv ==
    \A c \in Tasks : pc[c] \in InFlight /\ refused = {} =>
        /\ engine = "tx" => moved = {}
        /\ engine = "rx" => moved = Carried(c, Moves[kind[c]] \ {"rx"})
        /\ engine \notin {"tx", "rx"} => moved = Carried(c, Moves[kind[c]])

IInv == /\ TypeOK /\ OneCaller /\ RestInv /\ StartInv /\ TargetInv /\ EngineInv
        /\ ErrorInv /\ MovedInv /\ StatusIsOwn /\ OkMeansMoved

\* What start_() and stop_() have set up, which needs none of the assumptions.
PowerInv ==
    /\ enabled => power = "on"
    /\ pins = "i2c" <=> power # "off"
    /\ PSEL \/ power \in {"off", "configured"}
=============================================================================
