------------------------------- MODULE TwiLegacy -------------------------------
(***************************************************************************)
(* The legacy TWI master of the nRF51: nRF51i2cMaster_Blocking of          *)
(* nrf51_i2c_master.hpp over tx_transfer, rx_transfer and stop_condition   *)
(* of twi_helper.cpp.  The peripheral moves one byte at a time through TXD *)
(* and RXD and the driver polls; one thread uses it.                       *)
(*                                                                         *)
(* The bytes of a buffer are numbered from 1.  wire, refused, aborted and  *)
(* early are history variables: the bytes that this call has sent, or      *)
(* asked the slave for, whether the slave refused one, whether the driver  *)
(* saw it, and whether the bus moved between the call's RESUME and START.  *)
(***************************************************************************)
EXTENDS Naturals, Sequences

CONSTANTS
    Lengths,  \* sizes of buffers that users pass
    SizeMax,  \* the largest size_t
    Bauds,    \* embvm::i2c::baud values the users ask for
    Paced     \* a call is made once the STOP of the one before has ended

ASSUME LengthsAssumption == SizeMax \in Nat /\ Lengths \subseteq 1..(SizeMax - 1)

\* What getTWIFrequency takes; it asserts on lowSpeed.
getTWIFrequency == [standard |-> "K100", fast |-> "K400"]

ASSUME BaudsAssumption == Bauds \subseteq DOMAIN getTWIFrequency
ASSUME EnvironmentAssumption == Paced \in BOOLEAN

VARIABLES
    bus,      \* what the bus does
    dir,      \* direction of the latest START
    request,  \* STOP or SUSPEND task that waits for the byte boundary
    events, shorts,
    TXD, RXD, \* byte loaded and byte received; 0 is none
    enabled,
    pins,     \* PIN_CNF of SCL and SDA
    PSEL,     \* whether the PSEL registers select these pins
    FREQUENCY,
    pc, op, length, sent, received,
    data,     \* rx_buffer
    wire, refused, aborted, early

twi     == <<bus, dir, request, events, shorts, TXD, RXD, enabled>>
board   == <<pins, PSEL, FREQUENCY>>
call    == <<op, length>>
local   == <<sent, received, data>>
history == <<wire, refused, aborted, early>>
vars    == <<twi, board, pc, call, local, history>>

\* twi_event_t and ALL_SHORTCUTS_MASK; BB and SUSPENDED are never looked at.
Events    == {"STOPPED", "RXDREADY", "TXDSENT", "ERROR"}
Shortcuts == {"BB_SUSPEND", "BB_STOP"}

Writes   == {"write", "writeNoStop"}
NoData   == {"ping", "restart", "stop"}
Ops      == Writes \cup {"read"} \cup NoData
Settled  == {"idle", "suspended"}
Wrap(n)  == n % (SizeMax + 1)

Init ==
    /\ bus = "idle" /\ dir = "tx" /\ request = "none"
    /\ events = {} /\ shorts = {} /\ TXD = 0 /\ RXD = 0 /\ enabled = FALSE
    /\ pins = "default" /\ PSEL = FALSE /\ FREQUENCY = "reset"
    /\ pc = "off" /\ op = "ping" /\ length = 1
    /\ sent = 0 /\ received = 0 /\ data = [i \in {} |-> 0]
    /\ wire = <<>> /\ refused = FALSE /\ aborted = FALSE
    /\ early = FALSE

-----------------------------------------------------------------------------
(* The peripheral.  STOP and SUSPEND wait for the byte under way, and for  *)
(* the one loaded in TXD; a byte loaded is sent when TXDSENT is cleared    *)
(* ("the data that is already loaded into the TX buffer will be re-sent"). *)

TaskStop ==
    IF bus \in {"suspended", "refused"} \/ (bus = "byte" /\ "TXDSENT" \in events)
    THEN bus' = "stopping" /\ request' = "none"
    ELSE IF bus \in {"idle", "stopping"} THEN UNCHANGED <<bus, request>>
    ELSE bus' = bus /\ request' = "STOP"

TaskSuspend ==
    IF bus = "refused" \/ (bus = "byte" /\ "TXDSENT" \in events)
    THEN bus' = "suspended" /\ request' = "none"
    ELSE IF bus \in {"idle", "stopping", "suspended"} THEN UNCHANGED <<bus, request>>
    ELSE bus' = bus /\ request' = "SUSPEND"

TaskResume == bus' = IF bus = "suspended" THEN "byte" ELSE bus

TaskStart(d) == bus' = "address" /\ dir' = d /\ TXD' = 0

\* The byte boundary: the pending request and the shortcuts of BB take effect.
AtBoundary ==
    /\ bus' = IF request = "STOP" \/ "BB_STOP" \in shorts THEN "stopping"
              ELSE IF request = "SUSPEND" \/ "BB_SUSPEND" \in shorts THEN "suspended"
              ELSE "byte"
    /\ request' = "none"

\* A slave that acknowledges a read puts its first byte on the bus,
BusAddress ==
    /\ bus = "address" /\ bus' = "byte"
    /\ wire' = IF dir = "rx" THEN <<1>> ELSE wire
    /\ UNCHANGED <<dir, request, events, shorts, TXD, RXD, enabled, board, pc, call,
                   local, refused, aborted>>

\* The slave refuses its address or a byte.
BusNack ==
    /\ bus = "address" \/ (bus = "byte" /\ dir = "tx" /\ TXD # 0 /\ "TXDSENT" \notin events)
    /\ bus' = IF request = "STOP" THEN "stopping"
              ELSE IF request = "SUSPEND" THEN "suspended" ELSE "refused"
    /\ request' = "none"
    /\ events' = events \cup {"ERROR"}
    /\ refused' = TRUE
    /\ UNCHANGED <<dir, shorts, TXD, RXD, enabled, board, pc, call, local, wire, aborted>>

BusSend ==
    /\ bus = "byte" /\ dir = "tx" /\ TXD # 0 /\ "TXDSENT" \notin events
    /\ wire' = Append(wire, TXD)
    /\ events' = events \cup {"TXDSENT"}
    /\ AtBoundary
    /\ UNCHANGED <<dir, shorts, TXD, RXD, enabled, board, pc, call, local, refused,
                   aborted>>

\* and the next one when its byte is acknowledged, which only BB_STOP avoids.
BusReceive ==
    /\ bus = "byte" /\ dir = "rx"
    /\ RXD' = Len(wire)
    /\ wire' = IF "BB_STOP" \in shorts THEN wire ELSE Append(wire, Len(wire) + 1)
    /\ events' = events \cup {"RXDREADY"}
    /\ AtBoundary
    /\ UNCHANGED <<dir, shorts, TXD, enabled, board, pc, call, local, refused, aborted>>

BusStopped ==
    /\ bus = "stopping" /\ bus' = "idle"
    /\ events' = events \cup {"STOPPED"}
    /\ UNCHANGED <<dir, request, shorts, TXD, RXD, enabled, board, pc, call, local,
                   wire, refused, aborted>>

\* The call before left the bus suspended: from RESUME on it moves again.
BeforeStart == {"start_tx", "start_rx"}

BusMoves == /\ BusAddress \/ BusNack \/ BusSend \/ BusReceive \/ BusStopped
            /\ early' = (early \/ pc \in BeforeStart)

-----------------------------------------------------------------------------
(* start_(), stop_() and transfer_().                                      *)

\* The accesses of twi_helper.cpp to the registers.
check_event_(event)    == event \in events
clear_events_(cleared) == events' = events \ cleared
set_shortcuts_(mask)   == shorts' = mask
disable_shortcuts_     == shorts' = shorts \ Shortcuts
set_tx_byte_(byte)     == TXD' = byte
get_rx_byte_           == RXD

setFrequency(baud) == FREQUENCY' = getTWIFrequency[baud]

Goto(from, to) == pc = from /\ pc' = to

MayCall == pc = "idle" /\ (Paced => bus \in Settled)

\* start_: the pins are configured and selected before the peripheral is enabled,
configure_i2c ==
    /\ Goto("off", "select")
    /\ pins' = "i2c"
    /\ UNCHANGED <<twi, PSEL, FREQUENCY, call, local, history>>

\* setSCLPin and setSDAPin.
SelectPins ==
    /\ Goto("select", "enable")
    /\ PSEL' = TRUE
    /\ UNCHANGED <<twi, pins, FREQUENCY, call, local, history>>

enable ==
    /\ Goto("enable", "idle")
    /\ enabled' = TRUE
    /\ UNCHANGED <<bus, dir, request, events, shorts, TXD, RXD, board, call, local,
                   history>>

\* stop_: and given back after it is disabled.
disable ==
    /\ MayCall /\ pc' = "release"
    /\ disable_shortcuts_
    /\ enabled' = FALSE /\ bus' = "idle" /\ request' = "none"
    /\ UNCHANGED <<dir, events, TXD, RXD, board, call, local, history>>

configure_default ==
    /\ Goto("release", "off")
    /\ pins' = "default"
    /\ UNCHANGED <<twi, PSEL, FREQUENCY, call, local, history>>

baudrate_ ==
    /\ pc \in {"off", "idle"}
    /\ \E baud \in Bauds : setFrequency(baud)
    /\ UNCHANGED <<twi, pins, PSEL, pc, call, local, history>>

\* Every operation begins with the address; ping and restart end there.
Transfer ==
    /\ MayCall
    /\ \E o \in Ops, n \in Lengths :
          /\ op' = o /\ length' = n
          /\ pc' = IF o \in Writes THEN "clear_tx" ELSE IF o = "read" THEN "clear_rx"
                   ELSE IF o = "stop" THEN "stop" ELSE "idle"
    /\ wire' = <<>> /\ refused' = FALSE /\ aborted' = FALSE /\ early' = FALSE
    /\ UNCHANGED <<twi, board, local>>

StopCondition ==
    /\ Goto("stop", "idle")
    /\ TaskStop
    /\ UNCHANGED <<dir, events, shorts, TXD, RXD, enabled, board, call, local, history>>

-----------------------------------------------------------------------------
(* tx_transfer.                                                            *)

ClearTx ==
    /\ Goto("clear_tx", "resume_tx")
    /\ sent' = 0
    /\ clear_events_({"STOPPED", "ERROR", "TXDSENT"}) /\ set_shortcuts_({})
    /\ UNCHANGED <<bus, dir, request, TXD, RXD, enabled, board, call, received, data,
                   history>>

ResumeTx ==
    /\ Goto("resume_tx", "start_tx")
    /\ TaskResume
    /\ UNCHANGED <<dir, request, events, shorts, TXD, RXD, enabled, board, call, local,
                   history>>

StartTx ==
    /\ Goto("start_tx", "load")
    /\ TaskStart("tx")
    /\ UNCHANGED <<request, events, shorts, RXD, enabled, board, call, local, history>>

LoadFirst ==
    /\ Goto("load", "check_tx")
    /\ set_tx_byte_(sent + 1) /\ sent' = sent + 1
    /\ UNCHANGED <<bus, dir, request, events, shorts, RXD, enabled, board, call, received,
                   data, history>>

\* Mutant: an error ends the loop without the STOP task of its own.
TxErrorNoStop ==
    /\ Goto("check_tx", "end_tx")
    /\ check_event_("ERROR")
    /\ sent' = Wrap(sent + SizeMax)
    /\ clear_events_({"ERROR", "TXDSENT", "RXDREADY"})
    /\ aborted' = TRUE
    /\ UNCHANGED <<bus, dir, request, shorts, TXD, RXD, enabled, board, call, received,
                   data, wire, refused, early>>

TxError ==
    /\ Goto("check_tx", "end_tx")
    /\ check_event_("ERROR")
    /\ sent' = Wrap(sent + SizeMax)
    /\ clear_events_({"ERROR", "TXDSENT", "RXDREADY"})
    /\ TaskStop
    /\ aborted' = TRUE
    /\ UNCHANGED <<dir, shorts, TXD, RXD, enabled, board, call, received, data, wire,
                   refused, early>>

TxNoError ==
    /\ Goto("check_tx", "sent")
    /\ ~check_event_("ERROR")
    /\ UNCHANGED <<twi, board, call, local, history>>

\* Mutant: the loop ends one byte early.
TxLoopShort == IF sent + 1 < length THEN "check_tx" ELSE "end_tx"

\* while(sent < length)
TxLoop == IF sent < length THEN "check_tx" ELSE "end_tx"

NotSent ==
    /\ Goto("sent", TxLoop)
    /\ ~check_event_("TXDSENT")
    /\ UNCHANGED <<twi, board, call, local, history>>

\* Mutant: the byte that was sent is loaded again.
LoadSame ==
    /\ Goto("sent", "clear_sent")
    /\ check_event_("TXDSENT")
    /\ set_tx_byte_(sent) /\ sent' = sent + 1
    /\ UNCHANGED <<bus, dir, request, events, shorts, RXD, enabled, board, call, received,
                   data, history>>

LoadNext ==
    /\ Goto("sent", "clear_sent")
    /\ check_event_("TXDSENT")
    /\ set_tx_byte_(sent + 1) /\ sent' = sent + 1
    /\ UNCHANGED <<bus, dir, request, events, shorts, RXD, enabled, board, call, received,
                   data, history>>

ClearSent ==
    /\ Goto("clear_sent", TxLoop)
    /\ clear_events_({"TXDSENT"})
    /\ UNCHANGED <<bus, dir, request, shorts, TXD, RXD, enabled, board, call, local,
                   history>>

EndTx ==
    /\ Goto("end_tx", "idle")
    /\ IF op = "writeNoStop" THEN TaskSuspend ELSE TaskStop
    /\ UNCHANGED <<dir, events, shorts, TXD, RXD, enabled, board, call, local, history>>

-----------------------------------------------------------------------------
(* rx_transfer.                                                            *)

ClearRx ==
    /\ Goto("clear_rx", "resume_rx")
    /\ received' = 0 /\ data' = [i \in 1..length |-> 0]
    /\ clear_events_({"STOPPED", "ERROR", "RXDREADY"})
    /\ set_shortcuts_(IF length = 1 THEN {"BB_STOP"} ELSE {"BB_SUSPEND"})
    /\ UNCHANGED <<bus, dir, request, TXD, RXD, enabled, board, call, sent, history>>

ResumeRx ==
    /\ Goto("resume_rx", "start_rx")
    /\ TaskResume
    /\ UNCHANGED <<dir, request, events, shorts, TXD, RXD, enabled, board, call, local,
                   history>>

StartRx ==
    /\ Goto("start_rx", "check_rx")
    /\ TaskStart("rx")
    /\ UNCHANGED <<request, events, shorts, RXD, enabled, board, call, local, history>>

\* received may wrap below zero.
RxError ==
    /\ Goto("check_rx", "end_rx")
    /\ check_event_("ERROR")
    /\ received' = Wrap(received + SizeMax)
    /\ clear_events_({"ERROR", "RXDREADY"})
    /\ TaskStop
    /\ aborted' = TRUE
    /\ UNCHANGED <<dir, shorts, TXD, RXD, enabled, board, call, sent, data, wire,
                   refused, early>>

RxNoError ==
    /\ Goto("check_rx", "ready")
    /\ ~check_event_("ERROR")
    /\ UNCHANGED <<twi, board, call, local, history>>

NotReady ==
    /\ Goto("ready", "check_rx")
    /\ ~check_event_("RXDREADY")
    /\ UNCHANGED <<twi, board, call, local, history>>

\* Mutant: the last byte is prepared once it is there.
ReadByteLateStop ==
    /\ Goto("ready", IF received + 1 = length THEN "end_rx" ELSE "ready_next")
    /\ check_event_("RXDREADY")
    /\ data' = [data EXCEPT ![received + 1] = get_rx_byte_] /\ received' = received + 1
    /\ set_shortcuts_(IF received' = length THEN {"BB_STOP"} ELSE shorts)
    /\ UNCHANGED <<bus, dir, request, events, TXD, RXD, enabled, board, call, sent,
                   history>>

\* Before the last byte the shortcut becomes BB_STOP.
ReadByte ==
    /\ Goto("ready", IF received + 1 = length THEN "end_rx" ELSE "ready_next")
    /\ check_event_("RXDREADY")
    /\ data' = [data EXCEPT ![received + 1] = get_rx_byte_] /\ received' = received + 1
    /\ set_shortcuts_(IF received' = length - 1 THEN {"BB_STOP"} ELSE shorts)
    /\ UNCHANGED <<bus, dir, request, events, TXD, RXD, enabled, board, call, sent,
                   history>>

ReadyNext ==
    /\ Goto("ready_next", "check_rx")
    /\ clear_events_({"RXDREADY"})
    /\ TaskResume
    /\ UNCHANGED <<dir, request, shorts, TXD, RXD, enabled, board, call, local, history>>

EndRx ==
    /\ Goto("end_rx", "idle")
    /\ TaskStop
    /\ UNCHANGED <<dir, events, shorts, TXD, RXD, enabled, board, call, local, history>>

-----------------------------------------------------------------------------
Step == \/ StopCondition
        \/ ClearTx \/ ResumeTx \/ StartTx \/ LoadFirst \/ TxError \/ TxNoError
        \/ NotSent \/ LoadNext \/ ClearSent \/ EndTx
        \/ ClearRx \/ ResumeRx \/ StartRx \/ RxError \/ RxNoError
        \/ NotReady \/ ReadByte \/ ReadyNext \/ EndRx

Next == \/ configure_i2c \/ SelectPins \/ enable \/ disable \/ configure_default
        \/ baudrate_
        \/ Transfer \/ Step \/ BusMoves

\* The polling thread goes on, and so does the bus.
Spec == Init /\ [][Next]_vars /\ WF_vars(Step) /\ WF_vars(BusMoves)

-----------------------------------------------------------------------------
(* Properties.                                                             *)

\* tx_transfer never has the byte that is loaded re-sent: it loads the next one before
\* it clears TXDSENT (twi_helper.cpp:220-222), so that the bytes of a call all follow
\* its START.  Not so when the call before left the bus suspended and the bus moves on
\* before the START task.
NothingBeforeStart == pc \in BeforeStart => wire = <<>>

\* How far a write may reach.  The loop looks at the bus before it looks at length: a
\* write of one byte, once that byte is out, loads and sends what follows the buffer.
Reach == IF length = 1 /\ sent = 2 THEN 2 ELSE length

\* The bytes of a write go out over the pins that start_ configured, in order, none
\* twice and, but for the write of one byte, none past the end of the buffer, although
\* TXD is reloaded while the bus moves.
WireInOrder ==
    /\ bus # "idle" => enabled /\ pins = "i2c" /\ PSEL
    /\ op \in Writes /\ ~early => wire = [i \in 1..Len(wire) |-> i] /\ Len(wire) <= Reach

\* When the bus has come to rest after a write that nobody refused, all of its
\* bytes are out: tx_transfer returns before the last one is.
WriteDelivered ==
    op \in Writes /\ pc = "idle" /\ bus \in Settled /\ ~refused /\ ~early => Len(wire) = Reach

\* A read asks the slave for as many bytes as the buffer holds, so that it lets
\* go of the bus, and stores each of them in its place.
ReadExact ==
    op = "read" => /\ Len(wire) <= length
                   /\ pc = "idle" /\ ~refused => data = [i \in 1..length |-> i]

\* The bus becomes free after every read and every write with a stop, and
\* after a write without stop whose refusal the driver saw.
BusGivenUp ==
    \/ pc \notin {"off", "idle"} /\ op \in {"write", "read"}
    \/ aborted /\ ~early
    ~> bus = "idle"
-----------------------------------------------------------------------------
(* The invariants behind them, for a driver that is used as Paced says.    *)

Unpowered == {"off", "select", "enable", "release"}
Resting   == Unpowered \cup {"idle"}
TxLoopPcs == {"load", "check_tx", "sent", "clear_sent", "end_tx"}
TxPcs     == {"clear_tx", "resume_tx", "start_tx"} \cup TxLoopPcs
RxLoopPcs == {"check_rx", "ready", "ready_next", "end_rx"}
RxPcs     == {"clear_rx", "resume_rx", "start_rx"} \cup RxLoopPcs

\* The first n bytes of a buffer.
Upto(n) == [i \in 1..n |-> i]

TypeOK ==
    /\ bus \in {"idle", "suspended", "address", "byte", "refused", "stopping"}
    /\ dir \in {"tx", "rx"} /\ request \in {"none", "STOP", "SUSPEND"}
    /\ events \subseteq Events /\ shorts \subseteq Shortcuts
    /\ pc \in Resting \cup TxPcs \cup RxPcs \cup {"stop"}
    /\ op \in Ops /\ length \in Nat \ {0}
    /\ refused \in BOOLEAN /\ aborted \in BOOLEAN /\ early \in BOOLEAN

PowerInv ==
    /\ pc \in Unpowered => bus = "idle"
    /\ pc \in {"select", "enable"} => pins = "i2c"
    /\ pc = "enable" => PSEL
    /\ pc \notin Unpowered => enabled /\ pins = "i2c" /\ PSEL

\* A request waits for a byte boundary that is to come.
RequestInv == request # "none" => bus \in {"address", "byte"}

BaseInv == TypeOK /\ PowerInv /\ RequestInv

(* The rest is about a call whose bus was still between RESUME and START.  *)

WireInv == wire = Upto(Len(wire)) /\ Len(wire) \in Nat

\* A call begins with the bus at rest, and only the last byte of a write is left to
\* the bus when the driver returns.
CallInv ==
    /\ pc \in TxPcs => op \in Writes
    /\ pc \in RxPcs => op = "read"
    /\ pc \in {"clear_tx", "resume_tx", "clear_rx", "resume_rx", "stop"} => bus \in Settled
    /\ pc \in {"clear_tx", "resume_tx", "start_tx", "clear_rx", "resume_rx", "start_rx"} =>
          wire = <<>> /\ ~refused /\ ~aborted
    /\ pc = "stop" => op = "stop"
    /\ pc \in Resting /\ op \notin Writes => bus \in Settled \cup {"stopping"}
    /\ request # "none" => pc = "idle" /\ bus \in {"address", "byte"}

\* The byte in TXD is the next one, or with TXDSENT the latest one, of the wire.
WriteInv ==
    /\ pc \in {"resume_tx", "start_tx"} => shorts = {} /\ {"ERROR", "TXDSENT"} \cap events = {}
    /\ pc \in {"resume_tx", "start_tx", "load"} => sent = 0
    /\ op \in Writes => Len(wire) <= Reach
    /\ op \in Writes /\ aborted => refused /\ bus \in {"stopping", "idle"}
                                   /\ pc \in Resting \cup {"end_tx"}
    /\ pc \in TxLoopPcs /\ ~aborted =>
          /\ dir = "tx" /\ shorts = {} /\ bus \in {"address", "byte", "refused"}
          /\ (refused <=> bus = "refused") /\ (refused <=> "ERROR" \in events)
          /\ bus = "address" => "TXDSENT" \notin events
          /\ TXD = sent
          /\ pc = "load" => wire = <<>> /\ "TXDSENT" \notin events
          /\ pc \in {"check_tx", "sent", "end_tx"} =>
                /\ sent \in 1..Reach
                /\ Len(wire) = IF "TXDSENT" \in events THEN sent ELSE sent - 1
          /\ pc \in {"check_tx", "sent"} => sent = 1 \/ sent < length
          /\ pc = "clear_sent" =>
                sent \in 2..Reach /\ Len(wire) = sent - 1 /\ "TXDSENT" \in events
          /\ pc = "end_tx" => sent = Reach
    /\ pc \in Resting /\ op \in Writes =>
          /\ bus # "refused"
          /\ bus \in {"address", "byte"} =>
                /\ dir = "tx" /\ shorts = {} /\ request # "none"
                /\ "TXDSENT" \notin events /\ TXD = Reach /\ Len(wire) = Reach - 1
          /\ bus \notin {"address", "byte"} => refused \/ Len(wire) = Reach

\* The slave is one byte ahead of the driver while the bus is held, and the last
\* byte is received with BB_STOP.
ReadInv ==
    /\ pc \in {"resume_rx", "start_rx"} =>
          /\ received = 0 /\ data \in [1..length -> Nat]
          /\ {"ERROR", "RXDREADY"} \cap events = {}
          /\ shorts = IF length = 1 THEN {"BB_STOP"} ELSE {"BB_SUSPEND"}
    /\ op = "read" => Len(wire) <= length
    /\ op = "read" /\ aborted => refused /\ bus \in {"stopping", "idle"}
                                 /\ pc \in Resting \cup {"end_rx"}
    /\ pc \in RxLoopPcs /\ ~aborted =>
          /\ dir = "rx" /\ data \in [1..length -> Nat] /\ received \in 0..length
          /\ \A i \in 1..received : data[i] = i
          /\ (refused <=> bus = "refused") /\ (refused <=> "ERROR" \in events)
    /\ pc \in {"check_rx", "ready"} /\ ~aborted =>
          /\ received < length
          /\ shorts = IF received + 1 = length THEN {"BB_STOP"} ELSE {"BB_SUSPEND"}
          /\ "RXDREADY" \in events <=> bus \in {"suspended", "stopping", "idle"}
          /\ bus = "address" => received = 0 /\ wire = <<>>
          /\ bus = "byte" => Len(wire) = received + 1
          /\ bus = "suspended" =>
                RXD = received + 1 /\ Len(wire) = received + 2 /\ received + 1 < length
          /\ bus \in {"stopping", "idle"} =>
                RXD = length /\ Len(wire) = length /\ received + 1 = length
    /\ pc = "ready_next" =>
          /\ ~aborted /\ received \in 1..(length - 1) /\ bus = "suspended"
          /\ Len(wire) = received + 1
          /\ shorts = IF received + 1 = length THEN {"BB_STOP"} ELSE {"BB_SUSPEND"}
    /\ pc = "end_rx" /\ ~aborted => received = length /\ bus \in {"stopping", "idle"}
    /\ pc \in Resting /\ op = "read" /\ ~refused => data = Upto(length)

OrderInv == WireInv /\ CallInv /\ WriteInv /\ ReadInv

IInv == BaseInv /\ (~early => OrderInv)
=============================================================================
