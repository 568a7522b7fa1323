--------------------------- MODULE TwimPeripheral ---------------------------
(***************************************************************************)
(* The nRF52 TWIM peripheral (an I2C master with EasyDMA) and its NVIC     *)
(* line, as src/drivers/helpers/twim_helper_.hpp drives them.  The         *)
(* peripheral is not code of the repository: its behaviour is the one the  *)
(* datasheet notes of twim_helper.cpp:14-40 describe and the helpers rely  *)
(* on.  Its registers are the variables; what a task register does to the  *)
(* bus engine is a function of the engine's state, so that a helper that   *)
(* triggers several tasks composes them.                                   *)
(*                                                                         *)
(* engine, the state of the master on the bus:                             *)
(*   idle       no transfer; EasyDMA does not touch memory                 *)
(*   tx, rx     a transfer runs and EasyDMA accesses the buffer            *)
(*   held       between transfers, the bus still owned                     *)
(*   suspended  the SUSPEND task took effect after the last byte           *)
(*   error      a NACK was clocked in; a STOP task is awaited              *)
(*   stopping   the STOP condition is on its way                           *)
(***************************************************************************)
EXTENDS FiniteSets

VARIABLES enabled,    \* ENABLE register
          engine,     \* state of the bus master
          events,     \* event registers that are set
          inten,      \* INTEN: events that raise the interrupt line
          shorts,     \* SHORTS: event-to-task shortcuts
          errorsrc,   \* ERRORSRC: causes of the last errors
          nvicEnabled,\* NVIC: the line is enabled
          pending     \* NVIC: the interrupt is pending

twim == <<enabled, engine, events, inten, shorts, errorsrc>>
nvic == <<nvicEnabled, pending>>

EngineStates == {"idle", "tx", "rx", "held", "suspended", "error", "stopping"}
Events == {"STOPPED", "ERROR", "SUSPENDED"}
Shortcuts == {"LASTTX_STOP", "LASTTX_SUSPEND", "LASTTX_STARTRX", "LASTRX_STOP"}
ErrorSources == {"ANACK", "DNACK"}

\* Nothing is being moved and no buffer is in the hands of EasyDMA.
AtRest == {"idle", "suspended"}

PeripheralInit ==
    /\ enabled = FALSE
    /\ engine = "idle"
    /\ events = {} /\ inten = {} /\ shorts = {} /\ errorsrc = {}
    /\ nvicEnabled = FALSE /\ pending = FALSE

-----------------------------------------------------------------------------
(* Task registers.  A START needs the bus engine at rest; STOP is ignored  *)
(* while suspended, which is why the driver resumes first.                 *)

Resume(e)  == IF e = "suspended" THEN "held" ELSE e
StartTx(e) == IF e \in {"idle", "held"} THEN "tx" ELSE e
StartRx(e) == IF e \in {"idle", "held"} THEN "rx" ELSE e
Stop(e)    == IF e = "suspended" THEN e ELSE "stopping"

(* The line of the peripheral is a level; the NVIC latches its rising edge *)
(* in every step that moves an event or an interrupt-enable bit.           *)

Line(ev, en) == ev \cap en # {}
Latch == pending' = (pending \/ (Line(events', inten') /\ ~Line(events, inten)))

\* NordicNVIC: while the line is disabled its interrupt stays pending.
NVIC_enable  == nvicEnabled' = TRUE
NVIC_disable == nvicEnabled' = FALSE

-----------------------------------------------------------------------------
(* What the bus does by itself.                                            *)

\* The slave does not acknowledge the address, or a byte before the last.
HwNack ==
    /\ engine \in {"tx", "rx"}
    /\ engine' = "error"
    /\ events' = events \cup {"ERROR"}
    /\ \E cause \in ErrorSources :
          /\ engine = "rx" => cause = "ANACK"
          /\ errorsrc' = errorsrc \cup {cause}
    /\ UNCHANGED <<enabled, inten, shorts, nvicEnabled>>
    /\ Latch

\* LASTTX: the last byte is sent, the shortcut's task takes effect after it.
TxLastEngine ==
    IF "LASTTX_STOP" \in shorts THEN "stopping"
    ELSE IF "LASTTX_SUSPEND" \in shorts THEN "suspended"
    ELSE IF "LASTTX_STARTRX" \in shorts THEN "rx" ELSE "held"

\* nack: the slave does not acknowledge that last byte.
HwTxLast(nack) ==
    /\ engine = "tx"
    /\ engine' = TxLastEngine
    /\ events' = events \cup (IF TxLastEngine = "suspended" THEN {"SUSPENDED"} ELSE {})
                        \cup (IF nack THEN {"ERROR"} ELSE {})
    /\ errorsrc' = IF nack THEN errorsrc \cup {"DNACK"} ELSE errorsrc
    /\ UNCHANGED <<enabled, inten, shorts, nvicEnabled>>
    /\ Latch

\* LASTRX: the last byte is received.
HwRxLast ==
    /\ engine = "rx"
    /\ engine' = IF "LASTRX_STOP" \in shorts THEN "stopping" ELSE "held"
    /\ UNCHANGED <<enabled, events, inten, shorts, errorsrc, nvicEnabled, pending>>

\* The STOP condition is complete: EasyDMA has finished with the buffer.
HwStopped ==
    /\ engine = "stopping"
    /\ engine' = "idle"
    /\ events' = events \cup {"STOPPED"}
    /\ UNCHANGED <<enabled, inten, shorts, errorsrc, nvicEnabled>>
    /\ Latch
=============================================================================
