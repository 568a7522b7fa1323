----------------------------- MODULE TwimKickoff -----------------------------
(***************************************************************************)
(* What the blocking and the non-blocking I2C master of the nRF52 share:   *)
(* the kinds of transfer that transfer_impl_ distinguishes and how the     *)
(* kickoff_xx helpers of twim_helper_.hpp start each of them.              *)
(***************************************************************************)
EXTENDS TwimPeripheral

\* transfer_impl_ distinguishes five kinds among the nine operations.
OpKind ==
    [write             |-> "tx",         continueWriteStop   |-> "tx",
     writeNoStop       |-> "tx_no_stop", continueWriteNoStop |-> "tx_no_stop",
     read              |-> "rx",         ping                |-> "rx",
     writeRead         |-> "txrx",
     stop              |-> "stop",       restart             |-> "stop"]

Kinds == {"tx", "tx_no_stop", "rx", "txrx", "stop"}

\* Mutant: no_stop waits for STOPPED like the others.
CompletionAlwaysStopped(k) == IF k = "tx_no_stop" THEN "STOPPED" ELSE "STOPPED"

\* The completion event of a kind of transfer, and its shortcuts.
Completion(k) == IF k = "tx_no_stop" THEN "SUSPENDED" ELSE "STOPPED"
KickoffShortcuts ==
    [tx   |-> {"LASTTX_STOP"},                   tx_no_stop |-> {"LASTTX_SUSPEND"},
     rx   |-> {"LASTRX_STOP"},
     txrx |-> {"LASTTX_STARTRX", "LASTRX_STOP"}, stop       |-> {}]

\* RESUME, then the START task.
StartTask(k) == IF k = "rx" THEN StartRx(Resume(engine)) ELSE StartTx(Resume(engine))

\* get_converted_error: an address NACK hides a data NACK.
Converted(errors) ==
    IF "ANACK" \in errors THEN "addrNACK"
    ELSE IF "DNACK" \in errors THEN "dataNACK" ELSE "ok"
=============================================================================
