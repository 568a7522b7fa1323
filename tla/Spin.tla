--------------------------------- MODULE Spin ---------------------------------
(***************************************************************************)
(* nRF52840::spin of nrf52840.cpp: a delay by polling the cycle counter,   *)
(* which each call switches on and puts back as it found it.               *)
(*                                                                         *)
(* waited, a history variable, is the time that has passed since a call    *)
(* read the counter, at most one round of it.                              *)
(***************************************************************************)
EXTENDS Naturals

CONSTANTS
    Main, Others,  \* contexts that call spin
    Nested,        \* the others are interrupts, which end before Main goes on
    Delays,        \* arguments of spin, in microseconds
    CPU_FREQ_MHZ,
    Round          \* values of a uint32_t

ASSUME ContextsAssumption == Main \notin Others /\ Nested \in BOOLEAN
ASSUME RoundAssumption == Round \in Nat \ {0} /\ CPU_FREQ_MHZ \in Nat
ASSUME DelayAssumption == \A d \in Delays : d \in Nat /\ d * CPU_FREQ_MHZ < Round

VARIABLES
    TRCENA,    \* the bit of DEMCR
    CYCCNTENA, \* the bit of DWT->CTRL
    CYCCNT,
    spinning,  \* how far each context's call has come, or "no"
    core_debug, dwt_ctrl, cyccnt_initial, time_cycles,
    waited

dwt   == <<TRCENA, CYCCNTENA, CYCCNT>>
call  == <<spinning, core_debug, dwt_ctrl, cyccnt_initial, time_cycles, waited>>
spin_ == <<dwt, call>>

Contexts == {Main} \cup Others

SpinInit ==
    /\ TRCENA = FALSE /\ CYCCNTENA = FALSE /\ CYCCNT = 0
    /\ spinning = [c \in Contexts |-> "no"]
    /\ core_debug = [c \in Contexts |-> FALSE] /\ dwt_ctrl = [c \in Contexts |-> FALSE]
    /\ cyccnt_initial = [c \in Contexts |-> 0] /\ time_cycles = [c \in Contexts |-> 0]
    /\ waited = [c \in Contexts |-> 0]

Runs(c) == Nested /\ c = Main => \A o \in Others : spinning[o] = "no"

Goto(c, from, to) == /\ Runs(c)
                     /\ spinning[c] = from
                     /\ spinning' = [spinning EXCEPT ![c] = to]

\* usecs * CPU_FREQ_MHZ, as a uint32_t; nothing happens for 0.
spin(c, usecs) ==
    /\ Goto(c, "no", IF usecs = 0 THEN "no" ELSE "debug")
    /\ time_cycles' = [time_cycles EXCEPT ![c] = (usecs * CPU_FREQ_MHZ) % Round]
    /\ UNCHANGED <<dwt, core_debug, dwt_ctrl, cyccnt_initial, waited>>

\* DEMCR is saved, with the trace unit switched on.
EnableTrace(c) ==
    /\ Goto(c, "debug", "ctrl")
    /\ core_debug' = [core_debug EXCEPT ![c] = TRCENA]
    /\ TRCENA' = TRUE
    /\ UNCHANGED <<CYCCNTENA, CYCCNT, dwt_ctrl, cyccnt_initial, time_cycles, waited>>

\* Mutant: CTRL is saved after the change.
EnableThenSave(c) ==
    /\ Goto(c, "ctrl", "initial")
    /\ dwt_ctrl' = [dwt_ctrl EXCEPT ![c] = TRUE]
    /\ CYCCNTENA' = TRUE
    /\ UNCHANGED <<TRCENA, CYCCNT, core_debug, cyccnt_initial, time_cycles, waited>>

\* CTRL likewise, with the counter.
EnableCounter(c) ==
    /\ Goto(c, "ctrl", "initial")
    /\ dwt_ctrl' = [dwt_ctrl EXCEPT ![c] = CYCCNTENA]
    /\ CYCCNTENA' = TRUE
    /\ UNCHANGED <<TRCENA, CYCCNT, core_debug, cyccnt_initial, time_cycles, waited>>

ReadInitial(c) ==
    /\ Goto(c, "initial", "poll")
    /\ cyccnt_initial' = [cyccnt_initial EXCEPT ![c] = CYCCNT]
    /\ waited' = [waited EXCEPT ![c] = 0]
    /\ UNCHANGED <<dwt, core_debug, dwt_ctrl, time_cycles>>

\* Mutant: the counter is compared with the time at which the delay ends.
ReachedEnd(c) == CYCCNT >= (cyccnt_initial[c] + time_cycles[c]) % Round

\* (CYCCNT - cyccnt_initial) >= time_cycles, in 32 bits.
Elapsed(c) == (CYCCNT + Round - cyccnt_initial[c]) % Round >= time_cycles[c]

PollEnds(c) ==
    /\ Goto(c, "poll", "restore")
    /\ Elapsed(c)
    /\ UNCHANGED <<dwt, core_debug, dwt_ctrl, cyccnt_initial, time_cycles, waited>>

\* Mutant: the counter is always switched off.
RestoreOff(c) ==
    /\ Goto(c, "restore", "trace")
    /\ CYCCNTENA' = FALSE
    /\ UNCHANGED <<TRCENA, CYCCNT, core_debug, dwt_ctrl, cyccnt_initial, time_cycles, waited>>

RestoreCtrl(c) ==
    /\ Goto(c, "restore", "trace")
    /\ CYCCNTENA' = dwt_ctrl[c]
    /\ UNCHANGED <<TRCENA, CYCCNT, core_debug, dwt_ctrl, cyccnt_initial, time_cycles, waited>>

RestoreDebug(c) ==
    /\ Goto(c, "trace", "no")
    /\ TRCENA' = core_debug[c]
    /\ core_debug' = [core_debug EXCEPT ![c] = FALSE]
    /\ dwt_ctrl' = [dwt_ctrl EXCEPT ![c] = FALSE]
    /\ cyccnt_initial' = [cyccnt_initial EXCEPT ![c] = 0]
    /\ time_cycles' = [time_cycles EXCEPT ![c] = 0]
    /\ waited' = [waited EXCEPT ![c] = 0]
    /\ UNCHANGED <<CYCCNTENA, CYCCNT>>

SpinStep(c) == \/ EnableTrace(c) \/ EnableCounter(c) \/ ReadInitial(c)
               \/ PollEnds(c) \/ RestoreCtrl(c) \/ RestoreDebug(c)

\* One cycle, whoever runs; the counter counts while both bits are set.
Cycle ==
    /\ \E c \in Contexts : spinning[c] = "poll"
    /\ CYCCNT' = IF TRCENA /\ CYCCNTENA THEN (CYCCNT + 1) % Round ELSE CYCCNT
    /\ waited' = [c \in Contexts |->
                    IF spinning[c] = "poll" /\ waited[c] < Round THEN waited[c] + 1
                                                                 ELSE waited[c]]
    /\ UNCHANGED <<TRCENA, CYCCNTENA, spinning, core_debug, dwt_ctrl, cyccnt_initial,
                   time_cycles>>

-----------------------------------------------------------------------------
(* Properties.                                                             *)

\* A call lasts at least as long as it was asked to, wherever the counter
\* wraps, and whoever else uses it meanwhile (nrf52840.cpp:85-113).
SpinWaits == \A c \in Contexts : spinning[c] = "restore" => waited[c] >= time_cycles[c]

\* "Save the current state [...] to be able to restore it before exiting": when
\* no call is left, the trace unit and the counter are as they were at reset.
CounterAsFound ==
    (\A c \in Contexts : spinning[c] = "no") => ~TRCENA /\ ~CYCCNTENA

\* The counter runs while a context polls it: a call that ends in between does
\* not stop it, which would leave the poll without an end.
CounterRuns ==
    \A c \in Contexts : Runs(c) /\ spinning[c] = "poll" => TRCENA /\ CYCCNTENA

-----------------------------------------------------------------------------
(* The invariants behind them.                                             *)

\* The time that a call has measured so far, in 32 bits.
Measured(c) == (CYCCNT + Round - cyccnt_initial[c]) % Round

\* What a call has measured has really passed, however often the counter has
\* been stopped, or has wrapped, meanwhile.
WaitInv ==
    /\ CYCCNT \in 0..(Round - 1)
    /\ spinning \in [Contexts -> {"no", "debug", "ctrl", "initial", "poll", "restore", "trace"}]
    /\ cyccnt_initial \in [Contexts -> 0..(Round - 1)]
    /\ time_cycles \in [Contexts -> 0..(Round - 1)]
    /\ waited \in [Contexts -> 0..Round]
    /\ \A c \in Contexts : spinning[c] = "poll" => waited[c] >= Measured(c)
    /\ \A c \in Contexts : spinning[c] = "restore" => waited[c] >= time_cycles[c]

\* The calls that have switched on the trace unit and the counter, and not back.
Tracing == {c \in Contexts : spinning[c] \in {"ctrl", "initial", "poll", "restore", "trace"}}
Counting == {c \in Contexts : spinning[c] \in {"initial", "poll", "restore"}}

\* One interrupt spins, which ends before Main goes on.
OneInterrupt == Nested /\ \A o, p \in Others : o = p

\* The unit and the counter are on while any call uses them; Main found them off,
\* and an interrupt as Main, which waits for it, needs them.
CounterInv ==
    /\ TRCENA = (Tracing # {}) /\ CYCCNTENA = (Counting # {})
    /\ core_debug \in [Contexts -> BOOLEAN] /\ dwt_ctrl \in [Contexts -> BOOLEAN]
    /\ ~core_debug[Main] /\ ~dwt_ctrl[Main]
    /\ \A o \in Others \cap Tracing : core_debug[o] = (Main \in Tracing)
    /\ \A o \in Others : spinning[o] \in {"initial", "poll", "restore"} =>
                             dwt_ctrl[o] = (Main \in Counting)
=============================================================================
