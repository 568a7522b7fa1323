--------------------------------- MODULE Gpio ---------------------------------
(***************************************************************************)
(* The GPIO driver: nRFGPIO of nrf_gpio.hpp on the register helpers of     *)
(* gpio_helper.cpp, for the pins of the two ports.                         *)
(*                                                                         *)
(* Several users (tasks or interrupts), each with its pin, share the       *)
(* registers of a port.  A store to OUTSET or OUTCLR is one step; toggle   *)
(* takes three, and the users' steps interleave.  wanted, a history        *)
(* variable, is the level that the operations on each pin ask for.         *)
(***************************************************************************)
EXTENDS Integers

CONSTANTS
    Users, \* contexts that use the driver
    Pins,  \* pins, each with its port
    PinOf  \* the pin of each user

ASSUME PinAssumption == /\ Pins \subseteq [port : Nat, pin : 0..31]
                        /\ PinOf \in [Users -> Pins]

\* The registers of a port.
portDecode(port) == IF port = 0 THEN "P0" ELSE "P1"

\* Where a pin is: its registers and its bit in them.
At(p) == <<portDecode(p.port), p.pin>>
PinAt(u) == At(PinOf[u])
Places == {At(p) : p \in Pins}

VARIABLES
    OUT,     \* registers OUT: the bits that are set, in both ports
    PIN_CNF, \* registers PIN_CNF: direction and input buffer
    started, \* the drivers that start() has started
    mode_,   \* mode_ of each driver
    pc,      \* the next step of each user
    state,   \* the local of toggle
    wanted

vars == <<OUT, PIN_CNF, started, mode_, pc, state, wanted>>

Modes == {"input", "output"}

\* configure_default, configure_input and configure_output write one of these.
Configurations == {"disconnected", "input", "output"}

Init ==
    /\ OUT = {}
    /\ PIN_CNF = [a \in Places |-> "disconnected"]
    /\ started = {}
    /\ mode_ \in [Pins -> Modes]
    /\ pc = [u \in Users |-> "idle"]
    /\ state = [u \in Users |-> {}]
    /\ wanted = {}

With(set, a, v) == IF v THEN set \cup {a} ELSE set \ {a}

\* set(v): a store to OUTSET or to OUTCLR.
Set(u, v) ==
    /\ pc[u] = "idle"
    /\ OUT' = With(OUT, PinAt(u), v)
    /\ wanted' = With(wanted, PinAt(u), v)
    /\ UNCHANGED <<PIN_CNF, started, mode_, pc, state>>

\* toggle: OUT of the pin's port is loaded, then the pin is set if it was low and cleared if it
\* was high.  The other bits that are stored are zero, and have no effect.
ToggleLoad(u) ==
    /\ pc[u] = "idle"
    /\ pc' = [pc EXCEPT ![u] = "set"]
    /\ state' = [state EXCEPT ![u] = {a \in OUT : a[1] = PinAt(u)[1]}]
    /\ wanted' = With(wanted, PinAt(u), PinAt(u) \notin wanted)
    /\ UNCHANGED <<OUT, PIN_CNF, started, mode_>>

\* Mutant: OUT is written instead of OUTSET.
ToggleWritesOUT(u) ==
    /\ pc[u] = "set"
    /\ pc' = [pc EXCEPT ![u] = "clear"]
    /\ OUT' = {a \in OUT : a[1] # PinAt(u)[1]} \cup state[u] \cup {PinAt(u)}
    /\ UNCHANGED <<PIN_CNF, started, mode_, state, wanted>>

ToggleSet(u) ==
    /\ pc[u] = "set"
    /\ pc' = [pc EXCEPT ![u] = "clear"]
    /\ OUT' = OUT \cup ({PinAt(u)} \ state[u])
    /\ UNCHANGED <<PIN_CNF, started, mode_, state, wanted>>

ToggleClear(u) ==
    /\ pc[u] = "clear"
    /\ pc' = [pc EXCEPT ![u] = "idle"]
    /\ OUT' = OUT \ (state[u] \cap {PinAt(u)})
    /\ UNCHANGED <<PIN_CNF, started, mode_, state, wanted>>

toggle(u) == ToggleLoad(u) \/ ToggleSet(u) \/ ToggleClear(u)

\* What setMode does to PIN_CNF: nothing for an input.
Configured(p, m) == IF m = "output" THEN [PIN_CNF EXCEPT ![At(p)] = "output"] ELSE PIN_CNF

setMode(u, m) ==
    /\ pc[u] = "idle"
    /\ PIN_CNF' = Configured(PinOf[u], m)
    /\ mode_' = [mode_ EXCEPT ![PinOf[u]] = m]
    /\ UNCHANGED <<OUT, started, pc, state, wanted>>

\* Mutant: the mode is kept for a later setMode.
StartWithoutMode(u) ==
    /\ pc[u] = "idle" /\ PinOf[u] \notin started
    /\ started' = started \cup {PinOf[u]}
    /\ UNCHANGED <<OUT, PIN_CNF, mode_, pc, state, wanted>>

\* start() and stop() of a driver that is already there do nothing.
Start(u) ==
    /\ pc[u] = "idle" /\ PinOf[u] \notin started
    /\ started' = started \cup {PinOf[u]}
    /\ PIN_CNF' = Configured(PinOf[u], mode_[PinOf[u]])
    /\ UNCHANGED <<OUT, mode_, pc, state, wanted>>

Stop(u) ==
    /\ pc[u] = "idle" /\ PinOf[u] \in started
    /\ started' = started \ {PinOf[u]}
    /\ PIN_CNF' = [PIN_CNF EXCEPT ![PinAt(u)] = "disconnected"]
    /\ UNCHANGED <<OUT, mode_, pc, state, wanted>>

Next ==
    \E u \in Users :
        \/ \E v \in BOOLEAN : Set(u, v)
        \/ toggle(u)
        \/ \E m \in Modes : setMode(u, m)
        \/ Start(u) \/ Stop(u)

Spec == Init /\ [][Next]_vars

-----------------------------------------------------------------------------
(* Properties.                                                             *)

\* With a pin each, of one port or two, the users do not disturb each other
\* although they share OUT and toggle is not atomic: a pin whose user is idle has the level that
\* its last set, clear or toggle asked for (gpio_helper.cpp:68-94).
PinKeepsLevel ==
    \A u \in Users : pc[u] = "idle" => (PinAt(u) \in OUT <=> PinAt(u) \in wanted)

\* A started driver in output mode drives its pin, whatever starts, stops and
\* mode changes came before (nrf_gpio.hpp:80-114).
OutputDriven ==
    \A p \in started : mode_[p] = "output" => PIN_CNF[At(p)] = "output"

-----------------------------------------------------------------------------
(* The inductive invariant behind PinKeepsLevel, when no pin has two users. *)

PinsApart == \A u, v \in Users : PinAt(u) = PinAt(v) => u = v

TypeOK ==
    /\ OUT \subseteq Places /\ wanted \subseteq Places
    /\ pc \in [Users -> {"idle", "set", "clear"}]
    /\ state \in [Users -> SUBSET Places]

\* In the middle of toggle what was loaded is the level before it, and the
\* pin still has that level or is high.
ToggleInv ==
    \A u \in Users :
        /\ pc[u] # "idle" => (PinAt(u) \in wanted <=> PinAt(u) \notin state[u])
        /\ pc[u] = "set" => (PinAt(u) \in OUT <=> PinAt(u) \in state[u])
        /\ pc[u] = "clear" => PinAt(u) \in OUT

IInv == TypeOK /\ PinKeepsLevel /\ ToggleInv

(* The inductive invariant behind OutputDriven, on a chip that has the two *)
(* ports which portDecode tells apart.                                     *)

TwoPorts == \A p \in Pins : p.port \in {0, 1}

DriveInv ==
    /\ PIN_CNF \in [Places -> Configurations]
    /\ started \subseteq Pins /\ mode_ \in [Pins -> Modes]
    /\ OutputDriven
=============================================================================
