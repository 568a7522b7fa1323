------------------------------ MODULE GpioProofs ------------------------------
(* Proofs about Gpio, for any number of users and pins.                     *)
EXTENDS Gpio, TLAPS

LEMMA StepIInv == ASSUME PinsApart, IInv, [Next]_vars PROVE IInv'
<1>a. \A u \in Users : PinAt(u) \in Places
    BY PinAssumption DEF PinAt, Places
<1> USE <1>a DEF IInv, TypeOK, PinKeepsLevel, ToggleInv, PinsApart
<1>1. ASSUME NEW u \in Users, NEW v \in BOOLEAN, Set(u, v) PROVE IInv'
    BY <1>1 DEF Set, With
<1>2. ASSUME NEW u \in Users, ToggleLoad(u) PROVE IInv'
    BY <1>2 DEF ToggleLoad, With
<1>3. ASSUME NEW u \in Users, ToggleSet(u) PROVE IInv'
    BY <1>3 DEF ToggleSet
<1>4. ASSUME NEW u \in Users, ToggleClear(u) PROVE IInv'
    BY <1>4 DEF ToggleClear
<1>5. ASSUME NEW u \in Users, NEW m \in Modes, setMode(u, m) PROVE IInv'
    BY <1>5 DEF setMode
<1>6. ASSUME NEW u \in Users, Start(u) \/ Stop(u) PROVE IInv'
    BY <1>6 DEF Start, Stop
<1>7. ASSUME UNCHANGED vars PROVE IInv'
    BY <1>7 DEF vars
<1> QED
    BY <1>1, <1>2, <1>3, <1>4, <1>5, <1>6, <1>7 DEF Next, toggle

\* Whatever the interleaving of set, clear and toggle on the pins of the ports,
\* a pin that one user owns has the level that user asked for last
\* (gpio_helper.cpp:68-94).
THEOREM PinsUndisturbed ==
    ASSUME PinsApart
    PROVE  Spec => []PinKeepsLevel
<1>1. Init => IInv
    BY PinAssumption DEF Init, IInv, TypeOK, PinKeepsLevel, ToggleInv
<1>2. IInv /\ [Next]_vars => IInv'
    BY StepIInv
<1>3. IInv => PinKeepsLevel
    BY DEF IInv
<1> QED
    BY <1>1, <1>2, <1>3, PTL DEF Spec

-----------------------------------------------------------------------------
(* Pins in output mode.                                                    *)

\* On two ports portDecode keeps the pins apart.
LEMMA PlacesApart ==
    ASSUME TwoPorts, NEW p \in Pins, NEW q \in Pins, At(p) = At(q)
    PROVE  p = q
<1>1. p \in [port : Nat, pin : 0..31] /\ q \in [port : Nat, pin : 0..31]
    BY PinAssumption
<1>2. portDecode(p.port) = portDecode(q.port) /\ p.pin = q.pin
    BY DEF At
<1>3. p.port = q.port
    BY <1>2 DEF TwoPorts, portDecode
<1> QED
    BY <1>1, <1>2, <1>3

LEMMA StepDriveInv == ASSUME TwoPorts, DriveInv, [Next]_vars PROVE DriveInv'
<1>a. \A u \in Users : PinOf[u] \in Pins
    BY PinAssumption
<1>b. \A p \in Pins : At(p) \in Places
    BY DEF Places
<1> USE <1>a, <1>b DEF DriveInv, OutputDriven, PinAt, Modes, Configurations, Configured
<1>1. ASSUME NEW u \in Users, NEW v \in BOOLEAN, Set(u, v) PROVE DriveInv'
    BY <1>1 DEF Set
<1>2. ASSUME NEW u \in Users, toggle(u) PROVE DriveInv'
    BY <1>2 DEF toggle, ToggleLoad, ToggleSet, ToggleClear
<1>3. ASSUME NEW u \in Users, NEW m \in Modes, setMode(u, m) PROVE DriveInv'
    BY <1>3 DEF setMode
<1>4. ASSUME NEW u \in Users, Start(u) PROVE DriveInv'
    BY <1>4 DEF Start
<1>5. ASSUME NEW u \in Users, Stop(u) PROVE DriveInv'
    BY <1>5, PlacesApart DEF Stop
<1>6. ASSUME UNCHANGED vars PROVE DriveInv'
    BY <1>6 DEF vars
<1> QED
    BY <1>1, <1>2, <1>3, <1>4, <1>5, <1>6 DEF Next

\* A started driver in output mode drives its pin, whatever its users and those of
\* the other pins have started, stopped and switched before (nrf_gpio.hpp:80-114).
THEOREM OutputsDriven ==
    ASSUME TwoPorts
    PROVE  Spec => []OutputDriven
<1>1. Init => DriveInv
    BY DEF Init, DriveInv, OutputDriven, Configurations
<1>2. DriveInv /\ [Next]_vars => DriveInv'
    BY StepDriveInv
<1>3. DriveInv => OutputDriven
    BY DEF DriveInv
<1> QED
    BY <1>1, <1>2, <1>3, PTL DEF Spec
=============================================================================
