-------------------------------- MODULE Dongle --------------------------------
(***************************************************************************)
(* The nRF52840 dongle as the blinky application runs it: init_ of the     *)
(* platform, which chooses the output voltage (VoltageBoot) and starts the *)
(* LEDs, then startBlink, with spin of the processor (Spin) as its clock.  *)
(*                                                                         *)
(* Main is that thread; interrupts may spin as well.  A reset, by the      *)
(* voltage or by a loss of power, takes all of them back to the boot.      *)
(***************************************************************************)
EXTENDS Spin, Sequences

CONSTANTS Leds  \* led1, led2_r, led2_g and led2_b, in the order of the loop

VARIABLES
    REGOUT0, CONFIG, supply, en, setting, boot, \* of VoltageBoot; boot is its pc
    led,  \* index of the LED that is started or toggled next
    blink \* what Main does once the voltage is as init_ wants it

uicr == <<REGOUT0, CONFIG, supply, en, setting, boot>>
leds == <<led, blink>>
vars == <<uicr, leds, spin_>>

Voltage == INSTANCE VoltageBoot WITH pc <- boot

LedsInit == led = 1 /\ blink = "start"

Init == Voltage!Init /\ LedsInit /\ SpinInit

\* The registers and the RAM after a reset.
ResetAll ==
    /\ led' = 1 /\ blink' = "start"
    /\ TRCENA' = FALSE /\ CYCCNTENA' = FALSE /\ CYCCNT' = 0
    /\ spinning' = [c \in Contexts |-> "no"]
    /\ core_debug' = [c \in Contexts |-> FALSE] /\ dwt_ctrl' = [c \in Contexts |-> FALSE]
    /\ cyccnt_initial' = [c \in Contexts |-> 0] /\ time_cycles' = [c \in Contexts |-> 0]
    /\ waited' = [c \in Contexts |-> 0]

MainRuns == Runs(Main) /\ spinning[Main] = "no"

\* highVoltageMode, in init_ or called by the application between two spins.
VoltageStep ==
    /\ MainRuns
    /\ \/ Voltage!Boot \/ Voltage!setWEN \/ Voltage!WaitReady
       \/ Voltage!WriteREGOUT0 \/ Voltage!setREN
       \/ blink = "toggle" /\ \E mode \in BOOLEAN : Voltage!Call(mode)
    /\ UNCHANGED <<leds, spin_>>

Reset == (MainRuns /\ Voltage!systemReset /\ ResetAll) \/ (Voltage!PowerLoss /\ ResetAll)

\* "start all LEDs"; an LED takes care of the output mode of its pin.
StartLed ==
    /\ MainRuns /\ boot = "leds" /\ blink = "start"
    /\ led' = (led % Len(Leds)) + 1
    /\ blink' = IF led = Len(Leds) THEN "toggle" ELSE "start"
    /\ UNCHANGED <<uicr, spin_>>

Toggle ==
    /\ MainRuns /\ boot = "leds" /\ blink = "toggle"
    /\ led' = (led % Len(Leds)) + 1
    /\ blink' = "spin"
    /\ UNCHANGED <<uicr, spin_>>

\* processor.spin of the loop, and of an interrupt.
SpinCall ==
    /\ \/ /\ MainRuns /\ boot = "leds" /\ blink = "spin"
          /\ \E d \in Delays \ {0} : spin(Main, d)
          /\ blink' = "toggle"
       \/ /\ \E c \in Others, d \in Delays : spin(c, d)
          /\ UNCHANGED blink
    /\ UNCHANGED <<uicr, led>>

Spinning ==
    /\ (\E c \in Contexts : SpinStep(c)) \/ Cycle
    /\ UNCHANGED <<uicr, leds>>

Next == VoltageStep \/ Reset \/ StartLed \/ Toggle \/ SpinCall \/ Spinning

Spec == Init /\ [][Next]_vars

-----------------------------------------------------------------------------
(* Properties, with those of Spin.                                         *)

\* "Configure UICR_REGOUT0 register only if it is set to default value"
\* (nrf52840.cpp:71), whatever calls and resets come while the LEDs blink: 3.0 V is
\* never mixed, bit by bit, into a voltage that somebody else has chosen.
RaisedFromDefault == Voltage!RaisedFromDefault

\* What VoltageBoot keeps, here.
VoltageInv == Voltage!VoltageInv
=============================================================================
