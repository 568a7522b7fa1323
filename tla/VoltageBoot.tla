------------------------------ MODULE VoltageBoot ------------------------------
(***************************************************************************)
(* The output voltage of the nRF52840 dongle: highVoltageMode() of         *)
(* nrf52840.cpp and its use at boot in nrf52_dongle_hw_platform.cpp.       *)
(*                                                                         *)
(* The voltage is a field of the UICR, which survives a reset and is       *)
(* flash: a write clears bits and never sets one.  A voltage is the set of *)
(* the bits that are one.  Power may be lost between any two steps.        *)
(***************************************************************************)
EXTENDS Naturals

Voltages == SUBSET (0..2)
VOUT_DEFAULT == {0, 1, 2}
VOUT_3V0 == {2}

VARIABLES
    REGOUT0, \* NRF_UICR->REGOUT0, the VOUT field
    CONFIG,  \* NRF_NVMC->CONFIG
    supply,  \* MAINREGSTATUS: "high" when powered from USB
    en,      \* the argument of the latest highVoltageMode(bool)
    setting, \* and that of its setVOUT
    pc

vars == <<REGOUT0, CONFIG, supply, en, setting, pc>>

Init ==
    /\ REGOUT0 \in Voltages
    /\ CONFIG = "Ren"
    /\ supply \in {"normal", "high"}
    /\ en = FALSE /\ setting = VOUT_DEFAULT
    /\ pc = "boot"

\* highVoltageMode() without an argument.
highVoltageSupply == supply = "high"

checkVOUT(v) == REGOUT0 = v

\* Mutant: the setting is not compared first.
highVoltageModeUnchecked(mode) ==
    /\ en' = mode
    /\ setting' = IF mode THEN VOUT_3V0 ELSE VOUT_DEFAULT
    /\ pc' = IF mode \/ ~checkVOUT(VOUT_DEFAULT) THEN "wen" ELSE "leds"

\* highVoltageMode(bool): what it asks of setVOUT, if anything.
highVoltageMode(mode) ==
    /\ en' = mode
    /\ setting' = IF mode /\ checkVOUT(VOUT_DEFAULT) THEN VOUT_3V0 ELSE VOUT_DEFAULT
    /\ pc' = IF mode \/ ~checkVOUT(VOUT_DEFAULT) THEN "wen" ELSE "leds"

\* init_ of the platform: "if(!processor.highVoltageMode())".
Boot ==
    /\ pc = "boot"
    /\ IF ~highVoltageSupply THEN highVoltageMode(TRUE)
                             ELSE pc' = "leds" /\ UNCHANGED <<en, setting>>
    /\ UNCHANGED <<REGOUT0, CONFIG, supply>>

\* An application may call it too.
Call(mode) ==
    /\ pc = "leds"
    /\ highVoltageMode(mode)
    /\ UNCHANGED <<REGOUT0, CONFIG, supply>>

setWEN ==
    /\ pc = "wen" /\ pc' = "wenBusy"
    /\ CONFIG' = "Wen"
    /\ UNCHANGED <<REGOUT0, supply, en, setting>>

WriteREGOUT0 ==
    /\ pc = "write" /\ pc' = "ren"
    /\ REGOUT0' = IF CONFIG = "Wen" THEN REGOUT0 \cap setting ELSE REGOUT0
    /\ UNCHANGED <<CONFIG, supply, en, setting>>

setREN ==
    /\ pc = "ren" /\ pc' = "renBusy"
    /\ CONFIG' = "Ren"
    /\ UNCHANGED <<REGOUT0, supply, en, setting>>

\* Both poll READY before they return.
WaitReady ==
    /\ \/ pc = "wenBusy" /\ pc' = "write"
       \/ pc = "renBusy" /\ pc' = "reset"
    /\ UNCHANGED <<REGOUT0, CONFIG, supply, en, setting>>

systemReset ==
    /\ pc = "reset" /\ pc' = "boot"
    /\ CONFIG' = "Ren"
    /\ UNCHANGED <<REGOUT0, supply, en, setting>>

Step == Boot \/ setWEN \/ WaitReady \/ WriteREGOUT0 \/ setREN \/ systemReset

\* The board comes back on any supply.
PowerLoss ==
    /\ pc' = "boot"
    /\ CONFIG' = "Ren"
    /\ supply' \in {"normal", "high"}
    /\ UNCHANGED <<REGOUT0, en, setting>>

Next == Step \/ (\E mode \in BOOLEAN : Call(mode)) \/ PowerLoss

Spec == Init /\ [][Next]_vars

\* A boot that nothing interrupts.
BootSpec == Init /\ [][Step]_vars /\ WF_vars(Step)

-----------------------------------------------------------------------------
(* Properties.                                                             *)

\* "Configure UICR_REGOUT0 register only if it is set to default value"
\* (nrf52840.cpp:71), whatever calls and power losses came before: 3.0 V is never
\* mixed, bit by bit, into a voltage that somebody else has chosen.
RaisedFromDefault ==
    [][REGOUT0' # REGOUT0 /\ en => REGOUT0 = VOUT_DEFAULT /\ REGOUT0' = VOUT_3V0]_vars

\* "if disabling high voltage mode and we _aren't_ default, we need to restore it"
\* (nrf52840.cpp:76): the reset that is to load the default finds it in the register.
DefaultRestored == pc = "reset" /\ ~en => REGOUT0 = VOUT_DEFAULT

\* The boot gets as far as "start all LEDs" (nrf52_dongle_hw_platform.cpp:38).
LedsStart == <>(pc = "leds")

-----------------------------------------------------------------------------
(* Why the register is written at most once.                               *)

\* Bits are cleared only on the way from the value that was compared.
VoltageInv ==
    /\ REGOUT0 \in Voltages /\ setting \in {VOUT_DEFAULT, VOUT_3V0}
    /\ pc \in {"wen", "wenBusy", "write"} /\ setting = VOUT_3V0 => REGOUT0 = VOUT_DEFAULT
=============================================================================
