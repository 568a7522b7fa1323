----------------------------- MODULE DongleProofs -----------------------------
(***************************************************************************)
(* Proofs about Dongle, with Spin and VoltageBoot in it: for any contexts  *)
(* that spin, any delays, any frequency and any width of the counter.      *)
(***************************************************************************)
EXTENDS Dongle, TLAPS

-----------------------------------------------------------------------------
(* The steps, by what they change.                                         *)

\* The dongle takes a step of VoltageBoot, or leaves its state alone.
LEMMA StepVoltage == ASSUME [Next]_vars PROVE [Voltage!Next]_uicr
BY DEF vars, Next, VoltageStep, Reset, StartLed, Toggle, SpinCall, Spinning, uicr,
   Voltage!Next, Voltage!Step

\* A spin in progress ends, goes on, or is undone by a reset.
LEMMA StepSpin ==
    ASSUME [Next]_vars
    PROVE  \/ UNCHANGED spin_
           \/ ResetAll
           \/ \E c \in Contexts, d \in Delays : spin(c, d)
           \/ \E c \in Contexts : SpinStep(c)
           \/ Cycle
BY DEF vars, Next, VoltageStep, Reset, StartLed, Toggle, SpinCall, Spinning, spin_, Contexts

-----------------------------------------------------------------------------
(* The output voltage.                                                     *)

LEMMA StepVoltageInv ==
    ASSUME VoltageInv, [Voltage!Next]_uicr
    PROVE  /\ VoltageInv'
           /\ REGOUT0' # REGOUT0 =>
                 REGOUT0 = Voltage!VOUT_DEFAULT /\ REGOUT0' = Voltage!VOUT_3V0
<1> USE DEF VoltageInv, Voltage!VoltageInv
<1>a. Voltage!VOUT_DEFAULT = 0..2 /\ Voltage!VOUT_3V0 = {2}
    BY DEF Voltage!VOUT_DEFAULT, Voltage!VOUT_3V0
<1>b. 2 \in Voltage!VOUT_DEFAULT /\ 0 \in Voltage!VOUT_DEFAULT /\ 0 \notin Voltage!VOUT_3V0
    BY DEF Voltage!VOUT_DEFAULT, Voltage!VOUT_3V0
<1>1. CASE Voltage!WriteREGOUT0
  <2>1. boot = "write" /\ boot' = "ren" /\ setting' = setting
        /\ REGOUT0' \in {REGOUT0, REGOUT0 \cap setting}
    BY <1>1 DEF Voltage!WriteREGOUT0
  <2>2. CASE setting = Voltage!VOUT_DEFAULT
    <3>1. REGOUT0 \cap (0..2) = REGOUT0
      BY DEF Voltage!Voltages
    <3>2. REGOUT0' = REGOUT0
      BY <1>a, <2>1, <2>2, <3>1
    <3> QED
      BY <2>1, <3>2
  <2>3. CASE setting = Voltage!VOUT_3V0
    <3>1. REGOUT0 = Voltage!VOUT_DEFAULT
      BY <2>1, <2>3
    <3>2. REGOUT0' \in {REGOUT0, Voltage!VOUT_3V0} /\ Voltage!VOUT_3V0 \in Voltage!Voltages
      BY <1>a, <2>1, <2>3, <3>1 DEF Voltage!Voltages
    <3> QED
      BY <2>1, <3>1, <3>2
  <2> QED
    BY <2>2, <2>3
<1>2. CASE Voltage!Boot \/ \E mode \in BOOLEAN : Voltage!Call(mode)
  <2>1. UNCHANGED REGOUT0
    BY <1>2 DEF Voltage!Boot, Voltage!Call
  <2>2. \/ boot' = "leds" /\ UNCHANGED setting
        \/ \E mode \in BOOLEAN : Voltage!highVoltageMode(mode)
    BY <1>2 DEF Voltage!Boot, Voltage!Call
  <2>3. /\ setting' \in {Voltage!VOUT_DEFAULT, Voltage!VOUT_3V0}
        /\ setting' = Voltage!VOUT_3V0 =>
              boot' = "leds" \/ REGOUT0 = Voltage!VOUT_DEFAULT
    BY <1>b, <2>2 DEF Voltage!highVoltageMode, Voltage!checkVOUT
  <2> QED
    BY <2>1, <2>3
<1>3. CASE \/ Voltage!setWEN \/ Voltage!WaitReady \/ Voltage!setREN \/ Voltage!systemReset
           \/ Voltage!PowerLoss
    BY <1>3 DEF Voltage!setWEN, Voltage!WaitReady, Voltage!setREN, Voltage!systemReset,
       Voltage!PowerLoss
<1>4. CASE UNCHANGED uicr
    BY <1>4 DEF uicr
<1> QED
    BY <1>1, <1>2, <1>3, <1>4 DEF Voltage!Next, Voltage!Step

\* highVoltageMode(true) changes the voltage from its default only, and to 3.0 V only,
\* whatever resets, losses of power and calls come between the comparison of the register
\* and the write to it (nrf52840.cpp:69-75).
THEOREM RaisedOnce == Spec => RaisedFromDefault
<1>1. Init => VoltageInv
    BY DEF Init, VoltageInv, Voltage!VoltageInv, Voltage!Init, Voltage!VOUT_DEFAULT
<1>2. VoltageInv /\ [Next]_vars => VoltageInv'
    BY StepVoltage, StepVoltageInv
<1>3. VoltageInv /\ [Next]_vars =>
          [REGOUT0' # REGOUT0 /\ en => REGOUT0 = Voltage!VOUT_DEFAULT
                                      /\ REGOUT0' = Voltage!VOUT_3V0]_(Voltage!vars)
    BY StepVoltage, StepVoltageInv
<1> QED
    BY <1>1, <1>2, <1>3, PTL DEF Spec, RaisedFromDefault, Voltage!RaisedFromDefault

-----------------------------------------------------------------------------
(* The delays.                                                             *)

LEMMA Wraps ==
    ASSUME NEW a \in 0..(Round - 1), NEW b \in 0..(Round - 1)
    PROVE  /\ (a + 1) % Round = IF a + 1 = Round THEN 0 ELSE a + 1
           /\ (a + Round - b) % Round = IF a >= b THEN a - b ELSE a + Round - b
<1> USE RoundAssumption
<1>1. \A q \in 0..(Round - 1) : q % Round = q /\ (q + Round) % Round = q
    OBVIOUS
<1> QED
    BY <1>1

LEMMA InitSpin == Init => WaitInv /\ CounterInv
<1> SUFFICES ASSUME SpinInit PROVE WaitInv /\ CounterInv
    BY DEF Init
<1>1. Tracing = {} /\ Counting = {}
    BY DEF SpinInit, Tracing, Counting
<1>2. Main \in Contexts
    BY DEF Contexts
<1>3. WaitInv
    BY RoundAssumption DEF SpinInit, WaitInv
<1>4. CounterInv
  <2>1. ~TRCENA /\ ~CYCCNTENA /\ Main \notin Tracing /\ Main \notin Counting
    BY <1>1 DEF SpinInit
  <2>2. /\ core_debug = [c \in Contexts |-> FALSE] /\ dwt_ctrl = [c \in Contexts |-> FALSE]
        /\ \A c \in Contexts : spinning[c] = "no"
    BY DEF SpinInit
  <2>3. TRCENA = (Tracing # {}) /\ CYCCNTENA = (Counting # {})
    BY <1>1 DEF SpinInit
  <2> QED
    BY <1>1, <1>2, <2>1, <2>2, <2>3 DEF CounterInv, Contexts
<1> QED
    BY <1>3, <1>4

LEMMA StepWaitInv ==
    ASSUME WaitInv, [Next]_vars
    PROVE  WaitInv'
<1> USE RoundAssumption
<1>a. \A c \in Contexts : Measured(c) \in 0..(Round - 1)
    BY DEF WaitInv, Measured
<1>1. CASE UNCHANGED spin_
    BY <1>1 DEF spin_, dwt, call, WaitInv, Measured
<1>2. CASE ResetAll
    BY <1>2 DEF ResetAll, WaitInv
<1>3. ASSUME NEW c \in Contexts, NEW d \in Delays, spin(c, d) PROVE WaitInv'
  <2>1. (d * CPU_FREQ_MHZ) % Round \in 0..(Round - 1)
    <3>1. d * CPU_FREQ_MHZ \in Nat
      BY DelayAssumption
    <3> HIDE DEF dwt
    <3> QED
      BY <3>1
  <2> QED
    BY <1>3, <2>1 DEF spin, dwt, Goto, WaitInv, Measured
<1>4. ASSUME NEW c \in Contexts, SpinStep(c) PROVE WaitInv'
  <2> USE <1>4 DEF Goto, dwt
  <2>1. CASE EnableTrace(c) \/ EnableCounter(c) \/ RestoreCtrl(c)
    BY <2>1 DEF EnableTrace, EnableCounter, RestoreCtrl, WaitInv, Measured
  <2>2. CASE ReadInitial(c)
    <3>1. (CYCCNT + Round - CYCCNT) % Round = 0
      BY Wraps DEF WaitInv
    <3> QED
      BY <2>2, <3>1 DEF ReadInitial, WaitInv, Measured
  <2>3. CASE PollEnds(c)
    BY <2>3, <1>a DEF PollEnds, Elapsed, WaitInv, Measured
  <2>4. CASE RestoreDebug(c)
    BY <2>4 DEF RestoreDebug, WaitInv, Measured
  <2> QED
    BY <2>1, <2>2, <2>3, <2>4 DEF SpinStep
<1>5. CASE Cycle
  <2> USE <1>5 DEF Cycle
  <2>1. CYCCNT' \in {CYCCNT, IF CYCCNT + 1 = Round THEN 0 ELSE CYCCNT + 1}
    BY Wraps DEF WaitInv
  <2>2. CYCCNT' \in 0..(Round - 1)
    BY <2>1 DEF WaitInv
  <2>3. \A c \in Contexts : Measured(c)' \in 0..(Round - 1) /\ Measured(c)' <= Measured(c) + 1
    <3> SUFFICES ASSUME NEW c \in Contexts
                 PROVE  Measured(c)' \in 0..(Round - 1) /\ Measured(c)' <= Measured(c) + 1
        OBVIOUS
    <3> DEFINE b == cyccnt_initial[c]
               W(a) == IF a >= b THEN a - b ELSE a + Round - b
    <3>1. b \in 0..(Round - 1) /\ UNCHANGED b
      BY DEF WaitInv
    <3>2. Measured(c) = W(CYCCNT) /\ Measured(c)' = W(CYCCNT')
      BY <2>2, <3>1, Wraps DEF WaitInv, Measured
    <3> HIDE DEF b
    <3> QED
      BY <2>1, <3>1, <3>2 DEF WaitInv
  <2> QED
    BY <1>a, <2>2, <2>3 DEF WaitInv
<1> QED
    BY <1>1, <1>2, <1>3, <1>4, <1>5, StepSpin

\* A delay is never cut short, wherever the counter wraps, and whoever else switches
\* it off and on or resets the processor in the meantime (nrf52840.cpp:85-113).
THEOREM NeverShort == Spec => []SpinWaits
<1>1. WaitInv => SpinWaits
    BY DEF WaitInv, SpinWaits
<1> QED
    BY <1>1, InitSpin, StepWaitInv, PTL DEF Spec

-----------------------------------------------------------------------------
(* The counter.                                                            *)

LEMMA StepCounterInv ==
    ASSUME OneInterrupt, WaitInv, CounterInv, [Next]_vars
    PROVE  CounterInv'
<1>a. Main \in Contexts /\ Others \subseteq Contexts /\ Main \notin Others
    BY ContextsAssumption DEF Contexts
<1>b. spinning \in [Contexts -> {"no", "debug", "ctrl", "initial", "poll", "restore", "trace"}]
    BY DEF WaitInv
<1>c. ASSUME NEW c \in Contexts, Runs(c)
      PROVE  \/ c \in Others /\ \A o \in Contexts : o \in {c, Main}
             \/ c = Main /\ \A o \in Others : spinning[o] = "no"
    BY <1>c DEF Runs, OneInterrupt, Contexts
<1>1. CASE UNCHANGED spin_
    BY <1>1 DEF spin_, dwt, call, CounterInv, Tracing, Counting
<1>2. CASE ResetAll
  <2>1. Tracing' = {} /\ Counting' = {}
    BY <1>2 DEF ResetAll, Tracing, Counting
  <2> QED
    BY <1>a, <1>2, <2>1 DEF ResetAll, CounterInv
<1>3. ASSUME NEW c \in Contexts, NEW d \in Delays, spin(c, d) PROVE CounterInv'
  <2>1. Tracing' = Tracing /\ Counting' = Counting
    BY <1>b, <1>3 DEF spin, Goto, Tracing, Counting
  <2> QED
    BY <1>a, <1>b, <1>3, <2>1 DEF spin, Goto, dwt, CounterInv
<1>4. ASSUME NEW c \in Contexts, SpinStep(c) PROVE CounterInv'
  <2> USE <1>a, <1>b DEF Goto, dwt
  <2>0. Runs(c)
    BY <1>4 DEF SpinStep, EnableTrace, EnableCounter, ReadInitial, PollEnds, RestoreCtrl,
       RestoreDebug
  <2>1. CASE EnableTrace(c)
    <3>1. /\ Tracing' = Tracing \cup {c} /\ Counting' = Counting /\ c \notin Tracing
          /\ spinning'[c] = "ctrl" /\ \A o \in Contexts \ {c} : spinning'[o] = spinning[o]
      BY <2>1 DEF EnableTrace, Tracing, Counting
    <3>2. /\ TRCENA' /\ core_debug' = [core_debug EXCEPT ![c] = (Tracing # {})]
          /\ UNCHANGED <<CYCCNTENA, dwt_ctrl>>
      BY <2>1 DEF EnableTrace, CounterInv
    <3>3. c # Main => (Tracing # {}) = (Main \in Tracing)
      BY <1>c, <2>0, <3>1 DEF Tracing
    <3>4. c = Main => Tracing = {}
      BY <1>c, <2>0, <3>1 DEF Tracing, Contexts
    <3>5. core_debug' \in [Contexts -> BOOLEAN] /\ ~core_debug'[Main]
      BY <3>2, <3>4 DEF CounterInv
    <3>6. \A o \in Others \cap Tracing' : core_debug'[o] = (Main \in Tracing')
      BY <1>c, <2>0, <3>1, <3>2, <3>3 DEF CounterInv, Tracing
    <3>7. \A o \in Others : spinning'[o] \in {"initial", "poll", "restore"} =>
                                dwt_ctrl'[o] = (Main \in Counting')
      BY <3>1, <3>2 DEF CounterInv
    <3> QED
      BY <3>1, <3>2, <3>5, <3>6, <3>7 DEF CounterInv
  <2>2. CASE EnableCounter(c)
    <3>1. /\ Tracing' = Tracing /\ Counting' = Counting \cup {c} /\ c \notin Counting
          /\ spinning'[c] = "initial" /\ \A o \in Contexts \ {c} : spinning'[o] = spinning[o]
      BY <2>2 DEF EnableCounter, Tracing, Counting
    <3>2. /\ CYCCNTENA' /\ dwt_ctrl' = [dwt_ctrl EXCEPT ![c] = (Counting # {})]
          /\ UNCHANGED <<TRCENA, core_debug>>
      BY <2>2 DEF EnableCounter, CounterInv
    <3>3. c # Main => (Counting # {}) = (Main \in Counting)
      BY <1>c, <2>0, <3>1 DEF Counting
    <3>4. c = Main => Counting = {}
      BY <1>c, <2>0, <3>1 DEF Counting, Contexts
    <3>5. dwt_ctrl' \in [Contexts -> BOOLEAN] /\ ~dwt_ctrl'[Main]
      BY <3>2, <3>4 DEF CounterInv
    <3>6. \A o \in Others : spinning'[o] \in {"initial", "poll", "restore"} =>
                                dwt_ctrl'[o] = (Main \in Counting')
      BY <1>c, <2>0, <3>1, <3>2, <3>3 DEF CounterInv
    <3> QED
      BY <3>1, <3>2, <3>5, <3>6 DEF CounterInv
  <2>3. CASE ReadInitial(c) \/ PollEnds(c)
    <3>1. Tracing' = Tracing /\ Counting' = Counting
      BY <2>3 DEF ReadInitial, PollEnds, Tracing, Counting
    <3> QED
      BY <2>3, <3>1 DEF ReadInitial, PollEnds, CounterInv
  <2>4. CASE RestoreCtrl(c)
    <3>1. /\ Tracing' = Tracing /\ Counting' = Counting \ {c} /\ c \in Counting
          /\ spinning'[c] = "trace" /\ \A o \in Contexts \ {c} : spinning'[o] = spinning[o]
      BY <2>4 DEF RestoreCtrl, Tracing, Counting
    <3>2. UNCHANGED <<TRCENA, core_debug, dwt_ctrl>> /\ CYCCNTENA' = dwt_ctrl[c]
      BY <2>4 DEF RestoreCtrl
    <3>3. CYCCNTENA' = (Counting' # {})
      <4>1. CASE c \in Others
        <5>1. (Counting' # {}) = (Main \in Counting)
          BY <1>c, <2>0, <3>1, <4>1 DEF Counting
        <5> QED
          BY <2>4, <3>2, <4>1, <5>1 DEF RestoreCtrl, CounterInv
      <4>2. CASE c = Main
        <5>1. Counting' = {}
          BY <1>c, <2>0, <3>1, <4>2 DEF Counting, Contexts
        <5> QED
          BY <3>2, <4>2, <5>1 DEF CounterInv
      <4> QED
        BY <4>1, <4>2 DEF Contexts
    <3>4. \A o \in Others : spinning'[o] \in {"initial", "poll", "restore"} =>
                                dwt_ctrl'[o] = (Main \in Counting')
      BY <1>c, <2>0, <3>1, <3>2 DEF CounterInv
    <3> QED
      BY <3>1, <3>2, <3>3, <3>4 DEF CounterInv
  <2>5. CASE RestoreDebug(c)
    <3>1. /\ Tracing' = Tracing \ {c} /\ Counting' = Counting /\ c \in Tracing
          /\ spinning'[c] = "no" /\ \A o \in Contexts \ {c} : spinning'[o] = spinning[o]
      BY <2>5 DEF RestoreDebug, Tracing, Counting
    <3>2. /\ UNCHANGED CYCCNTENA /\ TRCENA' = core_debug[c]
          /\ core_debug' = [core_debug EXCEPT ![c] = FALSE]
          /\ dwt_ctrl' = [dwt_ctrl EXCEPT ![c] = FALSE]
      BY <2>5 DEF RestoreDebug
    <3>3. TRCENA' = (Tracing' # {})
      <4>1. CASE c \in Others
        <5>1. (Tracing' # {}) = (Main \in Tracing)
          BY <1>c, <2>0, <3>1, <4>1 DEF Tracing
        <5> QED
          BY <3>1, <3>2, <4>1, <5>1 DEF CounterInv
      <4>2. CASE c = Main
        <5>1. Tracing' = {}
          BY <1>c, <2>0, <3>1, <4>2 DEF Tracing, Contexts
        <5> QED
          BY <3>2, <4>2, <5>1 DEF CounterInv
      <4> QED
        BY <4>1, <4>2 DEF Contexts
    <3>4. core_debug' \in [Contexts -> BOOLEAN] /\ dwt_ctrl' \in [Contexts -> BOOLEAN]
          /\ ~core_debug'[Main] /\ ~dwt_ctrl'[Main]
      BY <3>2 DEF CounterInv
    <3>5. \A o \in Others \cap Tracing' : core_debug'[o] = (Main \in Tracing')
      BY <1>c, <2>0, <3>1, <3>2 DEF CounterInv, Tracing
    <3>6. \A o \in Others : spinning'[o] \in {"initial", "poll", "restore"} =>
                                dwt_ctrl'[o] = (Main \in Counting')
      BY <3>1, <3>2 DEF CounterInv
    <3> QED
      BY <3>1, <3>2, <3>3, <3>4, <3>5, <3>6 DEF CounterInv
  <2> QED
    BY <1>4, <2>1, <2>2, <2>3, <2>4, <2>5 DEF SpinStep
<1>5. CASE Cycle
  <2>1. Tracing' = Tracing /\ Counting' = Counting
    BY <1>5 DEF Cycle, Tracing, Counting
  <2> QED
    BY <1>5, <2>1 DEF Cycle, CounterInv
<1> QED
    BY <1>1, <1>2, <1>3, <1>4, <1>5, StepSpin

\* After any nested calls of the thread and the interrupt, and any resets, the trace
\* unit and the counter are off again, as they were found (nrf52840.cpp:86-94, 109-112).
THEOREM CounterPutBack == ASSUME OneInterrupt PROVE Spec => []CounterAsFound
<1>1. CounterInv => CounterAsFound
  <2> SUFFICES ASSUME CounterInv, \A c \in Contexts : spinning[c] = "no"
               PROVE  ~TRCENA /\ ~CYCCNTENA
      BY DEF CounterAsFound
  <2>1. Tracing = {} /\ Counting = {}
      BY DEF Tracing, Counting
  <2> QED
      BY <2>1 DEF CounterInv
<1>2. WaitInv /\ CounterInv /\ [Next]_vars => WaitInv' /\ CounterInv'
    BY StepWaitInv, StepCounterInv
<1> QED
    BY <1>1, <1>2, InitSpin, PTL DEF Spec

\* The thread's poll goes on after the interrupt's call: the counter is still on.
THEOREM PollsARunningCounter == ASSUME OneInterrupt PROVE Spec => []CounterRuns
<1>1. CounterInv => CounterRuns
  <2> SUFFICES ASSUME CounterInv, NEW c \in Contexts, spinning[c] = "poll"
               PROVE  TRCENA /\ CYCCNTENA
      BY DEF CounterRuns
  <2>1. c \in Tracing /\ c \in Counting
      BY DEF Tracing, Counting
  <2> QED
      BY <2>1 DEF CounterInv
<1>2. WaitInv /\ CounterInv /\ [Next]_vars => WaitInv' /\ CounterInv'
    BY StepWaitInv, StepCounterInv
<1> QED
    BY <1>1, <1>2, InitSpin, PTL DEF Spec
===============================================================================
