-------------------------------- MODULE RtcTick --------------------------------
(***************************************************************************)
(* The tick of the FreeRTOS port kept by an RTC: xPortSysTickHandler,      *)
(* which corrects xTickCount by the counter of the RTC, and                *)
(* vPortSuppressTicksAndSleep, which stops the tick while the kernel is    *)
(* idle.  The text is nrf51/port_cmsis_systick.c; nrf52 repeats it.        *)
(*                                                                         *)
(* The RTC counts on between any two register accesses.  behind is a       *)
(* history variable: RTC ticks that have elapsed and that neither          *)
(* xTickCount nor xPendedTicks has counted; below 0 the kernel is ahead.   *)
(* A local of code that is not running is 0, or the latest idle time.      *)
(***************************************************************************)
EXTENDS Integers

CONSTANTS
    MAXTICKS,       \* portNRF_RTC_MAXTICKS, one less than a power of two
    TickMax,        \* the largest TickType_t, which is wider
    BeforeSleep,    \* configEXPECTED_IDLE_TIME_BEFORE_SLEEP
    IdleTimes,      \* what the idle task may expect
    MaxBehind,      \* ticks that interrupts may hold the handler back, and that
                    \* the kernel may be behind when a sleep begins
    MaxPended,      \* ticks for which the scheduler may be suspended
    WakeLatency,    \* ticks from the compare until the code goes on; one more
                    \* may pass in each of the last two steps of a sleep
    ConfirmsPended, \* eTaskConfirmSleepModeStatus aborts on pended ticks
    PromptSleep     \* no tick passes between enterTime and the compare register

ASSUME CounterAssumption ==
    /\ {MAXTICKS, TickMax, BeforeSleep, MaxBehind, MaxPended, WakeLatency} \subseteq Nat
    /\ (TickMax + 1) % (MAXTICKS + 1) = 0
    /\ MaxBehind + MaxPended < MAXTICKS
    /\ WakeLatency < BeforeSleep
ASSUME IdleAssumption == \A t \in IdleTimes : t \in Nat /\ t >= BeforeSleep
ASSUME EnvironmentAssumption == {ConfirmsPended, PromptSleep} \subseteq BOOLEAN

VARIABLES
    COUNTER, CC0, events, inten, \* of the RTC
    pending,                     \* of its interrupt in the NVIC
    xTickCount, xPendedTicks,
    suspended,                   \* the scheduler is suspended
    handler,                     \* how far xPortSysTickHandler has come
    systick_counter,
    sleep,                       \* how far vPortSuppressTicksAndSleep has come
    xExpectedIdleTime, enterTime, exitTime,
    behind

rtc     == <<COUNTER, CC0, events, inten>>
kernel  == <<xTickCount, xPendedTicks, suspended>>
isr     == <<handler, systick_counter>>
sleeper == <<sleep, xExpectedIdleTime, enterTime, exitTime>>
vars    == <<rtc, pending, kernel, isr, sleeper, behind>>

Masked(n) == n % (MAXTICKS + 1)

\* A sum of the type TickType_t.
TickType_t(n) == n % (TickMax + 1)

\* The RTC is cleared and started with TICK enabled, before the first task.
vPortSetupTimerInterrupt ==
    /\ COUNTER = 0 /\ CC0 = 0 /\ events = {} /\ inten = {"TICK"} /\ pending = FALSE

Init ==
    /\ vPortSetupTimerInterrupt
    /\ xTickCount = 0 /\ xPendedTicks = 0 /\ suspended = FALSE
    /\ handler = "out" /\ systick_counter = 0
    /\ sleep = "awake" /\ xExpectedIdleTime = BeforeSleep
    /\ enterTime = 0 /\ exitTime = 0
    /\ behind = 0

-----------------------------------------------------------------------------
(* The RTC and its interrupt line.                                         *)

Latch == pending' = (pending \/ (events' \cap inten' # {} /\ events \cap inten = {}))

\* How far the RTC may run before the code goes on.
MayTick ==
    CASE sleep = "awake"   -> /\ xPendedTicks < MaxPended
                              /\ behind < MaxBehind \/ (handler = "out" /\ ~pending)
      [] sleep = "confirm" -> behind < MaxBehind
      [] sleep = "program" -> ~PromptSleep /\ Masked(COUNTER - enterTime) < MaxBehind
      [] sleep = "exit"    -> "TICK" \notin events
      [] sleep = "step"    -> COUNTER = exitTime
      [] OTHER -> "COMPARE_0" \in events => Masked(COUNTER - CC0) < WakeLatency

RtcTicks ==
    /\ MayTick
    /\ COUNTER' = Masked(COUNTER + 1)
    /\ events' = events \cup {"TICK"} \cup (IF COUNTER' = CC0 THEN {"COMPARE_0"} ELSE {})
    /\ behind' = behind + 1
    /\ UNCHANGED <<CC0, inten, kernel, isr, sleeper>>
    /\ Latch

-----------------------------------------------------------------------------
(* The kernel: vTaskSuspendAll and xTaskResumeAll, which replays the ticks *)
(* that were counted in between.                                           *)

SuspendAll ==
    /\ ~suspended /\ handler = "out"
    /\ suspended' = TRUE
    /\ UNCHANGED <<rtc, pending, xTickCount, xPendedTicks, isr, sleeper, behind>>

ResumeAll ==
    /\ suspended /\ handler = "out" /\ sleep = "awake"
    /\ suspended' = FALSE
    /\ xTickCount' = TickType_t(xTickCount + xPendedTicks) /\ xPendedTicks' = 0
    /\ UNCHANGED <<rtc, pending, isr, sleeper, behind>>

\* n times xTaskIncrementTick.
IncrementTicks(n) ==
    /\ IF suspended
       THEN xPendedTicks' = xPendedTicks + n /\ UNCHANGED xTickCount
       ELSE xTickCount' = TickType_t(xTickCount + n) /\ UNCHANGED xPendedTicks
    /\ behind' = behind - n

-----------------------------------------------------------------------------
(* xPortSysTickHandler.                                                    *)

HandlerEnter ==
    /\ handler = "out" /\ handler' = "read"
    /\ sleep = "awake" /\ pending
    /\ pending' = FALSE
    /\ events' = events \ {"COMPARE_0"}
    /\ UNCHANGED <<COUNTER, CC0, inten, kernel, systick_counter, sleeper, behind>>

HandlerRead ==
    /\ handler = "read" /\ handler' = "count"
    /\ systick_counter' = COUNTER
    /\ UNCHANGED <<rtc, pending, kernel, sleeper, behind>>

\* Mutant: every interrupt counts one tick.
CorrectionNone == 1

\* Mutant: no limit while the scheduler is suspended.
CorrectionUnlimited == Masked(systick_counter - xTickCount)

\* "At most 1 step if scheduler is suspended"
Correction ==
    LET diff == Masked(systick_counter - xTickCount)
    IN  IF diff > 1 /\ suspended THEN 1 ELSE diff

HandlerCount ==
    /\ handler = "count" /\ handler' = "out"
    /\ events' = events \ {"TICK"}
    /\ IncrementTicks(Correction)
    /\ systick_counter' = 0
    /\ UNCHANGED <<COUNTER, CC0, inten, pending, suspended, sleeper>>

HandlerStep == HandlerEnter \/ HandlerRead \/ HandlerCount

-----------------------------------------------------------------------------
(* vPortSuppressTicksAndSleep, called by the idle task with the scheduler  *)
(* suspended.  Interrupts are off until it returns.                        *)

\* Mutant: the counter may wrap during the sleep.
Unclamped(t) == t

\* "Make sure the SysTick reload value does not overflow the counter."
Clamped(t) == IF t > MAXTICKS - BeforeSleep THEN MAXTICKS - BeforeSleep ELSE t

Suppress ==
    /\ sleep = "awake" /\ sleep' = "confirm"
    /\ suspended /\ handler = "out" /\ behind <= MaxBehind
    /\ \E t \in IdleTimes : xExpectedIdleTime' = Clamped(t)
    /\ UNCHANGED <<rtc, pending, kernel, isr, enterTime, exitTime, behind>>

\* eTaskConfirmSleepModeStatus may abort for its own reasons, too.
Confirm ==
    /\ sleep = "confirm"
    /\ \/ sleep' = "awake" /\ UNCHANGED enterTime
       \/ /\ sleep' = "program" /\ enterTime' = COUNTER
          /\ ConfirmsPended => xPendedTicks = 0
    /\ UNCHANGED <<rtc, pending, kernel, isr, xExpectedIdleTime, exitTime, behind>>

\* TICK off; the compare is set and enabled.
Program ==
    /\ sleep = "program" /\ sleep' = "wait"
    /\ CC0' = Masked(enterTime + xExpectedIdleTime)
    /\ events' = events \ {"COMPARE_0"}
    /\ inten' = {"COMPARE_0"}
    /\ Latch
    /\ UNCHANGED <<COUNTER, kernel, isr, xExpectedIdleTime, enterTime, exitTime, behind>>

\* __WFE until an interrupt is pending, that of the RTC or another.
WakeForRtc ==
    /\ sleep = "wait" /\ sleep' = "woken"
    /\ pending
    /\ UNCHANGED <<rtc, pending, kernel, isr, xExpectedIdleTime, enterTime, exitTime, behind>>

WakeForOther ==
    /\ sleep = "wait" /\ sleep' = "woken"
    /\ UNCHANGED <<rtc, pending, kernel, isr, xExpectedIdleTime, enterTime, exitTime, behind>>

\* The compare off again, TICK cleared and on.
Restart ==
    /\ sleep = "woken" /\ sleep' = "exit"
    /\ events' = events \ {"COMPARE_0", "TICK"}
    /\ inten' = {"TICK"}
    /\ UNCHANGED <<COUNTER, CC0, pending, kernel, isr, xExpectedIdleTime, enterTime, exitTime,
                   behind>>

ReadExit ==
    /\ sleep = "exit" /\ sleep' = "step"
    /\ exitTime' = COUNTER
    /\ UNCHANGED <<rtc, pending, kernel, isr, xExpectedIdleTime, enterTime, behind>>

\* configUSE_TICKLESS_IDLE_SIMPLE_DEBUG is 1: no more than the expected ticks.
Elapsed ==
    LET diff == Masked(exitTime - enterTime)
    IN  IF diff > xExpectedIdleTime THEN xExpectedIdleTime ELSE diff

\* The interrupt stays pending while its line is high.
StepTick ==
    /\ sleep = "step" /\ sleep' = "awake"
    /\ pending' = (events \cap inten # {})
    /\ xTickCount' = TickType_t(xTickCount + Elapsed)
    /\ behind' = behind - Elapsed
    /\ enterTime' = 0 /\ exitTime' = 0
    /\ UNCHANGED <<rtc, xPendedTicks, suspended, isr, xExpectedIdleTime>>

SleepStep == \/ Confirm \/ Program \/ WakeForRtc \/ WakeForOther
             \/ Restart \/ ReadExit \/ StepTick

-----------------------------------------------------------------------------
Next ==
    \/ RtcTicks \/ SuspendAll \/ ResumeAll
    \/ HandlerStep
    \/ Suppress \/ SleepStep

Spec == Init /\ [][Next]_vars

-----------------------------------------------------------------------------
(* Properties.                                                             *)

\* The kernel never counts a tick that has not elapsed, or one twice: not when
\* the handler runs while the scheduler is suspended, and not when a tick
\* falls between the end of a sleep and its correction.
TickNeverAhead == behind >= 0

\* No round of the counter is lost in a sleep: afterwards the kernel is behind
\* by no more than the interrupt can be late and the wake-up can take.
SleepCounted == sleep = "awake" => behind <= MaxBehind + WakeLatency + 2

\* Ticks that were lost, by a late handler, a suspended scheduler or a sleep
\* that was cut to the expected time, are made up for: when the handler ends
\* with the scheduler running, the kernel is where the counter was as it was read.
CatchesUp ==
    [][handler = "count" /\ handler' = "out" /\ ~suspended
           => behind' = Masked(COUNTER - systick_counter)]_vars

-----------------------------------------------------------------------------
(* The invariants behind them.                                             *)

\* The states of a sleep in which its first reading of the counter is kept.
Asleep == {"program", "wait", "woken", "exit", "step"}
ByTick == {"awake", "confirm"}

TypeOK ==
    /\ {COUNTER, CC0, systick_counter, enterTime, exitTime} \subseteq 0..MAXTICKS
    /\ events \subseteq {"TICK", "COMPARE_0"} /\ inten \in {{"TICK"}, {"COMPARE_0"}}
    /\ {pending, suspended} \subseteq BOOLEAN
    /\ xTickCount \in 0..TickMax /\ xPendedTicks \in Nat
    /\ handler \in {"out", "read", "count"} /\ sleep \in ByTick \cup Asleep
    /\ xExpectedIdleTime \in Int /\ behind \in Int

\* The interrupt of a TICK stays pending, or is being handled, until it is cleared.
LineInv ==
    /\ sleep # "awake" => suspended /\ handler = "out"
    /\ sleep \in ByTick \cup {"program", "exit", "step"} => inten = {"TICK"}
    /\ sleep \in ByTick => (pending <=> handler = "out" /\ "TICK" \in events)
    /\ handler # "out" => "TICK" \in events

\* Every tick of the counter is in xTickCount, in xPendedTicks or in behind, and
\* neither the handler nor a sleep takes more than there is.
AheadInv ==
    /\ behind >= 0
    /\ COUNTER = Masked(xTickCount + xPendedTicks + behind)
    /\ ~suspended \/ sleep \in Asleep => xPendedTicks = 0
    /\ sleep \in ByTick /\ (pending \/ handler # "out") /\ xPendedTicks > 0 => behind >= 1
    /\ handler = "count" => behind >= Masked(systick_counter - xTickCount - xPendedTicks)
    /\ sleep \in Asleep \ {"step"} => behind >= Masked(COUNTER - enterTime)
    /\ sleep = "step" => behind >= Masked(exitTime - enterTime)

\* What the lateness of the handler, the suspended scheduler and the wake-up add
\* up to is less than a round, and the shortest sleep, too.
RoomInRound ==
    /\ MaxBehind + MaxPended + WakeLatency + 2 <= MAXTICKS
    /\ BeforeSleep < MAXTICKS

MostBehind == MaxBehind + WakeLatency + 2

\* The handler loses no tick between its reading and its count.
ReadingInv ==
    /\ sleep = "awake" => behind <= MostBehind
    /\ sleep = "awake" /\ handler = "out" /\ ~pending => behind < MostBehind
    /\ xPendedTicks > MaxPended + 1 => behind <= MaxBehind
    /\ xPendedTicks > MaxPended /\ (pending \/ handler # "out") => behind <= MaxBehind
    /\ handler = "count" =>
          /\ behind = Masked(systick_counter - xTickCount - xPendedTicks)
                        + Masked(COUNTER - systick_counter)
          /\ COUNTER # systick_counter => behind <= MaxBehind

\* A sleep is shorter than a round of the counter: the compare comes in time.
SleepInv ==
    LET slept == Masked(COUNTER - enterTime)
        late  == slept - xExpectedIdleTime
    IN  /\ sleep # "awake" => xExpectedIdleTime \in 1..(MAXTICKS - BeforeSleep)
        /\ sleep = "confirm" => behind <= MaxBehind
        /\ sleep \in Asleep \ {"step"} => behind <= MaxBehind + slept
        /\ sleep = "program" => COUNTER = enterTime
        /\ sleep \in {"wait", "woken"} =>
              /\ CC0 = Masked(enterTime + xExpectedIdleTime)
              /\ late <= WakeLatency /\ ("COMPARE_0" \in events <=> late >= 0)
        /\ sleep = "exit" =>
              late <= IF "TICK" \in events THEN WakeLatency + 1 ELSE WakeLatency
        /\ sleep = "step" =>
              LET measured == Masked(exitTime - enterTime)
              IN  /\ "TICK" \notin events =>
                        COUNTER = exitTime /\ measured <= xExpectedIdleTime + WakeLatency
                  /\ measured <= xExpectedIdleTime + WakeLatency + 1
                  /\ behind <= MaxBehind + measured + IF COUNTER = exitTime THEN 0 ELSE 1
=============================================================================
