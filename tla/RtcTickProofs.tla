---------------------------- MODULE RtcTickProofs ----------------------------
(***************************************************************************)
(* Proofs about RtcTick, for any widths of the counter and of the tick     *)
(* count, any idle times and any bounds on how late the code is.           *)
(***************************************************************************)
EXTENDS RtcTick, TLAPS

-----------------------------------------------------------------------------
(* Sums in the width of the counter.                                       *)

LEMMA Widths ==
    /\ MAXTICKS \in Nat /\ TickMax \in Nat /\ BeforeSleep \in Nat /\ MaxBehind \in Nat
    /\ MaxPended \in Nat /\ WakeLatency \in Nat
    /\ MAXTICKS + 1 \in Nat \ {0} /\ TickMax + 1 \in Nat \ {0}
    /\ MaxBehind + MaxPended < MAXTICKS /\ WakeLatency < BeforeSleep
BY CounterAssumption

\* A number is its remainder and a number of rounds.
LEMMA Rounds ==
    ASSUME NEW r \in Nat \ {0}, NEW a \in Int
    PROVE  a % r \in 0..(r - 1) /\ \E q \in Int : a = q * r + (a % r)
<1>1. a = (a \div r) * r + (a % r) /\ a \div r \in Int
    OBVIOUS
<1>2. a % r \in 0..(r - 1)
    OBVIOUS
<1> QED
    BY <1>1, <1>2

LEMMA SameRemainder ==
    ASSUME NEW r \in Nat \ {0}, NEW q \in Int, NEW b \in 0..(r - 1)
    PROVE  (q * r + b) % r = b
<1> DEFINE a == q * r + b
<1>1. a \in Int
    OBVIOUS
<1>2. PICK p \in Int : a = p * r + (a % r)
    BY <1>1, Rounds
<1>3. a % r \in 0..(r - 1)
    BY <1>1, Rounds
<1>4. (p - q) * r = b - (a % r)
    BY <1>2, <1>3
<1>5. b - (a % r) < r /\ b - (a % r) > -r
    BY <1>3
<1>6. p - q = 0
  <2> DEFINE d == p - q
  <2>1. d \in Int /\ d * r < r /\ d * r > -r
    BY <1>4, <1>5
  <2> HIDE DEF d
  <2>2. ~(d >= 1) /\ ~(d <= -1)
    BY <2>1
  <2>3. d = 0
    BY <2>1, <2>2
  <2> QED
    BY <2>3 DEF d
<1> QED
    BY <1>3, <1>4, <1>6

LEMMA MaskedRange == \A a \in Int : Masked(a) \in 0..MAXTICKS
BY Widths, Rounds DEF Masked

LEMMA TickRange == \A a \in Int : TickType_t(a) \in 0..TickMax
BY Widths, Rounds DEF TickType_t

LEMMA MaskedSmall == \A a \in 0..MAXTICKS : Masked(a) = a
<1> SUFFICES ASSUME NEW a \in 0..MAXTICKS PROVE Masked(a) = a
    OBVIOUS
<1>1. a = 0 * (MAXTICKS + 1) + a
    BY Widths
<1> QED
    BY <1>1, Widths, SameRemainder DEF Masked

LEMMA MaskedRounds ==
    ASSUME NEW a \in Int, NEW q \in Int
    PROVE  Masked(a + q * (MAXTICKS + 1)) = Masked(a)
<1> DEFINE R == MAXTICKS + 1
<1>1. R \in Nat \ {0}
    BY Widths
<1>2. PICK p \in Int : a = p * R + (a % R)
    BY <1>1, Rounds
<1>3. a % R \in 0..(R - 1)
    BY <1>1, Rounds
<1> HIDE DEF R
<1>4. a + q * R = (p + q) * R + (a % R)
    BY <1>1, <1>2, <1>3
<1>5. p + q \in Int
    OBVIOUS
<1> QED
    BY <1>1, <1>3, <1>4, <1>5, SameRemainder DEF R, Masked

\* Wrapping a term first makes no difference.
LEMMA MaskedSum ==
    ASSUME NEW a \in Int, NEW b \in Int
    PROVE  Masked(Masked(a) + b) = Masked(a + b)
<1> DEFINE R == MAXTICKS + 1
<1>1. PICK p \in Int : a = p * R + Masked(a)
    BY Widths, Rounds DEF Masked
<1>2. Masked(a) \in Int /\ R \in Int
    BY Widths, MaskedRange
<1> HIDE DEF R
<1>3. a + b = (Masked(a) + b) + p * R /\ Masked(a) + b \in Int
    BY <1>1, <1>2
<1> QED
    BY <1>3, MaskedRounds DEF R

\* The tick count is a whole number of rounds wide.
LEMMA MaskedTick ==
    ASSUME NEW a \in Int, NEW b \in Int
    PROVE  Masked(TickType_t(a) + b) = Masked(a + b)
<1> DEFINE R == MAXTICKS + 1
           T == TickMax + 1
<1>1. PICK m \in Int : T = m * R
  <2>1. T % R = 0
    BY CounterAssumption
  <2>2. R \in Nat \ {0} /\ T \in Int
    BY Widths
  <2> HIDE DEF R, T
  <2>3. \E q \in Int : T = q * R + (T % R)
    BY <2>2, Rounds
  <2>4. PICK q \in Int : T = q * R + (T % R)
    BY <2>3
  <2>5. T = q * R
    BY <2>1, <2>2, <2>4
  <2> QED
    BY <2>5
<1>2. PICK p \in Int : a = p * T + TickType_t(a)
    BY Widths, Rounds DEF TickType_t
<1>3. TickType_t(a) \in Int /\ R \in Int /\ T \in Int
    BY Widths, Rounds DEF TickType_t
<1> HIDE DEF R, T
<1> DEFINE w == p * m
<1>4. p * T = w * R /\ w \in Int
    BY <1>1, <1>3
<1> HIDE DEF w
<1>5. w * R \in Int
    BY <1>3, <1>4
<1>6. a + b = (TickType_t(a) + b) + w * R
    BY <1>2, <1>3, <1>4, <1>5
<1> QED
    BY <1>3, <1>4, <1>6, MaskedRounds DEF R

LEMMA MaskedLess ==
    ASSUME NEW a \in Nat
    PROVE  Masked(a) <= a
<1> DEFINE R == MAXTICKS + 1
<1>0. a \in Int
    OBVIOUS
<1>1. PICK p \in Int : a = p * R + Masked(a)
    BY <1>0, Widths, Rounds DEF Masked
<1>2. Masked(a) \in 0..(R - 1) /\ R \in Nat \ {0}
    BY Widths, MaskedRange
<1> HIDE DEF R
<1>3. p >= 0
  <2> SUFFICES ASSUME p <= -1 PROVE FALSE
    OBVIOUS
  <2>1. p * R <= -R
    BY <1>2
  <2> QED
    BY <1>1, <1>2, <2>1
<1>4. p * R >= 0
    BY <1>2, <1>3
<1> QED
    BY <1>1, <1>2, <1>4

\* One step of the counter.
LEMMA MaskedNext ==
    ASSUME NEW a \in Int
    PROVE  Masked(a + 1) = IF Masked(a) = MAXTICKS THEN 0 ELSE Masked(a) + 1
<1>1. Masked(a + 1) = Masked(Masked(a) + 1) /\ Masked(a) \in 0..MAXTICKS
    BY MaskedSum, MaskedRange
<1>2. CASE Masked(a) = MAXTICKS
  <2>1. MAXTICKS + 1 = 0 + 1 * (MAXTICKS + 1) /\ 0 \in 0..MAXTICKS
    BY Widths
  <2> QED
    BY <1>1, <1>2, <2>1, MaskedRounds, MaskedSmall
<1>3. CASE Masked(a) # MAXTICKS
  <2>1. Masked(a) + 1 \in 0..MAXTICKS
    BY <1>1, <1>3, Widths
  <2> QED
    BY <1>1, <1>3, <2>1, MaskedSmall
<1> QED
    BY <1>2, <1>3

-----------------------------------------------------------------------------
(* The interrupt line.                                                     *)

LEMMA InitTypeOK == Init => TypeOK /\ LineInv
<1> SUFFICES ASSUME Init PROVE TypeOK /\ LineInv
    OBVIOUS
<1> USE Widths DEF Init, vPortSetupTimerInterrupt, ByTick, Asleep
<1>1. TypeOK
  <2>1. {COUNTER, CC0, systick_counter, enterTime, exitTime} \subseteq 0..MAXTICKS
    OBVIOUS
  <2>2. {pending, suspended} \subseteq BOOLEAN
    OBVIOUS
  <2>3. events \subseteq {"TICK", "COMPARE_0"} /\ inten \in {{"TICK"}, {"COMPARE_0"}}
    OBVIOUS
  <2>4. xTickCount \in 0..TickMax /\ xPendedTicks \in Nat /\ xExpectedIdleTime \in Int
        /\ behind \in Int
    OBVIOUS
  <2> QED
    BY <2>1, <2>2, <2>3, <2>4 DEF TypeOK
<1>2. LineInv
    BY DEF LineInv
<1> QED
    BY <1>1, <1>2

LEMMA StepTypeOK ==
    ASSUME TypeOK, LineInv, [Next]_vars
    PROVE  TypeOK'
<1> USE Widths, MaskedRange DEF TypeOK, ByTick, Asleep
<1>1. CASE RtcTicks
    BY <1>1 DEF RtcTicks, Latch, kernel, isr, sleeper
<1>2. CASE SuspendAll \/ ResumeAll
  <2>1. xTickCount + xPendedTicks \in Int
    OBVIOUS
  <2>2. TickType_t(xTickCount + xPendedTicks) \in 0..TickMax
    BY <2>1, TickRange
  <2>3. CASE SuspendAll
    BY <2>3 DEF SuspendAll, rtc, isr, sleeper
  <2>4. CASE ResumeAll
    BY <2>4, <2>2 DEF ResumeAll, rtc, isr, sleeper
  <2> QED
    BY <1>2, <2>3, <2>4
<1>3. CASE HandlerEnter \/ HandlerRead
    BY <1>3 DEF HandlerEnter, HandlerRead, rtc, kernel, sleeper
<1>4. CASE HandlerCount
  <2>1. Correction \in Nat
    BY DEF Correction
  <2>2. TickType_t(xTickCount + Correction) \in 0..TickMax
    BY <2>1, TickRange
  <2> QED
    BY <1>4, <2>1, <2>2 DEF HandlerCount, IncrementTicks, sleeper
<1>5. CASE Suppress \/ Confirm \/ WakeForRtc \/ WakeForOther \/ Restart \/ ReadExit
  <2>1. CASE Suppress
    <3>1. \A t \in IdleTimes : Clamped(t) \in Int
      BY IdleAssumption DEF Clamped
    <3> QED
      BY <2>1, <3>1 DEF Suppress, rtc, kernel, isr
  <2>2. CASE Confirm \/ WakeForRtc \/ WakeForOther \/ Restart \/ ReadExit
    BY <2>2 DEF Confirm, WakeForRtc, WakeForOther, Restart, ReadExit, rtc, kernel, isr
  <2> QED
    BY <1>5, <2>1, <2>2
<1>6. CASE Program
    BY <1>6 DEF Program, Latch, kernel, isr
<1>7. CASE StepTick
  <2>1. Elapsed \in Int
    BY DEF Elapsed
  <2>2. TickType_t(xTickCount + Elapsed) \in 0..TickMax
    BY <2>1, TickRange
  <2> QED
    BY <1>7, <2>1, <2>2 DEF StepTick, rtc, isr
<1>8. CASE UNCHANGED vars
    BY <1>8 DEF vars, rtc, kernel, isr, sleeper
<1> QED
    BY <1>1, <1>2, <1>3, <1>4, <1>5, <1>6, <1>7, <1>8 DEF Next, HandlerStep, SleepStep

LEMMA StepLineInv ==
    ASSUME TypeOK, LineInv, [Next]_vars
    PROVE  LineInv'
<1> USE DEF TypeOK, LineInv, ByTick, Asleep
<1>1. CASE RtcTicks
    BY <1>1 DEF RtcTicks, Latch, kernel, isr, sleeper
<1>2. CASE SuspendAll \/ ResumeAll
    BY <1>2 DEF SuspendAll, ResumeAll, rtc, isr, sleeper
<1>3. CASE HandlerEnter \/ HandlerRead \/ HandlerCount
    BY <1>3 DEF HandlerEnter, HandlerRead, HandlerCount, IncrementTicks, rtc, kernel, sleeper
<1>4. CASE Suppress \/ Confirm \/ WakeForRtc \/ WakeForOther
    BY <1>4 DEF Suppress, Confirm, WakeForRtc, WakeForOther, rtc, kernel, isr
<1>5. CASE Program \/ Restart \/ ReadExit \/ StepTick
    BY <1>5 DEF Program, Restart, ReadExit, StepTick, Latch, rtc, kernel, isr
<1>6. CASE UNCHANGED vars
    BY <1>6 DEF vars, rtc, kernel, isr, sleeper
<1> QED
    BY <1>1, <1>2, <1>3, <1>4, <1>5, <1>6 DEF Next, HandlerStep, SleepStep

-----------------------------------------------------------------------------
(* The sum of the ticks.                                                   *)

LEMMA InitAheadInv == Init => AheadInv
<1>1. Masked(0) = 0
    BY MaskedSmall, Widths
<1> QED
    BY <1>1 DEF Init, vPortSetupTimerInterrupt, AheadInv, ByTick, Asleep

\* The kernel counts n ticks of those it is behind.
LEMMA Counted ==
    ASSUME TypeOK, NEW n \in Int
    PROVE  /\ Masked(TickType_t(xTickCount + n) + xPendedTicks + (behind - n))
                 = Masked(xTickCount + xPendedTicks + behind)
           /\ Masked(xTickCount + (xPendedTicks + n) + (behind - n))
                 = Masked(xTickCount + xPendedTicks + behind)
<1>1. xTickCount \in Int /\ xPendedTicks \in Int /\ behind \in Int /\ xTickCount + n \in Int
    BY Widths DEF TypeOK
<1>2. TickType_t(xTickCount + n) \in Int
    BY <1>1, TickRange
<1>3. /\ TickType_t(xTickCount + n) + xPendedTicks + (behind - n)
            = TickType_t(xTickCount + n) + (xPendedTicks + (behind - n))
      /\ xPendedTicks + (behind - n) \in Int
      /\ (xTickCount + n) + (xPendedTicks + (behind - n)) = xTickCount + xPendedTicks + behind
      /\ xTickCount + (xPendedTicks + n) + (behind - n) = xTickCount + xPendedTicks + behind
    BY <1>1, <1>2
<1>4. Masked(TickType_t(xTickCount + n) + (xPendedTicks + (behind - n)))
        = Masked((xTickCount + n) + (xPendedTicks + (behind - n)))
    BY <1>1, <1>3, MaskedTick
<1> QED
    BY <1>3, <1>4

\* What the handler would find is what it is behind, or less by whole rounds.
LEMMA Difference ==
    ASSUME TypeOK, AheadInv
    PROVE  /\ Masked(COUNTER - xTickCount - xPendedTicks) = Masked(behind)
           /\ Masked(behind) <= behind
<1>1. xTickCount \in Int /\ xPendedTicks \in Int /\ behind \in Nat /\ COUNTER \in Int
    BY Widths DEF TypeOK, AheadInv
<1> DEFINE a == xTickCount + xPendedTicks + behind
           b == -(xTickCount + xPendedTicks)
<1>2. a \in Int /\ b \in Int /\ a + b = behind
    BY <1>1
<1>3. Masked(Masked(a) + b) = Masked(a + b)
    BY <1>2, MaskedSum
<1>4. Masked(a) = COUNTER
    BY DEF AheadInv
<1>5. COUNTER + b = COUNTER - xTickCount - xPendedTicks
    BY <1>1
<1> QED
    BY <1>1, <1>2, <1>3, <1>4, <1>5, MaskedLess

\* A reading of the counter that is one tick later.
LEMMA Later ==
    ASSUME NEW from \in Int, NEW to \in Int
    PROVE  /\ Masked(Masked(to + 1) - from) = Masked(to - from + 1)
           /\ Masked(to - from + 1) <= Masked(to - from) + 1
           /\ Masked(to - from) # MAXTICKS => Masked(to - from + 1) = Masked(to - from) + 1
<1>1. to + 1 \in Int /\ -from \in Int /\ to - from \in Int
    OBVIOUS
<1>2. Masked(Masked(to + 1) + (-from)) = Masked((to + 1) + (-from))
    BY <1>1, MaskedSum
<1>3. Masked(to + 1) \in Int /\ Masked(to - from) \in 0..MAXTICKS
    BY <1>1, MaskedRange, Widths
<1>4. Masked(to + 1) + (-from) = Masked(to + 1) - from /\ (to + 1) + (-from) = to - from + 1
    BY <1>3
<1>5. Masked(to - from + 1) = IF Masked(to - from) = MAXTICKS THEN 0 ELSE Masked(to - from) + 1
    BY <1>1, MaskedNext
<1> QED
    BY <1>2, <1>3, <1>4, <1>5, Widths

\* The handler counts no more than there is.
LEMMA CorrectionInv ==
    ASSUME TypeOK, LineInv, AheadInv, handler = "count"
    PROVE  /\ Correction \in 0..behind
           /\ suspended => Correction <= 1
           /\ ~suspended => Correction = Masked(systick_counter - xTickCount - xPendedTicks)
<1> DEFINE diff == Masked(systick_counter - xTickCount)
<1>1. diff \in 0..MAXTICKS /\ behind \in Nat /\ xPendedTicks \in Nat
    BY MaskedRange, Widths DEF TypeOK, AheadInv
<1>2. xPendedTicks = 0 => diff = Masked(systick_counter - xTickCount - xPendedTicks)
  <2>1. systick_counter \in Int /\ xTickCount \in Int
    BY Widths DEF TypeOK
  <2>2. systick_counter - xTickCount - 0 = systick_counter - xTickCount
    BY <2>1
  <2> QED
    BY <2>2
<1>3. xPendedTicks = 0 => diff <= behind
    BY <1>2 DEF AheadInv
<1>4. xPendedTicks > 0 => suspended /\ behind >= 1
    BY <1>1 DEF AheadInv, LineInv, ByTick, Asleep, TypeOK
<1>5. Correction = IF diff > 1 /\ suspended THEN 1 ELSE diff
    BY DEF Correction
<1> HIDE DEF diff
<1> QED
    BY <1>1, <1>2, <1>3, <1>4, <1>5 DEF AheadInv

LEMMA StepAheadInv ==
    ASSUME ConfirmsPended, TypeOK, LineInv, AheadInv, [Next]_vars
    PROVE  AheadInv'
<1>a. /\ {COUNTER, CC0, systick_counter, enterTime, exitTime, xTickCount} \subseteq Int
      /\ xPendedTicks \in Nat /\ behind \in Nat
    BY Widths DEF TypeOK, AheadInv
<1>1. CASE RtcTicks
  <2> USE <1>1 DEF RtcTicks, kernel, isr, sleeper
  <2>1. COUNTER' = Masked(COUNTER + 1) /\ behind' = behind + 1
    OBVIOUS
  <2>2. COUNTER' = Masked(xTickCount + xPendedTicks + behind')
    <3> DEFINE a == xTickCount + xPendedTicks + behind
    <3>1. a \in Int /\ xTickCount + xPendedTicks + behind' = a + 1
      BY <1>a, <2>1
    <3>2. Masked(Masked(a) + 1) = Masked(a + 1)
      BY <3>1, MaskedSum
    <3> QED
      BY <2>1, <3>1, <3>2 DEF AheadInv
  <2>3. Masked(COUNTER' - enterTime) <= Masked(COUNTER - enterTime) + 1
    BY <1>a, <2>1, Later
  <2>4. Masked(COUNTER - enterTime) \in Int /\ Masked(COUNTER' - enterTime) \in Int
    BY <1>a, <2>1, MaskedRange
  <2>5. Masked(exitTime - enterTime) \in Int
        /\ Masked(systick_counter - xTickCount - xPendedTicks) \in Int
    BY <1>a, MaskedRange
  <2> QED
    BY <1>a, <2>1, <2>2, <2>3, <2>4, <2>5 DEF AheadInv
<1>2. CASE SuspendAll
    BY <1>2 DEF SuspendAll, AheadInv, rtc, isr, sleeper, ByTick, Asleep
<1>3. CASE ResumeAll
  <2> USE <1>3 DEF ResumeAll, rtc, isr, sleeper
  <2>1. /\ xTickCount' + xPendedTicks' + behind'
             = TickType_t(xTickCount + xPendedTicks) + behind
        /\ (xTickCount + xPendedTicks) \in Int
    BY <1>a, TickRange
  <2>2. COUNTER' = Masked(xTickCount' + xPendedTicks' + behind')
    BY <1>a, <2>1, MaskedTick DEF AheadInv
  <2> QED
    BY <1>a, <2>2 DEF AheadInv, ByTick, Asleep
<1>4. CASE HandlerEnter
    BY <1>4, <1>a DEF HandlerEnter, AheadInv, rtc, kernel, sleeper, ByTick, Asleep
<1>5. CASE HandlerRead
    BY <1>5, <1>a, Difference DEF HandlerRead, AheadInv, LineInv, rtc, kernel, sleeper, ByTick, Asleep
<1>6. CASE HandlerCount
  <2> USE <1>6 DEF HandlerCount, sleeper
  <2>1. Correction \in 0..behind /\ suspended \in BOOLEAN /\ sleep = "awake"
    BY CorrectionInv DEF TypeOK, LineInv
  <2>2. behind' = behind - Correction /\ behind' >= 0
    BY <1>a, <2>1 DEF IncrementTicks
  <2>3. COUNTER' = Masked(xTickCount' + xPendedTicks' + behind')
    BY <1>a, <2>1, <2>2, Counted DEF IncrementTicks, AheadInv
  <2>4. ~suspended' => xPendedTicks' = 0
    BY DEF IncrementTicks, AheadInv
  <2>5. handler' = "out" /\ ~pending'
    BY DEF LineInv, ByTick
  <2> QED
    BY <2>1, <2>2, <2>3, <2>4, <2>5 DEF AheadInv, Asleep
<1>7. CASE Suppress \/ WakeForRtc \/ WakeForOther \/ Restart
    BY <1>7 DEF Suppress, WakeForRtc, WakeForOther, Restart, AheadInv, LineInv, rtc, kernel, isr,
       ByTick, Asleep
<1>8. CASE Confirm
  <2>1. COUNTER - COUNTER = 0 /\ Masked(0) = 0
    BY <1>a, MaskedSmall, Widths
  <2> QED
    BY <1>8, <1>a, <2>1 DEF Confirm, AheadInv, LineInv, rtc, kernel, isr, ByTick, Asleep
<1>9. CASE Program \/ ReadExit
    BY <1>9 DEF Program, ReadExit, AheadInv, LineInv, rtc, kernel, isr, ByTick, Asleep
<1>10. CASE StepTick
  <2> USE <1>10 DEF StepTick, rtc, isr
  <2>1. xPendedTicks = 0 /\ suspended
    BY DEF AheadInv, LineInv, Asleep
  <2>2. Elapsed \in Int /\ Elapsed <= behind
    <3> DEFINE diff == Masked(exitTime - enterTime)
    <3>1. diff \in Int /\ diff <= behind
      BY <1>a, MaskedRange DEF AheadInv
    <3>2. Elapsed = IF diff > xExpectedIdleTime THEN xExpectedIdleTime ELSE diff
      BY DEF Elapsed
    <3>3. xExpectedIdleTime \in Int
      BY DEF TypeOK
    <3> HIDE DEF diff
    <3> QED
      BY <1>a, <3>1, <3>2, <3>3
  <2>3. COUNTER' = Masked(xTickCount' + xPendedTicks' + behind')
    BY <1>a, <2>2, Counted DEF AheadInv
  <2>4. behind' >= 0 /\ handler' = "out" /\ sleep' = "awake"
    BY <1>a, <2>2 DEF LineInv
  <2> QED
    BY <2>1, <2>3, <2>4 DEF AheadInv, Asleep
<1>11. CASE UNCHANGED vars
    BY <1>11 DEF vars, rtc, kernel, isr, sleeper, AheadInv
<1> QED
    BY <1>1, <1>2, <1>3, <1>4, <1>5, <1>6, <1>7, <1>8, <1>9, <1>10, <1>11
    DEF Next, HandlerStep, SleepStep

\* No tick is counted twice or before it has elapsed, whatever the scheduler is
\* suspended for and wherever a tick falls in a sleep, as long as no sleep begins
\* with ticks pended (port_cmsis_systick.c:66-101, 151-223).
THEOREM NeverAhead == ConfirmsPended => (Spec => []TickNeverAhead)
<1> SUFFICES ASSUME ConfirmsPended PROVE Spec => []TickNeverAhead
    OBVIOUS
<1> DEFINE I == TypeOK /\ LineInv /\ AheadInv
<1>1. Init => I
    BY InitTypeOK, InitAheadInv
<1>2. I /\ [Next]_vars => I'
    BY StepTypeOK, StepLineInv, StepAheadInv
<1>3. I => TickNeverAhead
    BY DEF AheadInv, TickNeverAhead
<1> QED
    BY <1>1, <1>2, <1>3, PTL DEF Spec

-----------------------------------------------------------------------------
(* The end of a sleep, and what the handler makes up for.                  *)

CountInv == TypeOK /\ LineInv /\ AheadInv /\ ReadingInv /\ SleepInv

LEMMA InitCountInv == RoomInRound /\ Init => CountInv
<1> SUFFICES ASSUME RoomInRound, Init PROVE CountInv
    OBVIOUS
<1>1. ReadingInv /\ SleepInv
    BY Widths DEF Init, vPortSetupTimerInterrupt, ReadingInv, SleepInv, MostBehind, Asleep
<1> QED
    BY <1>1, InitTypeOK, InitAheadInv DEF CountInv

\* The environment lets the counter run; how far it has come.
LEMMA Ints ==
    ASSUME CountInv
    PROVE  /\ COUNTER \in 0..MAXTICKS /\ CC0 \in 0..MAXTICKS /\ systick_counter \in 0..MAXTICKS
           /\ enterTime \in 0..MAXTICKS /\ exitTime \in 0..MAXTICKS
           /\ xTickCount \in Nat /\ xPendedTicks \in Nat /\ behind \in Nat
           /\ xExpectedIdleTime \in Int
           /\ Masked(COUNTER - enterTime) \in 0..MAXTICKS
           /\ Masked(exitTime - enterTime) \in 0..MAXTICKS
           /\ Masked(COUNTER - systick_counter) \in 0..MAXTICKS
           /\ Masked(systick_counter - xTickCount - xPendedTicks) \in 0..MAXTICKS
<1>1. /\ COUNTER \in 0..MAXTICKS /\ CC0 \in 0..MAXTICKS /\ systick_counter \in 0..MAXTICKS
      /\ enterTime \in 0..MAXTICKS /\ exitTime \in 0..MAXTICKS
      /\ xTickCount \in Nat /\ xPendedTicks \in Nat /\ behind \in Nat
      /\ xExpectedIdleTime \in Int
    BY Widths DEF CountInv, TypeOK, AheadInv
<1> QED
    BY <1>1, MaskedRange, Widths

\* The counter goes on by one tick: it differs from where it was.
LEMMA Moves ==
    ASSUME NEW a \in 0..MAXTICKS
    PROVE  MAXTICKS > 0 => Masked(a + 1) # a
<1>1. Masked(a) = a /\ Masked(a + 1) = IF Masked(a) = MAXTICKS THEN 0 ELSE Masked(a) + 1
    BY MaskedSmall, MaskedNext, Widths
<1> QED
    BY <1>1, Widths

\* The distance from a reading to its sum with another number, and from there on.
LEMMA Distance ==
    ASSUME NEW from \in 0..MAXTICKS, NEW to \in 0..MAXTICKS, NEW n \in 0..MAXTICKS
    PROVE  /\ Masked(to - from) = n <=> to = Masked(from + n)
           /\ Masked(to - from) >= n =>
                 Masked(to - Masked(from + n)) = Masked(to - from) - n
<1> DEFINE d == Masked(to - from)
<1>1. from \in Int /\ to \in Int /\ n \in Int /\ to - from \in Int /\ from + n \in Int
    BY Widths
<1>2. d \in 0..MAXTICKS /\ Masked(from + n) \in 0..MAXTICKS
    BY <1>1, MaskedRange
<1>3. Masked(d + from) = to
  <2>1. Masked(d + from) = Masked((to - from) + from) /\ (to - from) + from = to
    BY <1>1, MaskedSum
  <2> QED
    BY <2>1, MaskedSmall
<1>4. to = Masked(from + n) => d = n
  <2> SUFFICES ASSUME to = Masked(from + n) PROVE d = n
    OBVIOUS
  <2>1. Masked(Masked(from + n) + (-from)) = Masked((from + n) + (-from))
    BY <1>1, MaskedSum
  <2>2. to + (-from) = to - from /\ (from + n) + (-from) = n
    BY <1>1
  <2> QED
    BY <2>1, <2>2, MaskedSmall
<1>5. d = n => to = Masked(from + n)
  <2>1. d + from = from + d
    BY <1>1, <1>2, Widths
  <2> QED
    BY <1>3, <2>1
<1>6. d >= n => Masked(to - Masked(from + n)) = d - n
  <2> SUFFICES ASSUME d >= n PROVE Masked(to - Masked(from + n)) = d - n
    OBVIOUS
  <2> DEFINE m == Masked(from + n)
  <2>1. m \in Int /\ d \in Int /\ d - n \in 0..MAXTICKS /\ to - m \in Int
    BY <1>1, <1>2, Widths
  <2>2. Masked((d - n) + m) = to
    <3>1. Masked(m + (d - n)) = Masked((from + n) + (d - n))
      BY <1>1, <2>1, MaskedSum
    <3> HIDE DEF m, d
    <3>2. m + (d - n) = (d - n) + m /\ (from + n) + (d - n) = d + from
      BY <1>1, <2>1
    <3> QED
      BY <1>3, <3>1, <3>2 DEF d
  <2> HIDE DEF m, d
  <2>3. Masked(Masked((d - n) + m) + (-m)) = Masked(((d - n) + m) + (-m))
    BY <1>1, <2>1, MaskedSum
  <2>4. ((d - n) + m) + (-m) = d - n /\ to + (-m) = to - m
    BY <1>1, <2>1
  <2>5. Masked(to - m) = d - n
    BY <2>1, <2>2, <2>3, <2>4, MaskedSmall
  <2> QED
    BY <2>5 DEF m
<1> QED
    BY <1>4, <1>5, <1>6

LEMMA StepSleepInv ==
    ASSUME PromptSleep, RoomInRound, CountInv, [Next]_vars
    PROVE  SleepInv'
<1> DEFINE slept == Masked(COUNTER - enterTime)
           X == xExpectedIdleTime
<1> USE Ints, Widths DEF SleepInv, ByTick, Asleep
<1>a. SleepInv /\ LineInv /\ TypeOK /\ AheadInv
    BY DEF CountInv
<1>1. CASE RtcTicks
  <2> USE <1>1 DEF RtcTicks, MayTick, kernel, isr, sleeper
  <2>1. COUNTER' = Masked(COUNTER + 1) /\ behind' = behind + 1
    OBVIOUS
  <2>2. slept # MAXTICKS => slept' = slept + 1
    BY <2>1, Later
  <2>3. sleep \in {"awake", "confirm", "wait", "woken", "exit", "step"}
    BY <1>a DEF TypeOK
  <2>4. CASE sleep \in {"awake", "confirm"}
    BY <1>a, <2>1, <2>4
  <2>5. CASE sleep \in {"wait", "woken"}
    <3>1. /\ CC0 = Masked(enterTime + X) /\ X \in 1..(MAXTICKS - BeforeSleep)
          /\ slept <= X + WakeLatency /\ ("COMPARE_0" \in events <=> slept >= X)
      BY <1>a, <2>5
    <3>2. slept < MAXTICKS /\ slept' = slept + 1 /\ X \in 0..MAXTICKS
      BY <3>1, <2>2
    <3>3. COUNTER' = CC0 <=> slept + 1 = X
      <4>1. COUNTER' \in 0..MAXTICKS
        BY <2>1, MaskedRange
      <4>2. Masked(COUNTER' - enterTime) = X <=> COUNTER' = Masked(enterTime + X)
        BY <3>2, <4>1, Distance
      <4> QED
        BY <3>1, <3>2, <4>2
    <3>4. slept >= X => slept - X < WakeLatency
      <4> SUFFICES ASSUME slept >= X PROVE slept - X < WakeLatency
        OBVIOUS
      <4>1. Masked(COUNTER - CC0) = slept - X
        BY <3>1, <3>2, Distance
      <4>2. Masked(COUNTER - CC0) < WakeLatency
        BY <2>5, <3>1
      <4> QED
        BY <4>1, <4>2
    <3>5. "COMPARE_0" \in events' <=> "COMPARE_0" \in events \/ COUNTER' = CC0
      OBVIOUS
    <3> HIDE DEF slept
    <3>6. slept' <= X + WakeLatency
      <4>1. slept < X \/ slept >= X
        BY DEF slept
      <4> QED
        BY <3>1, <3>2, <3>4, <4>1 DEF slept
    <3>7. "COMPARE_0" \in events' <=> slept' >= X
      <4>1. slept + 1 >= X <=> slept >= X \/ slept + 1 = X
        BY DEF slept
      <4> QED
        BY <3>1, <3>2, <3>3, <3>5, <4>1
    <3> QED
      BY <1>a, <2>1, <2>5, <3>1, <3>2, <3>6, <3>7 DEF slept
  <2>6. CASE sleep = "exit"
    <3>1. slept <= X + WakeLatency /\ X \in 1..(MAXTICKS - BeforeSleep)
      BY <1>a, <2>6
    <3>2. slept' = slept + 1 /\ "TICK" \in events'
      BY <2>2, <3>1
    <3> QED
      BY <1>a, <2>1, <2>6, <3>1, <3>2
  <2>7. CASE sleep = "step"
    <3>1. COUNTER' # exitTime /\ COUNTER = exitTime /\ "TICK" \in events'
      BY <2>1, <2>7, Moves DEF RoomInRound
    <3> QED
      BY <1>a, <2>1, <2>7, <3>1
  <2> QED
    BY <2>3, <2>4, <2>5, <2>6, <2>7
<1>2. CASE SuspendAll \/ ResumeAll \/ HandlerStep
    BY <1>2, <1>a DEF SuspendAll, ResumeAll, HandlerStep, HandlerEnter, HandlerRead, HandlerCount,
       IncrementTicks, LineInv, rtc, isr, kernel, sleeper
<1>3. CASE Suppress
  <2>1. \A t \in IdleTimes : Clamped(t) \in 1..(MAXTICKS - BeforeSleep)
    <3> SUFFICES ASSUME NEW t \in IdleTimes PROVE Clamped(t) \in 1..(MAXTICKS - BeforeSleep)
      OBVIOUS
    <3>1. t \in Nat /\ t >= BeforeSleep /\ BeforeSleep >= 1 /\ MAXTICKS - BeforeSleep >= 1
      BY IdleAssumption DEF RoomInRound
    <3> QED
      BY <3>1 DEF Clamped
  <2> QED
    BY <1>3, <2>1 DEF Suppress, rtc, kernel, isr
<1>4. CASE Confirm
  <2>1. COUNTER - COUNTER = 0 /\ Masked(0) = 0
    BY MaskedSmall
  <2> QED
    BY <1>4, <1>a, <2>1 DEF Confirm, rtc, kernel, isr
<1>5. CASE Program
  <2>1. slept = 0
    <3>1. COUNTER - COUNTER = 0 /\ Masked(0) = 0
      BY MaskedSmall
    <3> QED
      BY <1>5, <1>a, <3>1 DEF Program
  <2>2. slept' = 0 /\ "COMPARE_0" \notin events'
    BY <1>5, <2>1 DEF Program
  <2> QED
    BY <1>5, <1>a, <2>1, <2>2 DEF Program, kernel, isr
<1>6. CASE WakeForRtc \/ WakeForOther \/ Restart
    BY <1>6, <1>a DEF WakeForRtc, WakeForOther, Restart, rtc, kernel, isr
<1>7. CASE ReadExit
    BY <1>7, <1>a DEF ReadExit, rtc, kernel, isr
<1>8. CASE StepTick
    BY <1>8 DEF StepTick
<1>9. CASE UNCHANGED vars
    BY <1>9, <1>a DEF vars, rtc, kernel, isr, sleeper
<1> QED
    BY <1>1, <1>2, <1>3, <1>4, <1>5, <1>6, <1>7, <1>8, <1>9 DEF Next, SleepStep

LEMMA StepReadingInv ==
    ASSUME PromptSleep, RoomInRound, CountInv, [Next]_vars
    PROVE  ReadingInv'
<1> USE Ints, Widths DEF ReadingInv, MostBehind, ByTick, Asleep
<1>a. SleepInv /\ LineInv /\ TypeOK /\ AheadInv /\ ReadingInv
    BY DEF CountInv
<1>b. handler # "out" => sleep = "awake"
    BY <1>a DEF LineInv
<1>c. sleep \in {"program", "wait", "woken", "exit", "step"} => xPendedTicks = 0
    BY <1>a DEF AheadInv
<1>1. CASE RtcTicks
  <2> USE <1>1 DEF RtcTicks, MayTick, kernel, isr, sleeper
  <2>1. COUNTER' = Masked(COUNTER + 1) /\ behind' = behind + 1
    OBVIOUS
  <2>2. sleep \in {"awake", "confirm", "program", "wait", "woken", "exit", "step"}
    BY <1>a DEF TypeOK
  <2>3. CASE sleep = "awake"
    <3>1. xPendedTicks < MaxPended
      BY <2>3
    <3>2. CASE behind < MaxBehind
      <4>1. handler = "count" =>
               Masked(COUNTER' - systick_counter) = Masked(COUNTER - systick_counter) + 1
        <5>1. handler = "count" => Masked(COUNTER - systick_counter) <= behind
          BY <1>a
        <5>2. Masked(COUNTER - systick_counter) # MAXTICKS =>
                 Masked(COUNTER' - systick_counter) = Masked(COUNTER - systick_counter) + 1
          BY <2>1, Later
        <5> QED
          BY <3>2, <5>1, <5>2
      <4> QED
        BY <1>a, <2>1, <2>3, <3>1, <3>2, <4>1
    <3>3. CASE handler = "out" /\ ~pending
      <4>1. pending'
        BY <1>a, <2>3, <3>3 DEF LineInv, Latch
      <4> QED
        BY <1>a, <2>1, <2>3, <3>1, <3>3, <4>1
    <3> QED
      BY <2>3, <3>2, <3>3
  <2>4. CASE sleep = "confirm"
    BY <1>a, <1>b, <2>1, <2>4
  <2>5. CASE sleep \notin {"awake", "confirm"}
    BY <1>a, <1>b, <1>c, <2>1, <2>2, <2>5
  <2> QED
    BY <2>3, <2>4, <2>5
<1>2. CASE SuspendAll
    BY <1>2, <1>a DEF SuspendAll, rtc, isr, sleeper
<1>3. CASE ResumeAll
    BY <1>3, <1>a DEF ResumeAll, rtc, isr, sleeper
<1>4. CASE HandlerEnter
    BY <1>4, <1>a DEF HandlerEnter, rtc, kernel, sleeper
<1>5. CASE HandlerRead
  <2>1. Masked(COUNTER - xTickCount - xPendedTicks) = behind
    <3>1. behind \in 0..MAXTICKS
      BY <1>5, <1>a, <1>b DEF HandlerRead, RoomInRound
    <3> QED
      BY <1>a, <3>1, Difference, MaskedSmall
  <2>2. COUNTER - COUNTER = 0 /\ Masked(0) = 0
    BY MaskedSmall
  <2> QED
    BY <1>5, <1>a, <2>1, <2>2 DEF HandlerRead, rtc, kernel, sleeper
<1>6. CASE HandlerCount
  <2> USE <1>6 DEF HandlerCount, sleeper
  <2>1. /\ Correction \in 0..behind /\ suspended \in BOOLEAN /\ sleep = "awake"
        /\ suspended => Correction <= 1
    BY <1>a, <1>b, CorrectionInv DEF TypeOK
  <2>2. behind' = behind - Correction
    BY <2>1 DEF IncrementTicks
  <2>3. xPendedTicks' <= xPendedTicks + 1 /\ xPendedTicks' \in Nat
    BY <2>1 DEF IncrementTicks
  <2>4. handler' = "out" /\ ~pending' /\ sleep' = "awake"
    BY <1>a, <2>1 DEF LineInv
  <2>5. behind' < MaxBehind + WakeLatency + 2
    <3>1. CASE behind <= MaxBehind
      BY <2>1, <2>2, <3>1
    <3>2. CASE behind > MaxBehind
      <4> DEFINE read == Masked(systick_counter - xTickCount - xPendedTicks)
      <4>1. COUNTER = systick_counter /\ xPendedTicks <= MaxPended
        BY <1>a, <3>2
      <4>2. Masked(COUNTER - systick_counter) = 0
        <5>1. COUNTER - COUNTER = 0 /\ Masked(0) = 0
          BY MaskedSmall
        <5> QED
          BY <4>1, <5>1
      <4>3. read = behind
        BY <1>a, <4>2
      <4>4. Masked(systick_counter - xTickCount) = behind + xPendedTicks
        <5> DEFINE a == systick_counter - xTickCount - xPendedTicks
        <5>1. a \in Int /\ a + xPendedTicks = systick_counter - xTickCount
          OBVIOUS
        <5>2. Masked(Masked(a) + xPendedTicks) = Masked(a + xPendedTicks)
          BY <5>1, MaskedSum
        <5>3. behind + xPendedTicks \in 0..MAXTICKS
          BY <1>a, <2>1, <4>1 DEF RoomInRound
        <5> QED
          BY <4>3, <5>1, <5>2, <5>3, MaskedSmall
      <4>5. Correction >= 1
        BY <3>2, <4>4 DEF Correction
      <4> QED
        BY <1>a, <2>1, <2>2, <4>5
    <3> QED
      BY <3>1, <3>2
  <2>6. xPendedTicks' > MaxPended + 1 => behind' <= MaxBehind
    BY <1>a, <2>1, <2>2, <2>3
  <2> QED
    BY <2>1, <2>2, <2>4, <2>5, <2>6
<1>7. CASE Suppress
    BY <1>7, <1>a DEF Suppress, rtc, kernel, isr
<1>8. CASE Confirm
    BY <1>8, <1>a DEF Confirm, SleepInv, LineInv, rtc, kernel, isr
<1>9. CASE Program
    BY <1>9, <1>a, <1>b, <1>c DEF Program, LineInv, kernel, isr
<1>10. CASE WakeForRtc \/ WakeForOther \/ Restart \/ ReadExit
    BY <1>10, <1>a, <1>b DEF WakeForRtc, WakeForOther, Restart, ReadExit, LineInv, rtc, kernel, isr
<1>11. CASE StepTick
  <2> USE <1>11 DEF StepTick, rtc, isr
  <2> DEFINE measured == Masked(exitTime - enterTime)
             X == xExpectedIdleTime
  <2>1. xPendedTicks' = 0 /\ handler' = "out"
    BY <1>a, <1>b, <1>c
  <2>2. ~pending' => "TICK" \notin events
    BY <1>a DEF LineInv
  <2>3. Elapsed = IF measured > X THEN X ELSE measured
    BY DEF Elapsed
  <2>4. /\ "TICK" \notin events => COUNTER = exitTime /\ measured <= X + WakeLatency
        /\ measured <= X + WakeLatency + 1 /\ X \in Nat
        /\ behind <= MaxBehind + measured + IF COUNTER = exitTime THEN 0 ELSE 1
    BY <1>a DEF SleepInv
  <2>5. behind' = behind - Elapsed /\ sleep' = "awake"
    OBVIOUS
  <2> HIDE DEF measured
  <2>6. behind' <= MaxBehind + WakeLatency + 2
    BY <2>3, <2>4, <2>5 DEF measured
  <2>7. ~pending' => behind' < MaxBehind + WakeLatency + 2
    BY <2>2, <2>3, <2>4, <2>5 DEF measured
  <2> QED
    BY <2>1, <2>6, <2>7
<1>12. CASE UNCHANGED vars
    BY <1>12, <1>a DEF vars, rtc, kernel, isr, sleeper
<1> QED
    BY <1>1, <1>2, <1>3, <1>4, <1>5, <1>6, <1>7, <1>8, <1>9, <1>10, <1>11, <1>12
    DEF Next, HandlerStep, SleepStep

LEMMA CountInvariance ==
    ConfirmsPended /\ PromptSleep /\ RoomInRound => (Spec => []CountInv)
<1> SUFFICES ASSUME ConfirmsPended, PromptSleep, RoomInRound PROVE Spec => []CountInv
    OBVIOUS
<1>1. Init => CountInv
    BY InitCountInv
<1>2. CountInv /\ [Next]_vars => CountInv'
    BY StepTypeOK, StepLineInv, StepAheadInv, StepReadingInv, StepSleepInv DEF CountInv
<1> QED
    BY <1>1, <1>2, PTL DEF Spec

\* After a sleep, of any expected length and woken by the compare or earlier, the
\* kernel is behind by no more than it was before, the wake-up and two ticks: no
\* round of the counter is lost (port_cmsis_systick.c:124-223).
THEOREM SleepsCounted ==
    ConfirmsPended /\ PromptSleep /\ RoomInRound => (Spec => []SleepCounted)
<1>1. CountInv => SleepCounted
    BY DEF CountInv, ReadingInv, SleepCounted, MostBehind
<1> QED
    BY <1>1, CountInvariance, PTL

\* The handler makes up for every tick that was lost before, as soon as it runs with
\* the scheduler running: it leaves only the ticks since it read the counter
\* (port_cmsis_systick.c:55-101).
THEOREM MadeUp == ConfirmsPended /\ PromptSleep /\ RoomInRound => (Spec => CatchesUp)
<1>1. CountInv /\ [Next]_vars =>
          [handler = "count" /\ handler' = "out" /\ ~suspended
               => behind' = Masked(COUNTER - systick_counter)]_vars
  <2> SUFFICES ASSUME CountInv, Next, handler = "count", handler' = "out", ~suspended
               PROVE  behind' = Masked(COUNTER - systick_counter)
      BY DEF vars
  <2>1. sleep = "awake"
      BY DEF CountInv, LineInv
  <2>2. HandlerCount
      BY <2>1 DEF Next, RtcTicks, isr, SuspendAll, ResumeAll, HandlerStep, HandlerEnter,
         HandlerRead, Suppress, SleepStep, Confirm, Program, WakeForRtc, WakeForOther, Restart,
         ReadExit, StepTick
  <2>3. behind' = behind - Correction
      BY <2>2 DEF HandlerCount, IncrementTicks
  <2>4. Correction = Masked(systick_counter - xTickCount - xPendedTicks)
      BY CorrectionInv DEF CountInv
  <2> QED
      BY <2>3, <2>4, Ints, Widths DEF CountInv, ReadingInv
<1> QED
    BY <1>1, CountInvariance, PTL DEF Spec, CatchesUp
=============================================================================
