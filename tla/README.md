# TLA+ models of the nRF drivers and FreeRTOS ports

The repository holds a C++ driver layer for the Nordic nRF51, nRF52832 and
nRF52840 (I2C masters, GPIO, NVIC, processors, two boards) and FreeRTOS ports
for the nRF51 and the nRF52. The framework it is written against (`embvm`),
the kernel itself and the ARM/Nordic register headers are not in it.

Little of this code is long. What is hard about it is who interrupts whom, in
which order the registers are written, and what the hardware does in between.
The models keep exactly that: one action per register access or group of
accesses that nothing can observe apart, program counters for tasks and
interrupts, and the hardware as actions of its own.

All `src/...` paths below are relative to the repository.

## 1. Files

| Module | What it is |
|---|---|
| `TwimPeripheral` | The TWIM peripheral and its NVIC line: registers, task functions, what the bus does by itself (external to the repository), and the wrapper's NVIC calls. |
| `TwimKickoff` | What both variants of the nRF52 I2C master share: kinds of operation, shortcuts, START tasks, the conversion of errors. |
| `TwimMaster` | The non-blocking master: tasks, interrupt, callbacks, `start()`/`stop()`, interrupts masked by tasks. |
| `TwimBlocking` | The blocking master: polled transfers, `start()`/`stop()`, `baudrate()`. |
| `I2cMasterContract` | What an I2C master promises its clients; both variants implement it (`ContractSpec`). |
| `MCTwimMaster`, `MCTwimBlocking` | Values for the `Twim*.cfg` configurations. |
| `TwimMasterProofs`, `TwimBlockingProofs` | Theorems about the two masters. |
| `KernelPort` | The FreeRTOS port of the nRF52: critical sections, SysTick, PendSV, SVC, start-up, FromISR, the context of a task and its FPU. |
| `KernelPortM0` | The FreeRTOS port of the nRF51: critical sections with and without a SoftDevice, the yield flag, the context switch. |
| `MCKernelPort`, `MCKernelPortM0` | Values for `Port*.cfg`. |
| `KernelPortProofs`, `KernelPortM0Proofs` | Theorems about the two ports. |
| `RtcTick`, `MCRtcTick`, `RtcTickProofs` | The tick of an RTC: its correction and the tickless sleep; values; theorems. |
| `TwiLegacy`, `MCTwiLegacy`, `TwiLegacyProofs` | The byte-wise TWI master of the nRF51; values; theorems. |
| `Gpio`, `MCGpio`, `GpioProofs` | The GPIO driver on ports shared by several users; values; theorems. |
| `VoltageBoot` | `highVoltageMode()` and the voltage part of the dongle's boot (`VoltageLoop.cfg` and `VoltageRestore.cfg` check it directly). |
| `Spin` | `nRF52840::spin()`, a delay by the cycle counter. |
| `Dongle`, `MCDongle` | The dongle with its application: boot, LEDs, `startBlink()`; composes `VoltageBoot` and `Spin`; values. |
| `DongleProofs` | Theorems about `Dongle` and the two modules it composes. |

`tlc -config TwimShared.cfg MCTwimMaster` checks a configuration, and
`tlapm TwimMasterProofs.tla` the proofs.

## 2. Inventory

### 2.1 nRF52 TWIM I2C master, non-blocking

*Source:* `src/drivers/nrf52_i2c_master.hpp`, `src/drivers/helpers/twim_helper.cpp`,
`twim_helper_.hpp`, `twim_helper.hpp`.

*State:* `busy_` (atomic flag), `active_cb_`, `active_op_`; the registers ENABLE,
EVENTS_*, INTEN, SHORTS, ERRORSRC; the NVIC's enable and pending bits.

*Operations:* `start_`, `stop_`, `transfer()` (compare-and-swap of `busy_`, then a
`*_transfer` helper: quiet the interrupts, load the buffers, enable the
interrupts, clear stale events, shortcuts, RESUME and START, read and clear
ERRORSRC), the interrupt handler (`twim_irq_handler_`: ERROR, STOPPED or
SUSPENDED), `invoke_callback_` and `twim_callback_`.

*Interactions:* many tasks and the user's own callbacks, which run in the
interrupt, call `transfer()`; the peripheral moves concurrently with all of them
and accesses the user's buffer by EasyDMA.

*Hard:* the interrupt between any two register accesses of a call; events left
from an earlier transfer; an ERROR and a STOPPED close together; a call and the
interrupt that both read and clear ERRORSRC; a callback that starts the next
transfer before the handler has returned; stopping the driver in mid-transfer.

*Correct when:* the bus has one transfer at a time; the buffer goes back to its
user only after EasyDMA is done; each accepted transfer is called back once, with
the right callback; a NACK is reported; the two assertions on the interrupt path
(`nrf52_i2c_master.hpp:242`, `twim_helper.cpp:124`) hold; `busy_` is given back.

### 2.2 nRF52 TWIM I2C master, blocking

The same class with `TBlocking`, and the helpers `tx_transfer_blocking`,
`rx_transfer_blocking`, `txrx_transfer_blocking` and `block_until_complete`
(`twim_helper.cpp:354-400`, `twim_helper_.hpp:158-171`). *State:* the registers PSEL,
FREQUENCY, ADDRESS, TXD and RXD as well, the configuration of the two pins, and no
`busy_`. *Operations:* `start_`, `stop_`, `baudrate_`, `transfer()`. *Interactions:* tasks call
it; the bus moves while it polls. *Hard:* STOPPED between the check and the STOP task
of `handle_error_event_`; the event that is waited for changes after an error; events
and errors that an earlier transfer has left; no exclusion of a second caller.
*Correct when:* each call returns, with the status of its own transfer, `ok` only when
its bytes have moved, and never with the buffer still in the hands of EasyDMA.

### 2.3 FreeRTOS port, nRF52

*Source:* `src/freertos/nrf52/*`, `src/freertos/FreeRTOSConfig.h`,
`src/include/nordic_defs.hpp` (priorities).

*State:* BASEPRI, the pending and active exceptions, `uxCriticalNesting`,
`ucMaxSysCallPriority`, the current task, its stack, the registers and CPACR.

*Operations:* `vPortEnterCritical`, `vPortExitCritical`, `portYIELD`,
`xPortStartScheduler`, `vPortStartFirstTask`, `pxPortInitialiseStack`, `prvTaskExitError`,
the SVC, SysTick and PendSV handlers,
`vPortValidateInterruptPriority`, `ulPortRaiseBASEPRI` and `vPortSetBASEPRI` around the
FromISR functions.

*Hard:* nested exceptions that raise and restore the mask; one nesting counter for
every task; two handlers that write 0 to BASEPRI and do not restore what was there;
tick and switch that must not come before the first task; an FPU whose registers are
saved by PendSV, by the exception entry or not at all, as EXC_RETURN says.

*Correct when:* the kernel's data is reached by one context at a time; the mask
is what it was before each handler; a requested switch takes place; a task goes on
with the registers it was interrupted with; a too urgent interrupt is caught.

### 2.4 FreeRTOS port, nRF51

*Source:* `src/freertos/nrf51/*`. *State:* PRIMASK, or the critical region of a SoftDevice;
`uxCriticalNesting`, `uxYieldFlag`; the registers and stacks of the tasks; the RTC's
counter, compare register, events and interrupt; `xTickCount`. *Operations:* enter and exit
of critical sections, `vPortTaskYield`, `ulPortDisableISR`/`vPortRestoreISR` around
handlers, `xPortPendSVHandler`, the start of the scheduler, `xPortSysTickHandler`,
`vPortSuppressTicksAndSleep`. *Hard:* a region that lets PendSV through; a flag shared by
all tasks and tested with the interrupts enabled; a 24-bit counter that wraps, against
a 32-bit tick; ticks that elapse while asleep or while the scheduler is suspended;
ticks between the end of a sleep and its correction. *Correct when:* critical sections
exclude each other; a yield is served before its task goes on; registers are restored;
the tick count never runs ahead of the RTC and catches up with it.

### 2.5 GPIO driver

*Source:* `src/drivers/nrf_gpio.hpp`, `src/drivers/helpers/gpio_helper.cpp`.
*State:* OUT, PIN_CNF of each pin, `mode_`, whether the driver is started.
*Operations:* `set`, `toggle`, `get`, `setMode`, `start_`, `stop_`. *Hard:* `toggle` is a
load and two stores on a register that all pins of a port share; pins of two ports
have the same number. *Correct when:*
users of different pins do not disturb each other; a started pin is what its mode says.

### 2.6 Legacy TWI I2C master

*Source:* `src/drivers/helpers/twi_helper.cpp`, `src/drivers/nrf51_i2c_master.hpp`. *State:* TXD
and RXD, events and shortcuts; the locals of two polling loops. *Operations:* `start_`,
`stop_`, `baudrate_`, `transfer_`, `tx_transfer`, `rx_transfer`, `stop_condition`. *Hard:* TXD is
loaded, and TXDSENT cleared, while the bus moves; STOP is asked for while the last
byte is still in TXD; the shortcut of a read changes from SUSPEND to STOP between two
bytes; an error in the middle. *Correct when:* bytes go out once and in order, a read
takes as many as the buffer holds, and the bus is given up.

The driver is in no build, and could not be: it calls helpers by names that
`twi_helper.hpp` does not declare, has none for a write-read, returns `ok` whatever
happens, and does nothing for a ping or a restart. The model takes the helper that
each name must mean.

### 2.7 nRF52840 processor and dongle platform

*Source:* `src/processors/nrf52840/nrf52840.cpp`,
`src/hw_platforms/nrf52840_dongle/*`, `src/app/nrf52_test_app/blinky_migratory.cpp`. *State:*
UICR.REGOUT0 (flash, survives a reset), NVMC.CONFIG; DEMCR.TRCENA, DWT.CTRL and CYCCNT;
how far boot and blinking have come. *Operations:* `highVoltageMode()`,
`highVoltageMode(bool)`, `init_` of the platform, `startBlink`, `spin`, `reset`. *Hard:* flash
clears bits and cannot set them; power may fail between the steps; every setting ends
in a reset and the boot runs again; `spin` saves and restores enable bits that other
calls rely on, and subtracts readings of a counter that wraps. *Correct when:* the
voltage is raised on boards that need it, once, and the boot ends; a delay lasts as long
as it should and leaves the counter as it was found.

### 2.8 Other parts

* nRF52 DK platform: straight-line registration of drivers whose framework is not
  in the repository; in no build. (It registers "led4" as `led3`, its `leds_off` turns
  `led2` off three times, and its constructor has no body.)
* NVIC wrapper, base-address utilities: inline computations of interrupt numbers and
  calls of a layer outside the repository. `enable` and `disable` are in
  `TwimPeripheral`; the priorities are used in `KernelPort`.
* Test application, linker scripts, build files: no state of their own.

## 3. Models and code

### 3.1 `TwimPeripheral`, `TwimKickoff` and `TwimMaster`

The peripheral is not in the repository. It is the one the notes at
`twim_helper.cpp:14-40` describe and the helpers rely on: `engine` is the bus master
(`idle`, `tx`, `rx`, `held`, `suspended`, `error`, `stopping`), and the tasks RESUME, STARTTX,
STARTRX and STOP are functions of it. The line of the peripheral is a level
(`events ∩ inten ≠ {}`) whose rising edge the NVIC latches; on return from the
handler it is latched again while it is active. A disabled interrupt stays pending.

Contexts are `Tasks` and `Isr`. Each has a program counter, the kind of its
transfer, and the local variable that `get_errorsrc_` loads. The interrupt
preempts every task at any step; tasks preempt each other. `Transfer` is the
successful compare-and-swap, `TransferBusy` the failed one. The nine
`embvm::i2c::operation` values fall into five kinds (`OpKind`), because
`transfer_impl_` and the helpers treat the members of a kind alike. Data,
addresses, frequency and pins are left out here: `TwimBlocking`, whose code for them is
the same, has them.

Two constants describe what the users do beyond transfers:

* `StopInFlight`: `stop()` may be called with a transfer in flight.
* `MaskedByTasks`: tasks call `disableInterrupts()` and `enableInterrupts()` at any time.

The bus waits for nobody. A STOP condition (`BusStopped`) may be complete before the
error that led to it is handled, because the interrupt is late, preempted or masked, and
any byte may be refused, the last one of a write without stop too. Both have the handler
find a second event beside ERROR: `overtaken` records that the end of a transfer, STOPPED
or SUSPENDED, has come with an error of it still to be handled, and `InTime` says that this has not
happened yet. The driver is not correct after it: `twim_late_handler` and
`twim_refused_byte` show what happens then. What holds is stated up to that moment, and
proved without any assumption on the bus.

`owner`, `called`, `nacked`, `told`, `mixed`, `stranded` and `overtaken` are history variables.
`mixed` says that another call was still on its way when the latest transfer was accepted,
`stranded` that `busy_` is held by a call that starts nothing.

A failed assertion halts the program: `TwimCallback` has no step then, and neither has
the handler without an event.

### 3.2 `TwimBlocking`

No interrupt and no `busy_`: a call is a sequence of register accesses in its task
(`LoadBuffers`, `ClearEvents`, `Kickoff`, the poll, `LoadErrors`, `ReturnStatus`), and the bus moves
between any two. `Kickoff` and the bus come from `TwimKickoff` and `TwimPeripheral`, as in
`TwimMaster`. A buffer or an address is named by the task it comes from: `moved` records
in which directions all bytes went, between whose buffer and address, `refused` what
the slave refused. `start_` and `stop_` take one step for each register that something
could see in between.

* `Serialized`: callers take turns. Nothing in the driver makes them.
* `StopsOpenBus`: `operation::stop` and `restart` come after a write without stop.
* `PromptPoll`: no STOP condition ends between the check of STOPPED in
  `handle_error_event_` and its STOP task.

Each of the three is needed: without it TLC finds `BufferReleased`, `OkMeansMoved` or
`StatusIsOwn` violated. Two calls at once share all registers; a STOP on an idle bus leaves
an engine that ignores the next START; a STOP task after STOPPED leaves the same.

### 3.3 `I2cMasterContract`

Four phases of one transfer: free, accepted, moving, settled. `TwimMaster` maps
`phase` to an expression over `busy_`, the program counters and `engine` (`Phase`),
`client` to `owner`, and `notified` to `called`; in `TwimBlocking` the client is the caller
and is notified by the return. A STOP condition that never comes, an interrupt
without a transfer, a second callback, or a buffer released while EasyDMA holds it
would each be a step the contract does not have.

### 3.4 `KernelPort`

Threads are `Tasks` and `Main` (the code before the scheduler); exceptions are the
`UserIrqs`, `Tick` and `PendSV`, with priorities in the form that registers hold them:
`Register(p) = p * 32 % 256`, so that `configKERNEL_INTERRUPT_PRIORITY` 15 becomes 224
and `configMAX_SYSCALL_INTERRUPT_PRIORITY` 2 becomes 64 in BASEPRI, but stays 2
where the code forgets the shift. `Runs(c)` says who has the processor. Between
`EnterMask` and `EnterCount`, and between `ExitCount` and `ExitUnmask`, an exception that
the mask lets through may come. `phase` is the progress of the start-up. The
kernel is external: `xTaskIncrementTick` and a FromISR function may ask for a
switch, `vTaskSwitchContext` chooses any task. A task may return from its function
at any time, into `prvTaskExitError`, which keeps the processor.

The registers are seen in three groups: those that the exception stacks (`frame`),
r4-r11 (`core`), and the FPU's (`fpu`). A value names the task it belongs to, and a handler
overwrites what it may. `UsesFPU` is the test of EXC_RETURN in PendSV; `FPCA` and the
EXC_RETURN values are the processor's. Tasks use the FPU once it is enabled
(`vPortEnableVFP`).

Interrupts that call the kernel are raised from the moment the tick runs.
Interrupts above the kernel's mask that do not use the kernel are left out: they
touch nothing that is modelled.

### 3.5 `KernelPortM0`

The same contexts on a Cortex-M0, which has no BASEPRI. `masked` is PRIMASK or, in a build
with a SoftDevice (`Builds` has both), the critical region of the SoftDevice, which holds
back the application's interrupts and not PendSV (`Deliverable`). The four steps of an
outermost `vPortExitCritical` are separate (`ExitCount`, `ExitUnmask`, `TestFlag`, `ClearFlag`,
`PendSwitch`). `owes` records that a task has yielded with no switch since.

The stack of a task has a word for each group of four registers, `psp` counts in these
words, and `SaveContext` and `LoadContext` do what the assembly does, r8-r11 by way of
r4-r7 included. r4-r11 of the first task hold what they happen to hold at the start:
`vPortStartFirstTask` does not load them, and a task makes no use of what it has not set.

With a SoftDevice, `cpsie i` (`nrf51/port.c:73`) does not end the region that
`vTaskStartScheduler` has entered with `portDISABLE_INTERRUPTS`: until the first
`vPortExitCritical` of a task only PendSV is taken. `MaskReopened` therefore begins with
`opened`.

### 3.6 `RtcTick`

`xPortSysTickHandler` takes three steps (entry with the reset of COMPARE, the read of the
counter, the correction with the reset of TICK) and `vPortSuppressTicksAndSleep` one for each
access that a tick may come between. The counter is `MAXTICKS + 1` long, the tick count a
multiple of it, so that both wrap. `behind`, a history variable, is the number of
elapsed ticks that the kernel has not counted.

* `ConfirmsPended`: `eTaskConfirmSleepModeStatus`, in the kernel, aborts a sleep while ticks
  are pended. Without it all three properties fail.
* `PromptSleep`: no tick elapses between reading `enterTime` and writing the compare
  register. Without it a sleep can last a whole round of the counter longer, and
  `SleepCounted` and `CatchesUp` fail.

This is the text of `nrf51/port_cmsis_systick.c`; lines 108-268 of the nRF52's file
repeat it, behind an `#error`. The build's configuration has `configUSE_TICKLESS_IDLE` 0
and the SysTick as its source (`FreeRTOSConfig.h:52-58`).

### 3.7 `TwiLegacy`

The bus moves a byte at a time and takes STOP and SUSPEND at the next byte boundary;
BB_SUSPEND and BB_STOP are its shortcuts. A byte is sent when it is in TXD with TXDSENT
clear, as the note at `twi_helper.cpp:220-222` has it. The loops of `tx_transfer` and
`rx_transfer` are program counters with a step for each register access; `received`
wraps at `SizeMax`. The bytes of a buffer are numbered, so that order, loss and
repetition can be told.

* `Paced`: a call is made once the STOP of the one before has ended; the helpers return
  before it. Without it all four properties fail.

The bus may move between any two accesses. Two things that follow are in the properties and
not in the way of the bus:

* A write of one byte whose TXDSENT comes before the first look at the bus loads and sends
  the byte behind its buffer (`twi_helper.cpp:258-262`). `Reach` says so: no other write
  passes its `length`, and this one passes it by one byte.
* After a write without stop the bus may move between RESUME and START, while TXD still
  holds the old byte. `early`, a history variable, records that it did in this call;
  `TwiResent.cfg` shows the byte going out again. `WireInOrder`, `WriteDelivered` and the
  aborted writes of `BusGivenUp` are about the calls without it, `ReadExact` about all.

### 3.8 `Gpio`

Users with a pin each share the two ports' OUT and toggle in three steps. A pin is a
port and a number, `At` its place in the registers. `wanted` is a history
variable: the level the operations on a pin ask for.

### 3.9 `VoltageBoot`, `Spin` and `Dongle`

A voltage is the set of its one-bits; a flash write is an intersection. Power may
be lost at any step and the board comes back on any supply. `Call` is an
application that calls `highVoltageMode(bool)` after boot; `en` is the argument of the
latest call, by the boot or by the application.

`Spin` has the two enable bits, the counter with its wrap (`Round`), the saved values and
the reading of each call. `waited` is the time since a call's first reading.

`Dongle` is the main thread of the application: `VoltageStep` until the voltage is as
`init_` wants it, `StartLed`, then `Toggle` and `SpinCall` in turn. Interrupts spin, too. A
reset, or a loss of power, takes all of it to the boot and leaves the flash.

## 4. Runs

### 4.1 Properties that hold

| Run | Shows |
|---|---|
| `twim_shared` | Two tasks and the callbacks share a master, with all nine operations, `stop()` in mid-transfer and the interrupt masked by tasks. Until an end overtakes an error (3.1): both assertions of the interrupt path hold (`NoSecondCompletion`, `NoSpuriousInterrupt`); a clear `busy_` means a bus at rest and no enabled interrupt (`FreeMeansQuiet`); every START finds the engine ready and no stale completion (`StartsOnQuietBus`); every callback is the owner's (`CallbackToOwner`); `busy_` is only set while something is under way, or after a call that starts nothing (`BusyMeansInFlight`); a refused byte is reported, and nothing else is (`ErrorReported`). |
| `twim_live` | Two tasks, a transfer that ends suspended and one that turns and ends with a STOP, masked interrupts, again until an end overtakes an error: every accepted transfer is called back or gives the bus back (`TransferCompletes`), and the driver implements its contract (`ContractSpec`). |
| `twim_blocking` | All nine operations, two tasks in turn, `start()`, `stop()` and two frequencies: no call returns with its buffer in the hands of EasyDMA (`BufferReleased`); the status is that of the call's own transfer (`StatusIsOwn`) and `ok` means that all its bytes moved between its buffers and its address (`OkMeansMoved`); the master is only enabled on its pins (`EnabledOnItsPins`); every call returns (`CallReturns`); the contract holds (`ContractSpec`). |
| `port_tasks` | From before the scheduler starts, with a SoftDevice, two tasks, tick, switch and two nesting driver interrupts: a task goes on with its own registers, the FPU's too (`ContextOfCurrent`); the kernel's data is reached by one context at a time; the one counter is always the current thread's; tick and PendSV find the mask clear, as their comments claim; neither comes before the first task; the mask is open again outside critical sections; a requested switch takes place, also one requested inside a critical section (`YieldServed`, under fairness). |
| `port_m0_tasks` | The nRF51 port in both builds: one context at a time in the kernel, although PendSV is not held back (`KernelExclusion`); the counter is the current thread's; a task that has yielded does not go on outside its critical sections before a switch (`YieldBeforeReturn`); nothing stays masked (`MaskReopened`); the context switch, register by register, gives each task its own (`ContextOfCurrent`). |
| `rtc_tick` | The kernel never counts a tick early or twice (`TickNeverAhead`), no sleep loses a round of the counter (`SleepCounted`), and a handler that runs with the scheduler running leaves nothing uncounted (`CatchesUp`). |
| `twi_legacy` | Unless the bus moves between RESUME and START, bytes go out in order and once, within the buffer but for one byte after a write of one (`WireInOrder`), all of them (`WriteDelivered`). In any case a read asks for as many bytes as the buffer holds and stores each in its place (`ReadExact`), and the bus becomes free after it (`BusGivenUp`, with the writes). |
| `gpio_pins` | Toggles that interleave leave each pin at the level its own user asked for; a started output is driven. |
| `dongle` | A delay is never too short, across the wrap (`SpinWaits`); the counter is put back as it was found (`CounterAsFound`) and runs under every poll (`CounterRuns`); through power losses and earlier calls in any mode `highVoltageMode(true)` changes REGOUT0 only from its default and only to 3.0 V (`RaisedFromDefault`). |

The type invariants are parts of the invariants of section 5: they are proved and take no run.

### 4.2 Disagreements between the code and what is said of it

| Run | The code |
|---|---|
| `twim_late_handler` | A NACK on a write's last byte sets ERROR, and the shortcut's STOP sets STOPPED before the handler looks. The ERROR branch calls back without clearing STOPPED, the line stays active, and the handler calls back again with no transfer in flight: `assert(r)` at `nrf52_i2c_master.hpp:242`. |
| `twim_refused_byte` | A NACK on the last byte of a write without stop sets ERROR and SUSPENDED at once. The handler takes the ERROR branch, later the STOPPED branch, and SUSPENDED stays set. The next such write enables that interrupt (`twim_helper.cpp:287`) before it clears the event (line 289): the interrupt is taken and finds none, `assert(0)` at line 124. No handler is late in this run (`PromptHandlerFindsEvent`). |
| `port_too_urgent` | `ucMaxSysCallPriority` is computed from the unshifted priority and is 0: the assertion that should catch a too urgent interrupt compares with 0. The interrupt of the run has the priority `NRF_IRQ_PRIOR_LOWEST`, 8, of which three bits hold nothing: it is the most urgent one. |

Three more configurations stand beside the runs; TLC finds a violation with each
(`tlc -config X.cfg M`):

| Configuration, module | The code |
|---|---|
| `TwiResent.cfg`, `MCTwiLegacy` | `tx_transfer` clears TXDSENT and triggers RESUME before START. After a write without stop the old byte is still in TXD; if a byte time passes before START it is sent again, which the note at `twi_helper.cpp:220-222` warns of (`NothingBeforeStart`). |
| `VoltageRestore.cfg`, `VoltageBoot` | `highVoltageMode(false)` should restore the default (`nrf52840.cpp:76`). The default is all ones and flash is not erased: the register stays as it is, and the board resets (`DefaultRestored`). |
| `VoltageLoop.cfg`, `VoltageBoot` | A board that is not in high voltage mode resets for ever at boot: the platform's condition is the inverse of what its comment says, and `highVoltageMode(true)` ends in a reset whatever the voltage is. It never gets to the LEDs (`LedsStart`). |

Met on the way, without a run of their own:

* A write of one byte by the legacy TWI loads and sends the byte behind its buffer, when
  the first one is out before the loop first looks (`twi_helper.cpp:258-262`; the 2 in
  `Reach`).
* `operation::stop` and `restart` take `busy_`, and nothing gives it back; so does `stop_()`
  with a transfer in flight (`nrf52_i2c_master.hpp:70, 193`; the `stranded` of
  `BusyMeansInFlight`). After a write without stop the STOP goes to a suspended engine, which
  the note at `twim_helper.cpp:38-39` rules out (`StopCondition`).
* `setMode(input)` does not configure the pin (`Configured`).
* `highVoltageMode(true)` on a board that has a voltage takes the second branch and asks
  for the default; a board on USB, the one that needs it, keeps the default (`Boot`).
* Delays above 67 s: `usecs * 64` wraps (`DelayAssumption` excludes them). Two tasks of a
  round-robin scheduler that spin stop the counter under each other (`CounterRuns` fails
  with `Nested = FALSE`); with it stopped the poll does not end.

### 4.3 Bounds, and why they are enough

* `Twim*`: two tasks (one in the two runs with a violation). The contexts meet in `busy_` only, and
  after a failed swap a call does nothing, so two tasks and a callback give an owner, a
  preempted predecessor that still returns its status, and a rival. One bit stands for each
  event and each error, as in the registers; no counter is bounded. Tasks are
  symmetric in `twim_shared`, where no liveness is checked. `twim_live` has two of the nine
  operations, for its size: the two completion events, and every direction and shortcut
  but the plain read's.
  Both runs have the CONSTRAINT `InTime`: their properties claim nothing from the first time
  an end overtakes an error, and `overtaken` never shrinks, so that the states beyond
  satisfy each of them.
* `twim_blocking`: two tasks suffice to tell whose buffer and address are in the registers.
* `PortTasks`, `PortM0`: `MaxNesting` 2 (a section in a section, and the exit that must not
  unmask); two tasks; two driver interrupts that nest in each other and in the tick, at
  `NRF_IRQ_PRIOR_LOW` (6) and at the most urgent permitted priority (2) on the nRF52. With
  a SoftDevice the nRF52's start-up lowers the mask to the kernel's priority before the
  first task, so that driver interrupts come earlier: it is the harder case. Without one
  the theorems hold too. On the nRF51 the run has both builds.
* `RtcTick`: a counter of 8 values and a tick count of 16 wrap within a sleep. `MaxBehind`
  and `MaxPended`, 2 each, bound how long interrupts hold the handler back and how long
  the scheduler is suspended; they must be less than a round (`CounterAssumption`), as the
  hardware's 512 s round (24 bits of 32768 Hz) makes likely. The idle times are the
  shortest, one inside the round and one that has to be cut.
* `TwiLegacy`: buffers of 1 to 3 bytes: a case of its own, the first and last byte, and one
  in the middle. `SizeMax` 7 only has to exceed them.
* `GpioPins`: three users: two pins of one port, two of one number.
* `Dongle`: delays of 0 to 2 units, a counter that wraps after 5 cycles, longer than the
  longest delay, as `DelayAssumption` demands; two LEDs; one interrupt. The voltage has no
  bound: its 3 bits are all there.

`CHECK_DEADLOCK FALSE` is in `VoltageLoop.cfg`, whose `BootSpec` is one uninterrupted boot
that ends at the LEDs, and in `TwimRefusedByte.cfg`, where an interrupt that comes late for
STOPPED, which the run does not ask about, may fail an assertion and halt the program.

### 4.4 Fairness

* `twim_live`: each call that is under way goes on (tasks are preempted, not
  abandoned, and no step of a transfer waits); whoever has masked the interrupt enables it
  again (weak fairness of `enableInterrupts`); the interrupt is taken, which masking
  disables again and again, hence strong fairness of its steps: the NVIC takes a pending
  interrupt in the moment it is enabled; the bus moves and completes a STOP. Nobody is
  assumed to start a transfer. The bus' weak fairness is that of the disjunction: that
  it moves, never that it succeeds.
* `twim_blocking`: each call goes on and the bus moves, in the same sense.
* `twi_legacy`: the thread goes on and the bus moves.
* `port_tasks`: a thread gets out of the halves of enter and exit (weak fairness:
  the mask keeps others out); critical sections end (`[]<>(uxCriticalNesting = 0)`,
  an obligation of the application and the kernel, which must not block in one);
  strong fairness of the start-up and of each exception, which the mask or more
  urgent exceptions disable again and again: interrupts that take all of the
  processor's time are excluded.
* `VoltageLoop.cfg`: the boot goes on while power holds.

`spin()` ends only if the processor gets to poll in the moment the time is over or later;
no liveness is stated for it.

## 5. Proofs

Every safety property that a passing run checks is also a theorem, as are the refinements:
for any tasks, interrupts, buffers, priorities and widths that the modules' assumptions
allow, and under the condition named in the theorem, if any. The conditions are met
by the constants of section 3 at which the runs are made; `twim_late_handler`
and `twim_refused_byte` show violations where `InTime` ends, and `port_too_urgent` that
the code does not enforce `UrgencyRespected`. The invariants stand at the end of the module
they are about, were checked with TLC on the instance of its run, and are inductive together
with the facts named below.

| Theorems | Condition |
|---|---|
| `TwimMasterProofs`: `TypeCorrect`, `NoFailedAssertion`, `AnEventForEveryInterrupt`, `BufferReleased`, `StartAccepted`, `RightCallback`, `BusyIsBusy`, `ErrorsTold` | none |
| `KeepsContract` (`ContractSpec`) | `OrderlyUse` |
| `TwimBlockingProofs`: `BuffersReturned`, `OwnStatus`, `OkTransfersMoved`, `KeepsContract` | `Disciplined` |
| `PinsWhileEnabled` | none |
| `KernelPortProofs`: `PortTypes`, `Exclusion`, `OneCounterServesAll`, `ClearOnEntry`, `TasksFirst`, `NeverLeftMasked`, `ContextRestored` | `UrgencyRespected` |
| `KernelPortM0Proofs`: `Exclusion`, `OneCounterServesAll`, `YieldServedFirst`, `NeverLeftMasked`, `ContextRestored` | none |
| `GpioProofs`: `PinsUndisturbed` | `PinsApart` |
| `OutputsDriven` | `TwoPorts` |
| `RtcTickProofs`: `NeverAhead` | `ConfirmsPended` |
| `SleepsCounted`, `MadeUp` | `ConfirmsPended`, `PromptSleep`, `RoomInRound` |
| `TwiLegacyProofs`: `InOrderOnTheWire`, `AllBytesOut`, `ReadsItsBuffer` | `Paced` |
| `DongleProofs`: `RaisedOnce`, `NeverShort` | none |
| `CounterPutBack`, `PollsARunningCounter` | `OneInterrupt` |

**`TwimMasterProofs`**, for any number of tasks, any operations, reissuing callbacks or
not, `stop()` in flight or not, masked interrupts or not, on any bus. None of the properties is
inductive alone. `IInv`, which holds until an end overtakes an error, says who holds what: `busy_` has exactly one owner, which is the
only context between the swap and START (`Ownership`); until START, and while the bus
is free, the engine is at rest with no event and no pending interrupt
(`QuietUntilStart`); at most one event is set and the engine is done
before it says so (`OneEvent`); a handler past its entry runs for a transfer
that has left the calling code (`HandlerState`). The pending bit is the
subtle part: it may only be set with an event, or the assertion at `twim_helper.cpp:124`
would fail after an event is cleared by a new call (`AnEventForEveryInterrupt`). `InTime` is
used where a second event could join the first (`RefusedInTime`, `StoppedInTime`). `ProgressInv` adds, for `BusyIsBusy`, that
whatever the engine will do next is enabled as an interrupt; `ReportInv`, for `ErrorsTold`,
that a refusal is in ERRORSRC, in the variable of a call, or told. For `KeepsContract` each
step is a step of the contract or a stutter under `Phase`, because an error is handled
while the engine still moves (`SettledInv`). `OrderlyUse` leaves out what the contract
has no step for: `operation::stop` and `restart`, which take `busy_` for good, and `stop()`
with a transfer in flight (4.2).

**`TwimBlockingProofs`.** `Disciplined` is all three of the assumptions of 3.2. `OneCaller`
reduces every other part to the one call under way: no event that its poll waits for is left
when it STARTs (`StartInv`), the registers are its own (`TargetInv`), the engine's state tells
which events may be set and which of them ends the poll (`EngineInv`), ERRORSRC has what
the slave refused (`ErrorInv`), and without a refusal the engine's state tells what has
been moved (`MovedInv`). `PinsWhileEnabled` needs `PowerInv` only.

**`KernelPortProofs`.** `UrgencyRespected`: no interrupt that uses the kernel is
more urgent than `configMAX_SYSCALL_INTERRUPT_PRIORITY`; `port_too_urgent` shows the
code does not enforce it. The argument is about the *holders* of the mask: at
most one context has raised it without lowering it, BASEPRI is the kernel's mask
exactly then and otherwise what the start-up phase says (`MaskInv`); active
exceptions have different priorities and one that does not hold the mask was
preempted by the holder (`PreemptionInv`), which is why a handler that has read
BASEPRI and not yet raised it writes back the right value. A task that has returned from
its function is a holder for ever. `ContextInv`, for `ContextRestored`, says which part of a
context is on the stack and which in the registers: all of it of a task that does not run,
the exception's frame while one is active, nothing of the running task. It needs that
PendSV, the least urgent exception, runs when nothing else is active (`SwitchRuns`).

**`KernelPortM0Proofs`**, in both builds at once. The same argument with PRIMASK or the
region as the mask; since PendSV is not held back by the region, `NestingInv` has
that it is never pending inside a section of a build with a SoftDevice. `YieldInv` follows an
owed switch from the request through the flag, or the pending bit, to the handler.
`ContextInv` counts the words of the stack.

**`GpioProofs`.** With two users of one pin (no `PinsApart`) a toggle can undo a set;
`TwoPorts` says that a pin is on port 0 or 1, which `PIN_CNF` has places for.

**`RtcTickProofs`.** For any width of the counter. `AheadInv` is a sum: every tick of the
counter is in `xTickCount`, in `xPendedTicks` or in `behind`, and neither the handler between its
reading and its count, nor a sleep between its two readings, takes more than there is.
The other half, that nothing is lost, is a bound: how far behind the kernel can be before a
handler runs (`ReadingInv`) and how late a sleep ends (`SleepInv`). `RoomInRound` says that the
lateness of handlers, the pended ticks and the latency of a wake-up, all added, are less than a
round of the counter; for 24 bits of 32768 Hz that is 512 s.

**`TwiLegacyProofs`.** For `Paced` callers and buffers of any length. `IInv` is in two parts: types,
pins and requests (`BaseInv`), whatever the bus does, and the bytes (`OrderInv`), for the calls whose
bus was still between RESUME and START; each call begins anew. `WriteInv` relates TXD,
TXDSENT and the wire at each program counter of the loop: the byte in TXD is the next one of
the wire or, with TXDSENT set, its latest, up to `Reach`. `ReadsItsBuffer` is about the calls
without `early`; the run has `ReadExact` of all. `ReadInv` has the slave one byte ahead of the driver
while the bus is held, and BB_STOP in place when the last byte is received.

**`DongleProofs`.** `VoltageInv`, for `RaisedOnce`: bits are cleared only on the way from the value that was compared. `WaitInv`: what
a call has measured, modulo the wrap, has passed, whoever stops the counter meanwhile.
`CounterInv`, for one interrupt that ends before the thread goes on (`OneInterrupt`): the
enable bits say exactly who is inside.

What stays with TLC: liveness (`TransferCompletes`, `CallReturns`, `YieldServed`, `BusGivenUp`),
because fairness and ENABLED are out of the prover's reach, and with it the
violations of 4.2, which are counterexamples. `ContractSpec` has no fairness, so its
theorems are the whole of the property. No module uses a RECURSIVE operator.

## 6. Plan

All components that have state of their own are modelled, and their safety properties
are proved. What is left:

1. `CounterPutBack` and `PollsARunningCounter` for interrupts that nest in each other, each
   ending before the one it preempts goes on: the invariant has to order the calls.
2. `MaskWasClear` has no counterpart on the nRF51, where the handlers save the mask; its
   restored value is part of `MaskInv` there and could be a theorem of its own.
3. Lemmas that the two proofs of the ports share (holders, preemption), in a module of
   their own.

## 7. Not modelled

* `sdk_config.h`, 3025 lines of constants of the vendor's SDK, of which the modelled code
  uses none; linker scripts, build files, `blinky.c` (a program on that SDK).
* The nRF52 DK platform (2.8); the LED driver, the kernel, the framework and the register
  headers, which are outside the repository.
* `vPortEndScheduler` (it only asserts) and the macros of the nRF52's `portmacro_cmsis.h`
  that search the ready lists (only the kernel uses them).
* `getTWIInst` and the choice between the two instances: one instance is modelled. (The
  type of a master has its instance as a parameter, so that the static locals of
  `twim_callback_` are one instance's own.)
* `setPullups_`, `configure_`, `get`, `enabled`: they change no state. `leds_off` and the
  interrupt masks of the legacy TWI: nothing calls or enables them. The heap set-up of
  `earlyInitHook_`: its calls are outside the repository.
