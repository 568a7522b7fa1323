------------------------------ MODULE KernelPort ------------------------------
(***************************************************************************)
(* The FreeRTOS port for the nRF52 (src/freertos/nrf52): critical sections *)
(* by BASEPRI, the SysTick handler, the context switch in PendSV, and the  *)
(* start of the scheduler, with the interrupts of drivers that use the     *)
(* FromISR functions of the kernel.                                        *)
(*                                                                         *)
(* The kernel itself is not in the repository.  What the port owes it is   *)
(* exclusion: threads reach its data between vPortEnterCritical and        *)
(* vPortExitCritical, interrupts under the BASEPRI mask.                   *)
(*                                                                         *)
(* Main is the code that runs before the first task.  Exceptions preempt   *)
(* each other by priority (a smaller number is more urgent); each has a    *)
(* program counter, "off" while it is not active.                          *)
(*                                                                         *)
(* The registers of a context are in three groups: those that an exception *)
(* saves by itself (frame), r4-r11 (core) and s16-s31 (fpu).  A group is   *)
(* named by the thread whose values it holds.                              *)
(*                                                                         *)
(* depth and users are history variables: the critical sections that each  *)
(* thread has entered, and the tasks that use floating point.              *)
(***************************************************************************)
EXTENDS Integers, Sequences

CONSTANTS
    Tasks, Main,       \* threads
    Tick, PendSV,      \* the exceptions of the port
    UserIrqs,          \* interrupts whose handlers call FromISR functions
    IrqPriority,       \* the priority their drivers gave them
    SoftDevicePresent, \* SOFTDEVICE_PRESENT is defined
    MaxNesting         \* bound: critical sections nest at most this deep

ASSUME ContextsAssumption ==
    /\ Main \notin Tasks
    /\ Tick # PendSV /\ {Tick, PendSV} \cap UserIrqs = {}
    /\ (Tasks \cup {Main}) \cap (UserIrqs \cup {Tick, PendSV}) = {}
ASSUME PriorityAssumption == IrqPriority \in [UserIrqs -> 0..15]
ASSUME BoundAssumption == /\ SoftDevicePresent \in BOOLEAN
                          /\ MaxNesting \in Nat

Threads == Tasks \cup {Main}
Exceptions == UserIrqs \cup {Tick, PendSV}

\* nordic_defs.hpp, for the Cortex-M4, and FreeRTOSConfig.h.
NRF_IRQ_PRIOR == [MAX |-> 0, HIGH |-> 2, MID |-> 4, LOW |-> 6, LOWEST |-> 8, THREAD |-> 15]

configMAX_SYSCALL_INTERRUPT_PRIORITY == NRF_IRQ_PRIOR.HIGH
configKERNEL_INTERRUPT_PRIORITY == 15

\* configPRIO_BITS is 3: NVIC_SetPriority and the writes of BASEPRI shift a priority to the top of
\* a byte.
Shift == 32 \* 1 << (8 - configPRIO_BITS)
Register(priority) == (priority * Shift) % 256

\* The bits of a byte that a priority register keeps.
Implemented(byte) == (byte \div Shift) * Shift

SyscallMask == Register(configMAX_SYSCALL_INTERRUPT_PRIORITY)
KernelMask == Register(configKERNEL_INTERRUPT_PRIORITY)

Priority(e) == IF e \in UserIrqs THEN Register(IrqPriority[e]) ELSE KernelMask

VARIABLES
    phase,             \* how far the scheduler's start has got
    current,           \* the thread that the processor returns to (pxCurrentTCB)
    pc,                \* what each thread and exception executes next
    pend,              \* exceptions that are pending
    basepri,           \* BASEPRI
    saved,             \* the mask that each user interrupt saved
    uxCriticalNesting, \* uxCriticalNesting
    ucMaxSysCallPriority,
    CPACR,             \* the FPU is enabled
    regs,              \* what the groups of registers hold
    FPCA,              \* CONTROL.FPCA: the thread has a floating-point context
    lr,                \* EXC_RETURN of the exception of a thread: its frame
    stacks,            \* what is on the stack of each task, the top first
    depth, users

context == <<CPACR, regs, FPCA, lr, stacks, users>>
vars == <<phase, context, current, pc, pend, basepri, saved, uxCriticalNesting,
          ucMaxSysCallPriority, depth>>

\* The frame of a task that has not run yet, with portINITIAL_EXEC_RETURN.
pxPortInitialiseStack(t) == << <<t, "basic">>, t >>

Init ==
    /\ phase = "main" /\ current = Main
    /\ pc = [c \in Threads \cup Exceptions |-> IF c \in Threads THEN "run" ELSE "off"]
    /\ pend = {} /\ basepri = 0
    /\ saved = [u \in UserIrqs |-> 0]
    /\ uxCriticalNesting = 0
    /\ ucMaxSysCallPriority = 0
    /\ depth = [t \in Threads |-> 0]
    /\ regs = [frame |-> Main, core |-> Main, fpu |-> Main]
    /\ CPACR = FALSE /\ FPCA = FALSE /\ lr = "basic" /\ users = {}
    /\ stacks = [t \in Tasks |-> pxPortInitialiseStack(t)]

Active == {e \in Exceptions : pc[e] # "off"}

\* A thread runs when no exception is active, an exception unless a more
\* urgent one is.
Runs(c) == IF c \in Threads THEN c = current /\ Active = {}
                            ELSE \A e \in Active : Priority(c) <= Priority(e)

Goto(c, from, to) == /\ Runs(c)
                     /\ pc[c] = from
                     /\ pc' = [pc EXCEPT ![c] = to]

-----------------------------------------------------------------------------
(* The context of a task: what the exceptions and xPortPendSVHandler put   *)
(* on its stack.                                                           *)

Push(e) == /\ stacks' = [stacks EXCEPT ![current] = <<regs.frame>> \o @]
           /\ lr' = IF FPCA THEN "extended" ELSE "basic"
           /\ regs' = [regs EXCEPT !.frame = e] /\ FPCA' = FALSE
           /\ UNCHANGED <<CPACR, users>>

Pop == /\ stacks' = [stacks EXCEPT ![current] = Tail(@)]
       /\ regs' = [regs EXCEPT !.frame = Head(stacks[current])]
       /\ FPCA' = (lr = "extended") /\ lr' = "basic"
       /\ UNCHANGED <<CPACR, users>>

\* An exception of a task, not one that preempts another; Main, whose context is
\* given up at the end, runs on the stack of the exceptions.
OnTask(others) == Active = others /\ current # Main
EnterException(e) == IF OnTask({}) THEN Push(e) ELSE UNCHANGED context
LeaveException(e) == IF OnTask({e}) THEN Pop ELSE UNCHANGED context

\* Mutant: the floating-point registers are nobody's business.
NoFPU(exc_return) == FALSE

\* "Is the task using the FPU context?"
UsesFPU(exc_return) == exc_return = "extended"

SaveContext ==
    /\ stacks' = [stacks EXCEPT ![current] =
                     << <<regs.core, lr>> >> \o (IF UsesFPU(lr) THEN <<regs.fpu>> ELSE <<>>) \o @]
    /\ UNCHANGED <<CPACR, regs, FPCA, lr, users>>

\* Back to task t, by the EXC_RETURN on its stack.
RestoreContext(t) ==
    LET exc_return == stacks[t][1][2]
        fpus == IF UsesFPU(exc_return) THEN 1 ELSE 0
    IN  /\ regs' = [core  |-> stacks[t][1][1],
                    fpu   |-> IF fpus = 1 THEN stacks[t][2] ELSE regs.fpu,
                    frame |-> stacks[t][2 + fpus]]
        /\ FPCA' = (exc_return = "extended") /\ lr' = "basic"
        /\ stacks' = [stacks EXCEPT ![t] = SubSeq(@, 3 + fpus, Len(@))]
        /\ UNCHANGED <<CPACR, users>>

-----------------------------------------------------------------------------
(* Threads: vPortEnterCritical, vPortExitCritical, portYIELD.              *)

\* portDISABLE_INTERRUPTS.
EnterMask(t) ==
    /\ depth[t] < MaxNesting
    /\ Goto(t, "run", "enter")
    /\ basepri' = SyscallMask
    /\ UNCHANGED <<phase, context, current, pend, saved, uxCriticalNesting,
                   ucMaxSysCallPriority, depth>>

EnterCount(t) ==
    /\ Goto(t, "enter", "run")
    /\ uxCriticalNesting' = uxCriticalNesting + 1
    /\ depth' = [depth EXCEPT ![t] = @ + 1]
    /\ UNCHANGED <<phase, context, current, pend, basepri, saved, ucMaxSysCallPriority>>

ExitCount(t) ==
    /\ depth[t] > 0
    /\ Goto(t, "run", "exit")
    /\ uxCriticalNesting' = uxCriticalNesting - 1
    /\ depth' = [depth EXCEPT ![t] = @ - 1]
    /\ UNCHANGED <<phase, context, current, pend, basepri, saved, ucMaxSysCallPriority>>

\* Mutant: every exit unmasks the interrupts.
ExitUnmaskAlways(t) ==
    /\ Goto(t, "exit", "run")
    /\ basepri' = 0
    /\ UNCHANGED <<phase, context, current, pend, saved, uxCriticalNesting,
                   ucMaxSysCallPriority, depth>>

\* Mutant: off by one, the mask stays after the outermost exit.
ExitUnmaskNever(t) ==
    /\ Goto(t, "exit", "run")
    /\ basepri' = IF uxCriticalNesting = 1 THEN 0 ELSE basepri
    /\ UNCHANGED <<phase, context, current, pend, saved, uxCriticalNesting,
                   ucMaxSysCallPriority, depth>>

ExitUnmask(t) ==
    /\ Goto(t, "exit", "run")
    /\ basepri' = IF uxCriticalNesting = 0 THEN 0 ELSE basepri
    /\ UNCHANGED <<phase, context, current, pend, saved, uxCriticalNesting,
                   ucMaxSysCallPriority, depth>>

\* A task may yield inside a critical section: the switch waits for its end.
portYIELD(t) ==
    /\ t \in Tasks
    /\ Goto(t, "run", "run")
    /\ pend' = pend \cup {PendSV}
    /\ UNCHANGED <<phase, context, current, basepri, saved, uxCriticalNesting,
                   ucMaxSysCallPriority, depth>>

\* The first floating-point instruction of a task.
UseFPU(t) ==
    /\ CPACR /\ t \in Tasks \ users
    /\ Goto(t, "run", "run")
    /\ regs' = [regs EXCEPT !.fpu = t] /\ FPCA' = TRUE
    /\ users' = users \cup {t}
    /\ UNCHANGED <<phase, CPACR, lr, stacks, current, pend, basepri, saved, uxCriticalNesting,
                   ucMaxSysCallPriority, depth>>

\* A task that returns from its function masks the interrupts and keeps the
\* processor: "stop here so application writers can catch the error".
prvTaskExitError(t) ==
    /\ t \in Tasks
    /\ Goto(t, "run", "exited")
    /\ basepri' = SyscallMask
    /\ UNCHANGED <<phase, context, current, pend, saved, uxCriticalNesting,
                   ucMaxSysCallPriority, depth>>

StopHere(t) == Runs(t) /\ pc[t] = "exited" /\ UNCHANGED vars

\* Main calls the kernel, to create tasks, until it starts the scheduler.
ThreadStep(t) ==
    /\ t = Main => phase = "main"
    /\ \/ EnterMask(t) \/ EnterCount(t)
       \/ ExitCount(t) \/ ExitUnmask(t) \/ portYIELD(t) \/ UseFPU(t)
       \/ prvTaskExitError(t) \/ StopHere(t)

-----------------------------------------------------------------------------
(* The start of the scheduler, by Main.                                    *)

Starting(from, to) == /\ phase = from /\ phase' = to
                      /\ Runs(Main) /\ pc[Main] = "run" /\ depth[Main] = 0

\* vTaskStartScheduler, in the kernel, masks the interrupts first.
vTaskStartScheduler ==
    /\ Starting("main", "masked")
    /\ basepri' = SyscallMask
    /\ UNCHANGED <<context, current, pc, pend, saved, uxCriticalNesting,
                   ucMaxSysCallPriority, depth>>

\* "Ensure the VFP is enabled - it should be anyway."
vPortEnableVFP == CPACR' = TRUE

\* The priority of the kernel interface is probed, PendSV gets its priority,
\* the tick starts and the FPU is enabled.
xPortStartScheduler ==
    /\ Starting("masked", "ticking")
    /\ ucMaxSysCallPriority' = Implemented(configMAX_SYSCALL_INTERRUPT_PRIORITY)
    /\ uxCriticalNesting' = 0
    /\ vPortEnableVFP
    /\ UNCHANGED <<regs, FPCA, lr, stacks, users, current, pc, pend, basepri, saved, depth>>

\* "Block kernel interrupts only (PendSV) before calling SVC"
vPortStartFirstTask ==
    /\ Starting("ticking", "svc")
    /\ basepri' = IF SoftDevicePresent THEN KernelMask ELSE basepri
    /\ UNCHANGED <<context, current, pc, pend, saved, uxCriticalNesting,
                   ucMaxSysCallPriority, depth>>

\* The first task's context is loaded, Main's is gone.
vPortSVCHandler ==
    /\ Starting("svc", "running")
    /\ current' \in Tasks
    /\ RestoreContext(current')
    /\ basepri' = 0
    /\ UNCHANGED <<pc, pend, saved, uxCriticalNesting, ucMaxSysCallPriority, depth>>

Start == vTaskStartScheduler \/ xPortStartScheduler \/ vPortStartFirstTask \/ vPortSVCHandler

-----------------------------------------------------------------------------
(* Exceptions: pending and entry.                                          *)

Ticking == phase \in {"ticking", "svc", "running"}

\* The SysTick counter expires, or a peripheral raises its line.
Raise(e) ==
    /\ Ticking /\ e # PendSV /\ e \notin pend
    /\ pend' = pend \cup {e}
    /\ UNCHANGED <<phase, context, current, pc, basepri, saved, uxCriticalNesting,
                   ucMaxSysCallPriority, depth>>

\* The processor takes e when nothing active is as urgent and BASEPRI, if it
\* is not zero, lets e through.
Take(e) ==
    /\ e \in pend /\ pc[e] = "off"
    /\ \A a \in Active : Priority(e) < Priority(a)
    /\ basepri = 0 \/ Priority(e) < basepri
    /\ EnterException(e)
    /\ pend' = pend \ {e}
    /\ pc' = [pc EXCEPT ![e] = "entry"]
    /\ UNCHANGED <<phase, current, basepri, saved, uxCriticalNesting,
                   ucMaxSysCallPriority, depth>>

-----------------------------------------------------------------------------
(* xPortSysTickHandler.                                                    *)

\* Mutant: the handler does not mask the interrupts.
TickWithoutMask ==
    /\ Goto(Tick, "entry", "kernel")
    /\ UNCHANGED <<phase, context, current, pend, basepri, saved, uxCriticalNesting,
                   ucMaxSysCallPriority, depth>>

TickMask ==
    /\ Goto(Tick, "entry", "kernel")
    /\ basepri' = SyscallMask
    /\ UNCHANGED <<phase, context, current, pend, saved, uxCriticalNesting,
                   ucMaxSysCallPriority, depth>>

\* xTaskIncrementTick may ask for a context switch.
xTaskIncrementTick ==
    /\ Goto(Tick, "kernel", "unmask")
    /\ pend' \in {pend, pend \cup {PendSV}}
    /\ UNCHANGED <<phase, context, current, basepri, saved, uxCriticalNesting,
                   ucMaxSysCallPriority, depth>>

\* Mutant: the mask stays raised.
TickLeavesMask ==
    /\ Goto(Tick, "unmask", "off")
    /\ LeaveException(Tick)
    /\ UNCHANGED <<phase, current, pend, basepri, saved, uxCriticalNesting,
                   ucMaxSysCallPriority, depth>>

\* "There is therefore no need to save and then restore the interrupt mask"
TickUnmask ==
    /\ Goto(Tick, "unmask", "off")
    /\ LeaveException(Tick)
    /\ basepri' = 0
    /\ UNCHANGED <<phase, current, pend, saved, uxCriticalNesting, ucMaxSysCallPriority,
                   depth>>

-----------------------------------------------------------------------------
(* xPortPendSVHandler: the context of the current task is saved, the kernel *)
(* chooses a task, and its context is loaded.                              *)

SwitchMask ==
    /\ Goto(PendSV, "entry", "kernel")
    /\ SaveContext
    /\ basepri' = SyscallMask
    /\ UNCHANGED <<phase, current, pend, saved, uxCriticalNesting, ucMaxSysCallPriority,
                   depth>>

vTaskSwitchContext ==
    /\ Goto(PendSV, "kernel", "unmask")
    /\ current' \in Tasks
    /\ UNCHANGED <<phase, context, pend, basepri, saved, uxCriticalNesting,
                   ucMaxSysCallPriority, depth>>

SwitchUnmask ==
    /\ Goto(PendSV, "unmask", "load")
    /\ basepri' = 0
    /\ UNCHANGED <<phase, context, current, pend, saved, uxCriticalNesting,
                   ucMaxSysCallPriority, depth>>

LoadContext ==
    /\ Goto(PendSV, "load", "off")
    /\ RestoreContext(current)
    /\ UNCHANGED <<phase, current, pend, basepri, saved, uxCriticalNesting,
                   ucMaxSysCallPriority, depth>>

-----------------------------------------------------------------------------
(* The handler of a driver that calls one FromISR function.                *)

\* vPortValidateInterruptPriority: the assertion.
vPortValidateInterruptPriority(u) ==
    /\ Goto(u, "entry", "save")
    /\ Priority(u) >= ucMaxSysCallPriority
    /\ UNCHANGED <<phase, context, current, pend, basepri, saved, uxCriticalNesting,
                   ucMaxSysCallPriority, depth>>

\* Mutant: the mask is assumed clear, as in the tick handler.
AssumeClear(u) ==
    /\ Goto(u, "save", "raise")
    /\ saved' = [saved EXCEPT ![u] = 0]
    /\ UNCHANGED <<phase, context, current, pend, basepri, uxCriticalNesting,
                   ucMaxSysCallPriority, depth>>

\* ulPortRaiseBASEPRI reads the mask, then raises it.
SaveMask(u) ==
    /\ Goto(u, "save", "raise")
    /\ saved' = [saved EXCEPT ![u] = basepri]
    /\ UNCHANGED <<phase, context, current, pend, basepri, uxCriticalNesting,
                   ucMaxSysCallPriority, depth>>

RaiseMask(u) ==
    /\ Goto(u, "raise", "kernel")
    /\ basepri' = SyscallMask
    /\ UNCHANGED <<phase, context, current, pend, saved, uxCriticalNesting,
                   ucMaxSysCallPriority, depth>>

\* portYIELD_FROM_ISR, when the kernel wants a switch.
FromISR(u) ==
    /\ Goto(u, "kernel", "restore")
    /\ pend' \in {pend, pend \cup {PendSV}}
    /\ UNCHANGED <<phase, context, current, basepri, saved, uxCriticalNesting,
                   ucMaxSysCallPriority, depth>>

\* Mutant: the old mask is not written back.
LeaveMask(u) ==
    /\ Goto(u, "restore", "off")
    /\ LeaveException(u)
    /\ UNCHANGED <<phase, current, pend, basepri, saved, uxCriticalNesting,
                   ucMaxSysCallPriority, depth>>

RestoreMask(u) ==
    /\ Goto(u, "restore", "off")
    /\ LeaveException(u)
    /\ basepri' = saved[u]
    /\ UNCHANGED <<phase, current, pend, saved, uxCriticalNesting, ucMaxSysCallPriority,
                   depth>>

HandlerStep(e) ==
    \/ e = Tick /\ (TickMask \/ xTaskIncrementTick \/ TickUnmask)
    \/ e = PendSV /\ (SwitchMask \/ vTaskSwitchContext \/ SwitchUnmask \/ LoadContext)
    \/ /\ e \in UserIrqs
       /\ \/ vPortValidateInterruptPriority(e) \/ SaveMask(e) \/ RaiseMask(e)
          \/ FromISR(e) \/ RestoreMask(e)

-----------------------------------------------------------------------------
Next ==
    \/ \E t \in Threads : ThreadStep(t)
    \/ Start
    \/ \E e \in Exceptions : Raise(e) \/ Take(e) \/ HandlerStep(e)

Spec == Init /\ [][Next]_vars

\* The start of the scheduler goes on, handlers and critical sections end, and
\* more urgent exceptions do not keep the others waiting for ever.
Fairness ==
    /\ SF_vars(Start)
    /\ \A t \in Threads : WF_vars(EnterCount(t) \/ ExitUnmask(t))
    /\ []<>(uxCriticalNesting = 0)
    /\ \A e \in Exceptions : SF_vars(Take(e) \/ HandlerStep(e))

FairSpec == Spec /\ Fairness

-----------------------------------------------------------------------------
(* Properties.                                                             *)

\* The variables keep their types (port_cmsis.c:74, 111 and the registers); those
\* of the context are the business of ContextOfCurrent.
TypeOK ==
    /\ phase \in {"main", "masked", "ticking", "svc", "running"}
    /\ current \in Threads
    /\ pc \in [Threads \cup Exceptions ->
                 {"run", "enter", "exit", "exited", "off", "entry", "kernel", "unmask",
                  "load", "save", "raise", "restore"}]
    /\ pend \subseteq Exceptions
    /\ basepri \in {0, SyscallMask, KernelMask}
    /\ saved \in [UserIrqs -> {0, SyscallMask, KernelMask}]
    /\ uxCriticalNesting \in 0..MaxNesting
    /\ ucMaxSysCallPriority \in 0..255
    /\ depth \in [Threads -> 0..MaxNesting]

\* Who has access to the data of the kernel.
InKernel == {t \in Threads : depth[t] > 0} \cup {e \in Exceptions : pc[e] = "kernel"}

\* The kernel's data is reached by one context at a time, whatever preempts
\* whom (the critical sections of port_cmsis.c:262-287, the masks of the tick,
\* of PendSV and of the FromISR functions).
KernelExclusion == \A a, b \in InKernel : a = b

\* One counter serves every task, although "Each task maintains its own
\* interrupt status" (port_cmsis.c:72): it always counts the sections of the
\* thread that the processor returns to, and no other thread has any open.
NestingOfCurrent ==
    /\ uxCriticalNesting = depth[current]
    /\ \A t \in Threads \ {current} : depth[t] = 0 /\ pc[t] = "run"

\* "The SysTick runs at the lowest interrupt priority, so when this interrupt
\* executes all interrupts must be unmasked" (port_cmsis_systick.c:60-63); the
\* context switch relies on the same.
MaskWasClear ==
    \A e \in {Tick, PendSV} : Runs(e) /\ pc[e] = "entry" => basepri = 0

\* No tick and no switch before the first task ("Interrupts are disabled here
\* already", port_cmsis.c:224-225, and "Block kernel interrupts only", port.c:65).
FirstTaskFirst == Active \cap {Tick, PendSV} # {} => phase = "running"

\* Interrupts are never left masked: a task outside the critical sections and
\* outside of vPortEnterCritical and vPortExitCritical runs with BASEPRI clear.
MaskReopened ==
    phase = "running" /\ Active = {} /\ uxCriticalNesting = 0 /\ pc[current] = "run"
        => basepri = 0

\* A task goes on with its own registers, those of the FPU included once it has
\* used them, and leaves nothing on its stack, whichever of the tasks use the
\* FPU and wherever the exceptions have interrupted them.
ContextOfCurrent ==
    phase = "running" /\ Active = {} =>
        /\ regs.frame = current /\ regs.core = current
        /\ current \in users => FPCA /\ regs.fpu = current
        /\ stacks[current] = <<>>

\* A switch that was asked for, in a critical section too, takes place, unless a
\* task returns from its function first and stops everything.
YieldServed ==
    PendSV \in pend ~> pc[PendSV] = "kernel" \/ \E t \in Tasks : pc[t] = "exited"

\* "The following assertion will fail if [an interrupt] above
\* configMAX_SYSCALL_INTERRUPT_PRIORITY calls an ISR safe FreeRTOS API
\* function" (port_cmsis.c:316-319): none gets past it.
TooUrgentCaught ==
    \A u \in UserIrqs :
        pc[u] \notin {"off", "entry"} => Priority(u) >= SyscallMask

-----------------------------------------------------------------------------
(* The inductive invariant behind the safety properties, when no driver    *)
(* interrupt that uses the kernel is more urgent than                      *)
(* configMAX_SYSCALL_INTERRUPT_PRIORITY.                                   *)

UrgencyRespected == \A u \in UserIrqs : Priority(u) >= SyscallMask

\* The contexts that raised the mask and have not lowered it.
Holders == {t \in Threads : depth[t] > 0 \/ pc[t] \in {"enter", "exit", "exited"}}
              \cup {e \in Exceptions : pc[e] \in {"kernel", "unmask", "restore"}}

\* BASEPRI when nobody holds the mask.
IdleMask == IF phase \in {"main", "running"} THEN 0
            ELSE IF phase = "svc" /\ SoftDevicePresent THEN KernelMask
            ELSE SyscallMask

MaskInv ==
    /\ \A a, b \in Holders : a = b
    /\ basepri = IF Holders = {} THEN IdleMask ELSE SyscallMask
    /\ \A u \in UserIrqs : pc[u] \in {"raise", "kernel", "restore"} => saved[u] = IdleMask

\* Active exceptions differ in priority, and one that does not hold the mask
\* can only have been preempted by the one that does.
PreemptionInv ==
    /\ \A a, b \in Active : a # b => Priority(a) # Priority(b)
    /\ \A e \in Active \ Holders : \A h \in Holders :
          h \in Exceptions /\ Priority(h) < Priority(e)

StartInv ==
    /\ phase = "running" <=> current # Main
    /\ phase \in {"main", "masked"} => pend = {} /\ Active = {}
    /\ phase # "main" => depth[Main] = 0 /\ pc[Main] = "run"

\* Which steps each context has.
PcInv ==
    /\ \A t \in Threads : pc[t] \in {"run", "enter", "exit", "exited"}
    /\ \A t \in Threads : pc[t] = "enter" => depth[t] < MaxNesting
    /\ \A e \in {Tick, PendSV} : pc[e] \in {"off", "entry", "kernel", "unmask", "load"}
    /\ \A u \in UserIrqs : pc[u] \in {"off", "entry", "save", "raise", "kernel", "restore"}

IInv == /\ TypeOK /\ PcInv /\ MaskInv /\ PreemptionInv /\ StartInv
        /\ NestingOfCurrent /\ FirstTaskFirst

(* Behind ContextOfCurrent: a task that does not run has all of its context *)
(* on its stack, with the FPU's part as soon as it has used the FPU; what   *)
(* the exception has saved of the current task is there as long as one is   *)
(* active, the rest is in the registers until PendSV saves it.              *)

Switched == {"kernel", "unmask", "load"}

ExcReturn(t) == IF t \in users THEN "extended" ELSE "basic"

Saved(t) == stacks[t] = IF t \in users THEN << <<t, "extended">>, t, t >>
                                       ELSE pxPortInitialiseStack(t)

ContextInv ==
    /\ DOMAIN regs = {"frame", "core", "fpu"} /\ DOMAIN stacks = Tasks
    /\ \A t \in Tasks : t # current \/ pc[PendSV] \in Switched => Saved(t)
    /\ phase = "running" /\ pc[PendSV] \notin Switched =>
          regs.core = current /\ (current \in users => regs.fpu = current)
    /\ phase = "running" /\ Active = {} =>
          regs.frame = current /\ (FPCA <=> current \in users) /\ stacks[current] = <<>>
    /\ phase = "running" /\ Active # {} /\ pc[PendSV] \notin Switched =>
          lr = ExcReturn(current) /\ stacks[current] = <<current>>
=============================================================================
