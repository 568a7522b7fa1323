----------------------------- MODULE KernelPortM0 -----------------------------
(***************************************************************************)
(* The FreeRTOS port for the nRF51 (src/freertos/nrf51), a Cortex-M0       *)
(* without BASEPRI: critical sections by PRIMASK or, with a SoftDevice, by *)
(* sd_nvic_critical_region_enter and _exit.  That region holds back the    *)
(* interrupts of the application but not PendSV, so that a task that       *)
(* yields inside it leaves uxYieldFlag for vPortExitCritical.              *)
(*                                                                         *)
(* The registers, and the stack of a task, are seen in groups of four      *)
(* words; a word is named by the task and the group that it belongs to.    *)
(*                                                                         *)
(* As in KernelPort, threads and the handlers of the exceptions each have  *)
(* a program counter, and depth counts the critical sections of a thread.  *)
(* Two more history variables: owes says which threads have yielded with   *)
(* no context switch since, opened whether the interrupts have been        *)
(* enabled since the first task was started.                               *)
(***************************************************************************)
EXTENDS Naturals

CONSTANTS
    Tasks, Main,      \* threads
    Tick, PendSV,     \* the exceptions of the port, of the lowest priority
    UserIrqs,         \* interrupts whose handlers call FromISR functions
    Urgency,          \* their priorities; 0 is the most urgent
    Builds,           \* values of SOFTDEVICE_PRESENT to consider
    MaxNesting        \* bound: critical sections nest at most this deep

ASSUME ContextsAssumption ==
    /\ Main \notin Tasks
    /\ Tick # PendSV /\ {Tick, PendSV} \cap UserIrqs = {}
    /\ (Tasks \cup {Main}) \cap (UserIrqs \cup {Tick, PendSV}) = {}
ASSUME PriorityAssumption == Urgency \in [UserIrqs -> 0..2]
ASSUME BuildAssumption == Builds \subseteq BOOLEAN /\ MaxNesting \in Nat

Threads == Tasks \cup {Main}
Irqs == UserIrqs \cup {Tick}
Exceptions == Irqs \cup {PendSV}

\* configKERNEL_INTERRUPT_PRIORITY: the last of four levels.
Priority(e) == IF e \in UserIrqs THEN Urgency[e] ELSE 3

VARIABLES
    SOFTDEVICE_PRESENT, \* chosen once, by the build
    phase,              \* how far the scheduler's start has got
    current,            \* pxCurrentTCB
    pc, pend,
    masked,             \* PRIMASK, or the critical region of the SoftDevice
    isrstate,           \* what each exception's ulPortDisableISR found
    uxCriticalNesting, uxYieldFlag,
    depth, owes, opened,
    regs,               \* what the groups of registers hold
    stacks,             \* the stack of each thread, down from 4
    psp, pxTopOfStack   \* stack pointer of current; that of each TCB

build   == <<SOFTDEVICE_PRESENT, phase>>
context == <<regs, stacks, psp, pxTopOfStack>>
vars    == <<build, context, current, pc, pend, masked, isrstate, uxCriticalNesting,
             uxYieldFlag, depth, owes, opened>>

\* r4-r7 and r8-r11, which a switch has to save, are at the bottom of a frame;
\* r0-r3 and r12, lr, pc, xpsr, which the exception saves, above them.
Low == 0
High == 1
Automatic == 2..3
Groups == {Low, High} \cup Automatic

\* The frame that a switch leaves behind, which is also the first one of a task.
pxPortInitialiseStack(t) == [g \in Groups |-> <<t, g>>]

Init ==
    /\ SOFTDEVICE_PRESENT \in Builds
    /\ phase = "main" /\ current = Main
    /\ pc = [c \in Threads \cup Exceptions |-> IF c \in Threads THEN "run" ELSE "off"]
    /\ pend = {} /\ masked = FALSE /\ isrstate = [e \in Exceptions |-> FALSE]
    /\ uxCriticalNesting = 0 /\ uxYieldFlag = FALSE
    /\ depth = [t \in Threads |-> 0] /\ owes = [t \in Threads |-> FALSE]
    /\ opened = FALSE
    /\ regs = pxPortInitialiseStack(Main) /\ psp = 4
    /\ stacks = [t \in Threads |-> pxPortInitialiseStack(t)]
    /\ pxTopOfStack = [t \in Threads |-> 0]

Active == {e \in Exceptions : pc[e] # "off"}

\* The processor takes an exception as soon as it may: PRIMASK holds back all
\* of them, the region of the SoftDevice not PendSV.
Deliverable(e) ==
    /\ e \in pend /\ pc[e] = "off"
    /\ masked => SOFTDEVICE_PRESENT /\ e = PendSV
    /\ \A a \in Active : Priority(e) < Priority(a)

Runs(c) == /\ \A e \in Exceptions : ~Deliverable(e)
           /\ IF c \in Threads THEN c = current /\ Active = {}
                               ELSE \A e \in Active : Priority(c) <= Priority(e)

Goto(c, from, to) == /\ Runs(c)
                     /\ pc[c] = from
                     /\ pc' = [pc EXCEPT ![c] = to]

-----------------------------------------------------------------------------
(* Threads: vPortEnterCritical, vPortExitCritical, vPortTaskYield.         *)

EnterMask(t) ==
    /\ depth[t] < MaxNesting
    /\ Goto(t, "run", "enter")
    /\ masked' = TRUE
    /\ UNCHANGED <<build, context, current, pend, isrstate, uxCriticalNesting,
                   uxYieldFlag, depth, owes, opened>>

EnterCount(t) ==
    /\ Goto(t, "enter", "run")
    /\ uxCriticalNesting' = uxCriticalNesting + 1
    /\ depth' = [depth EXCEPT ![t] = @ + 1]
    /\ UNCHANGED <<build, context, current, pend, masked, isrstate, uxYieldFlag, owes,
                   opened>>

\* Mutant: the count is lowered by the outermost exit only.
ExitCountOuter(t) ==
    /\ depth[t] > 0
    /\ Goto(t, "run", "exit")
    /\ uxCriticalNesting' = IF depth[t] = 1 THEN 0 ELSE uxCriticalNesting
    /\ depth' = [depth EXCEPT ![t] = @ - 1]
    /\ UNCHANGED <<build, context, current, pend, masked, isrstate, uxYieldFlag, owes,
                   opened>>

ExitCount(t) ==
    /\ depth[t] > 0
    /\ Goto(t, "run", "exit")
    /\ uxCriticalNesting' = uxCriticalNesting - 1
    /\ depth' = [depth EXCEPT ![t] = @ - 1]
    /\ UNCHANGED <<build, context, current, pend, masked, isrstate, uxYieldFlag, owes,
                   opened>>

\* Mutant: the yield flag is not looked at.
ExitForgets(t) ==
    /\ Goto(t, "exit", "run")
    /\ masked' = (masked /\ uxCriticalNesting # 0)
    /\ opened' = (opened \/ (phase = "running" /\ ~masked'))
    /\ UNCHANGED <<build, context, current, pend, isrstate, uxCriticalNesting,
                   uxYieldFlag, depth, owes>>

ExitUnmask(t) ==
    /\ Goto(t, "exit", IF uxCriticalNesting = 0 /\ SOFTDEVICE_PRESENT THEN "flag" ELSE "run")
    /\ masked' = (masked /\ uxCriticalNesting # 0)
    /\ opened' = (opened \/ (phase = "running" /\ ~masked'))
    /\ UNCHANGED <<build, context, current, pend, isrstate, uxCriticalNesting,
                   uxYieldFlag, depth, owes>>

\* The flag is tested with the interrupts enabled,
TestFlag(t) ==
    /\ Goto(t, "flag", IF uxYieldFlag THEN "clear" ELSE "run")
    /\ UNCHANGED <<build, context, current, pend, masked, isrstate, uxCriticalNesting,
                   uxYieldFlag, depth, owes, opened>>

\* cleared,
ClearFlag(t) ==
    /\ Goto(t, "clear", "pend")
    /\ uxYieldFlag' = FALSE
    /\ UNCHANGED <<build, context, current, pend, masked, isrstate, uxCriticalNesting,
                   depth, owes, opened>>

\* and served.
PendSwitch(t) ==
    /\ Goto(t, "pend", "run")
    /\ pend' = pend \cup {PendSV}
    /\ UNCHANGED <<build, context, current, masked, isrstate, uxCriticalNesting,
                   uxYieldFlag, depth, owes, opened>>

\* Mutant: PendSV is asked for inside a critical section, too.
YieldAtOnce(t) ==
    /\ t \in Tasks
    /\ Goto(t, "run", "run")
    /\ pend' = pend \cup {PendSV} /\ UNCHANGED uxYieldFlag
    /\ owes' = [owes EXCEPT ![t] = TRUE]
    /\ UNCHANGED <<build, context, current, masked, isrstate, uxCriticalNesting, depth,
                   opened>>

vPortTaskYield(t) ==
    /\ t \in Tasks
    /\ Goto(t, "run", "run")
    /\ IF SOFTDEVICE_PRESENT /\ uxCriticalNesting > 0
       THEN uxYieldFlag' = TRUE /\ UNCHANGED pend
       ELSE pend' = pend \cup {PendSV} /\ UNCHANGED uxYieldFlag
    /\ owes' = [owes EXCEPT ![t] = TRUE]
    /\ UNCHANGED <<build, context, current, masked, isrstate, uxCriticalNesting, depth,
                   opened>>

\* A task that returns from its function masks the interrupts and keeps the
\* processor: "stop here so application writers can catch the error".
prvTaskExitError(t) ==
    /\ t \in Tasks
    /\ Goto(t, "run", "exited")
    /\ masked' = TRUE
    /\ UNCHANGED <<build, context, current, pend, isrstate, uxCriticalNesting,
                   uxYieldFlag, depth, owes, opened>>

StopHere(t) == Runs(t) /\ pc[t] = "exited" /\ UNCHANGED vars

ThreadStep(t) ==
    /\ t = Main => phase = "main"
    /\ \/ EnterMask(t) \/ EnterCount(t)
       \/ ExitCount(t) \/ ExitUnmask(t) \/ TestFlag(t) \/ ClearFlag(t) \/ PendSwitch(t)
       \/ vPortTaskYield(t) \/ prvTaskExitError(t) \/ StopHere(t)

-----------------------------------------------------------------------------
(* The start of the scheduler, by Main.                                    *)

Starting(from, to) == /\ phase = from /\ phase' = to
                      /\ Runs(Main) /\ pc[Main] = "run" /\ depth[Main] = 0

\* vTaskStartScheduler, in the kernel, disables the interrupts first.
vTaskStartScheduler ==
    /\ Starting("main", "masked")
    /\ masked' = TRUE
    /\ UNCHANGED <<SOFTDEVICE_PRESENT, context, current, pc, pend, isrstate,
                   uxCriticalNesting, uxYieldFlag, depth, owes, opened>>

\* The tick starts, "Interrupts are disabled here already".
xPortStartScheduler ==
    /\ Starting("masked", "ticking")
    /\ uxCriticalNesting' = 0
    /\ UNCHANGED <<SOFTDEVICE_PRESENT, context, current, pc, pend, masked, isrstate,
                   uxYieldFlag, depth, owes, opened>>

\* The frame is taken off its stack; what r4-r11 hold is the task's from now on.
\* cpsie i clears PRIMASK; it does not end a region of the SoftDevice.
vPortStartFirstTask ==
    /\ Starting("ticking", "running")
    /\ current' \in Tasks
    /\ masked' = (masked /\ SOFTDEVICE_PRESENT)
    /\ opened' = ~masked'
    /\ LET r0 == pxTopOfStack[current'] + 2 IN
          /\ psp' = r0 + 2
          /\ regs' = [g \in Groups |-> IF g \in Automatic THEN stacks[current'][r0 + g - 2]
                                      ELSE <<current', g>>]
    /\ UNCHANGED <<SOFTDEVICE_PRESENT, stacks, pxTopOfStack, pc, pend, isrstate,
                   uxCriticalNesting, uxYieldFlag, depth, owes>>

Start == vTaskStartScheduler \/ xPortStartScheduler \/ vPortStartFirstTask

-----------------------------------------------------------------------------
(* Exceptions.  Every handler masks with ulPortDisableISR, which remembers *)
(* whether the mask was there, and ends with vPortRestoreISR.              *)

Raise(e) ==
    /\ phase \in {"ticking", "running"} /\ e \in Irqs \ pend
    /\ pend' = pend \cup {e}
    /\ UNCHANGED <<build, context, current, pc, masked, isrstate, uxCriticalNesting,
                   uxYieldFlag, depth, owes, opened>>

\* The exception of a thread saves a part of its registers on its stack,
Push(e) == /\ psp' = psp - 2
           /\ stacks' = [stacks EXCEPT ![current] =
                            [i \in DOMAIN @ |-> IF i \in {psp', psp' + 1}
                                               THEN regs[i - psp' + 2] ELSE @[i]]]
           /\ regs' = [g \in Groups |-> IF g \in Automatic THEN <<e, g>> ELSE regs[g]]
           /\ UNCHANGED pxTopOfStack

\* and returns to the thread of the stack pointer.
Pop == /\ psp' = psp + 2
       /\ regs' = [g \in Groups |-> IF g \in Automatic THEN stacks[current][psp + g - 2]
                                   ELSE regs[g]]
       /\ UNCHANGED <<stacks, pxTopOfStack>>

Take(e) ==
    /\ Deliverable(e)
    /\ IF Active = {} THEN Push(e) ELSE UNCHANGED context
    /\ pend' = pend \ {e}
    /\ pc' = [pc EXCEPT ![e] = "entry"]
    /\ UNCHANGED <<build, current, masked, isrstate, uxCriticalNesting, uxYieldFlag,
                   depth, owes, opened>>

\* xPortPendSVHandler saves the other registers below; r4-r7 are used for that.
SaveContext ==
    /\ Goto(PendSV, "entry", "saved")
    /\ LET r0 == psp - 2 IN
          /\ pxTopOfStack' = [pxTopOfStack EXCEPT ![current] = r0]
          /\ stacks' = [stacks EXCEPT ![current][r0] = regs[Low],
                                          ![current][r0 + 1] = regs[High]]
    /\ regs' = [regs EXCEPT ![Low] = regs[High]]
    /\ UNCHANGED <<build, psp, current, pend, masked, isrstate, uxCriticalNesting,
                   uxYieldFlag, depth, owes, opened>>

ulPortDisableISR(e) ==
    /\ Goto(e, IF e = PendSV THEN "saved" ELSE "entry", "kernel")
    /\ isrstate' = [isrstate EXCEPT ![e] = masked]
    /\ masked' = TRUE
    /\ UNCHANGED <<build, context, current, pend, uxCriticalNesting, uxYieldFlag, depth,
                   owes, opened>>

\* xTaskIncrementTick or a FromISR function, which may want a switch.
KernelCall(e) ==
    /\ e \in Irqs
    /\ Goto(e, "kernel", "restore")
    /\ pend' \in {pend, pend \cup {PendSV}}
    /\ UNCHANGED <<build, context, current, masked, isrstate, uxCriticalNesting,
                   uxYieldFlag, depth, owes, opened>>

\* vPortSafeTaskSwitchContext chooses any task.
vTaskSwitchContext ==
    /\ Goto(PendSV, "kernel", "restore")
    /\ current' \in Tasks
    /\ owes' = [t \in Threads |-> FALSE]
    /\ UNCHANGED <<build, context, pend, masked, isrstate, uxCriticalNesting, uxYieldFlag,
                   depth, opened>>

\* Mutant: the mask is kept as it is.
RestoreNothing(e) ==
    /\ Goto(e, "restore", IF e = PendSV THEN "load" ELSE "off")
    /\ isrstate' = [isrstate EXCEPT ![e] = FALSE]
    /\ IF Active = {e} /\ e # PendSV THEN Pop ELSE UNCHANGED context
    /\ UNCHANGED <<build, current, pend, masked, uxCriticalNesting, uxYieldFlag, depth,
                   owes, opened>>

vPortRestoreISR(e) ==
    /\ Goto(e, "restore", IF e = PendSV THEN "load" ELSE "off")
    /\ masked' = (masked /\ isrstate[e])
    /\ isrstate' = [isrstate EXCEPT ![e] = FALSE]
    /\ IF Active = {e} /\ e # PendSV THEN Pop ELSE UNCHANGED context
    /\ UNCHANGED <<build, current, pend, uxCriticalNesting, uxYieldFlag, depth, owes,
                   opened>>

\* Mutant: without "Move to the high registers".
LoadWithoutMove ==
    /\ Goto(PendSV, "load", "off")
    /\ LET r0 == pxTopOfStack[current] IN
          /\ psp' = r0 + 4
          /\ regs' = [g \in Groups |-> stacks[current][r0 + IF g = High THEN Low ELSE g]]
    /\ UNCHANGED <<build, stacks, pxTopOfStack, current, pend, masked, isrstate,
                   uxCriticalNesting, uxYieldFlag, depth, owes, opened>>

\* The saved registers of the task that was chosen, and back to it.
LoadContext ==
    /\ Goto(PendSV, "load", "off")
    /\ LET r0 == pxTopOfStack[current] IN
          /\ psp' = r0 + 4
          /\ regs' = [g \in Groups |-> stacks[current][r0 + g]]
    /\ UNCHANGED <<build, stacks, pxTopOfStack, current, pend, masked, isrstate,
                   uxCriticalNesting, uxYieldFlag, depth, owes, opened>>

HandlerStep(e) == ulPortDisableISR(e) \/ KernelCall(e) \/ vPortRestoreISR(e)

-----------------------------------------------------------------------------
Next ==
    \/ \E t \in Threads : ThreadStep(t)
    \/ Start
    \/ \E e \in Exceptions : Raise(e) \/ Take(e) \/ HandlerStep(e)
    \/ SaveContext \/ vTaskSwitchContext \/ LoadContext

Spec == Init /\ [][Next]_vars

-----------------------------------------------------------------------------
(* Properties.                                                             *)

\* Who has access to the data of the kernel.
InKernel == {t \in Threads : depth[t] > 0} \cup {e \in Exceptions : pc[e] = "kernel"}

\* The kernel's data is reached by one context at a time, with either kind of
\* critical section: PendSV, which the region of the SoftDevice does not hold
\* back, never comes inside one (port_cmsis.c:187-201, 239-244).
KernelExclusion == \A a, b \in InKernel : a = b

\* The one counter always counts the sections of the thread that the processor
\* returns to, and no other thread has any open ("Each task maintains its own
\* interrupt status", port_cmsis.c:67), nor has any stopped in prvTaskExitError.
NestingOfCurrent ==
    /\ uxCriticalNesting = depth[current]
    /\ \A t \in Threads \ {current} : depth[t] = 0 /\ pc[t] # "exited"

\* A task that has yielded, inside a critical section or not, does not go on
\* outside of them until a context switch has taken place, although the flag is
\* shared by all tasks and tested after the interrupts are enabled.
YieldBeforeReturn ==
    \A t \in Tasks : Runs(t) /\ pc[t] = "run" /\ depth[t] = 0 => ~owes[t]

\* A task runs with its own registers on its own stack, wherever a switch or a
\* handler has interrupted it: the frame that a switch leaves, the first one
\* included, is the one that another switch finds.
ContextOfCurrent ==
    phase = "running" /\ Active = {} =>
        regs = pxPortInitialiseStack(current) /\ psp = 4

\* Outside of the critical sections and handlers nothing is masked, once the
\* interrupts have been enabled: by cpsie i, or with a SoftDevice by the end of
\* the first section.
MaskReopened ==
    opened /\ Active = {} /\ pc[current] = "run" /\ depth[current] = 0 => ~masked

-----------------------------------------------------------------------------
(* The inductive invariant behind the safety properties, with either kind  *)
(* of critical section and any priorities of the drivers' interrupts.      *)

TypeOK ==
    /\ SOFTDEVICE_PRESENT \in BOOLEAN
    /\ phase \in {"main", "masked", "ticking", "running"}
    /\ current \in Threads
    /\ pc \in [Threads \cup Exceptions ->
                 {"run", "enter", "exit", "flag", "clear", "pend", "exited",
                  "off", "entry", "saved", "kernel", "restore", "load"}]
    /\ pend \subseteq Exceptions
    /\ masked \in BOOLEAN /\ opened \in BOOLEAN /\ uxYieldFlag \in BOOLEAN
    /\ isrstate \in [Exceptions -> BOOLEAN]
    /\ uxCriticalNesting \in Nat
    /\ depth \in [Threads -> Nat] /\ owes \in [Threads -> BOOLEAN]

\* Which steps each context has.
PcInv ==
    /\ \A t \in Tasks : pc[t] \in {"run", "enter", "exit", "flag", "clear", "pend", "exited"}
    /\ pc[Main] \in {"run", "enter", "exit", "flag"}
    /\ \A t \in Threads : pc[t] \in {"flag", "clear", "pend"} => depth[t] = 0
    /\ \A e \in Irqs : pc[e] \in {"off", "entry", "kernel", "restore"}
    /\ pc[PendSV] \in {"off", "entry", "saved", "kernel", "restore", "load"}

\* The first task has nothing of Main's to finish, and no switch behind it.
StartInv ==
    /\ phase = "running" <=> current # Main
    /\ phase # "running" => /\ Active = {} /\ PendSV \notin pend
                            /\ ~uxYieldFlag /\ ~opened
    /\ phase = "main" => pend = {}
    /\ phase # "main" => depth[Main] = 0 /\ pc[Main] = "run"
    /\ phase = "running" /\ ~SOFTDEVICE_PRESENT => opened

\* The contexts that raised the mask and have not lowered it.
Holders == {t \in Threads : depth[t] > 0 \/ pc[t] \in {"enter", "exit", "exited"}}
              \cup {e \in Exceptions : pc[e] \in {"kernel", "restore"}}

\* Whether the interrupts are masked when nobody holds the mask.
IdleMask == phase \in {"masked", "ticking"} \/ (phase = "running" /\ ~opened)

MaskInv ==
    /\ \A a, b \in Holders : a = b
    /\ masked <=> Holders # {} \/ IdleMask
    /\ \A e \in Exceptions : pc[e] \in {"kernel", "restore"} => (isrstate[e] <=> IdleMask)

\* Active exceptions differ in priority, and one that does not hold the mask
\* can only have been preempted by the one that does.
PreemptionInv ==
    /\ \A a, b \in Active : a # b => Priority(a) # Priority(b)
    /\ \A e \in Active \ Holders : \A h \in Holders :
          h \in Exceptions /\ Priority(h) < Priority(e)

\* The counter is the current thread's, and inside the region of the SoftDevice
\* no switch is asked for: it would take place.
NestingInv ==
    /\ uxCriticalNesting = depth[current]
    /\ \A t \in Threads \ {current} : t \notin Holders
    /\ SOFTDEVICE_PRESENT /\ Holders \cap Threads # {} => PendSV \notin pend

\* Only the current thread owes a switch, and it is asked for, about to take
\* place, or left to uxYieldFlag.
YieldInv ==
    \A t \in Threads : owes[t] =>
        /\ t = current
        /\ \/ PendSV \in pend
           \/ pc[PendSV] \in {"entry", "saved", "kernel"}
           \/ /\ SOFTDEVICE_PRESENT /\ uxYieldFlag
              /\ depth[t] > 0 \/ pc[t] \in {"exit", "flag"}
           \/ pc[t] \in {"clear", "pend"}

IInv == TypeOK /\ PcInv /\ StartInv /\ MaskInv /\ PreemptionInv /\ NestingInv /\ YieldInv

(* Behind ContextOfCurrent: a task that does not run has the whole frame on *)
(* its stack; the half that the exception saved is there as long as an     *)
(* exception is active, the other half is still in the registers until     *)
(* PendSV saves it.                                                        *)

HasFrame(t) == stacks[t] = pxPortInitialiseStack(t) /\ pxTopOfStack[t] = 0

Switched == {"saved", "kernel", "restore", "load"}

ContextInv ==
    /\ stacks \in [Threads -> [Groups -> Threads \X Groups]]
    /\ pxTopOfStack \in [Threads -> {0}]
    /\ \A t \in Tasks : t # current \/ pc[PendSV] \in Switched => HasFrame(t)
    /\ phase = "running" /\ Active = {} => regs = pxPortInitialiseStack(current) /\ psp = 4
    /\ phase = "running" /\ Active # {} /\ pc[PendSV] \notin Switched =>
          /\ psp = 2 /\ \A g \in Automatic : stacks[current][g] = <<current, g>>
          /\ DOMAIN regs = Groups /\ \A g \in {Low, High} : regs[g] = <<current, g>>
=============================================================================
