---------------------------- MODULE KernelPortProofs ----------------------------
(***************************************************************************)
(* Proofs about KernelPort, for any tasks and driver interrupts, any       *)
(* nesting bound, and with or without a SoftDevice: when no interrupt that *)
(* uses the kernel is more urgent than configMAX_SYSCALL_INTERRUPT_PRIORITY *)
(* the critical sections exclude each other, the mask is never left raised *)
(* and the single nesting counter serves every task.                       *)
(***************************************************************************)
EXTENDS KernelPort, SequenceTheorems, TLAPS

LEMMA Masks == /\ SyscallMask \in Nat /\ KernelMask \in Nat
               /\ 0 < SyscallMask /\ SyscallMask < KernelMask
BY DEF SyscallMask, KernelMask, Register, Shift,
       NRF_IRQ_PRIOR,
       configMAX_SYSCALL_INTERRUPT_PRIORITY, configKERNEL_INTERRUPT_PRIORITY

LEMMA Probed == Implemented(configMAX_SYSCALL_INTERRUPT_PRIORITY) \in 0..255
BY DEF Implemented, Shift, NRF_IRQ_PRIOR, configMAX_SYSCALL_INTERRUPT_PRIORITY

LEMMA Priorities ==
    ASSUME UrgencyRespected
    PROVE  /\ \A e \in Exceptions : Priority(e) \in Nat /\ Priority(e) >= SyscallMask
           /\ Priority(Tick) = KernelMask /\ Priority(PendSV) = KernelMask
<1> USE ContextsAssumption, PriorityAssumption, Masks DEF UrgencyRespected
<1>1. \A u \in UserIrqs : Priority(u) \in Nat
    BY DEF Priority, Register, Shift
<1>2. \A e \in {Tick, PendSV} : Priority(e) = KernelMask
    BY DEF Priority
<1> QED
    BY <1>1, <1>2 DEF Exceptions

-----------------------------------------------------------------------------
(* Who can hold the mask when a context runs.                              *)

LEMMA ThreadRuns ==
    ASSUME IInv, NEW t \in Threads, Runs(t)
    PROVE  t = current /\ Active = {} /\ Holders \subseteq {t}
<1>1. t = current /\ Active = {}
    BY DEF Runs
<1>2. Holders \subseteq Threads
    BY <1>1 DEF Holders, Active
<1> QED
    BY <1>1, <1>2, ContextsAssumption
    DEF IInv, NestingOfCurrent, Holders, Threads, Exceptions

LEMMA ExceptionRuns ==
    ASSUME UrgencyRespected, IInv, NEW e \in Exceptions, Runs(e), e \in Active, e \notin Holders
    PROVE  Holders = {}
<1> SUFFICES ASSUME NEW h \in Holders PROVE FALSE
    OBVIOUS
<1>1. h \in Exceptions /\ Priority(h) < Priority(e)
    BY DEF IInv, PreemptionInv
<1>2. h \in Active
    BY <1>1, ContextsAssumption DEF Holders, Active, Exceptions, Threads
<1>3. Priority(e) <= Priority(h)
    BY <1>2, ContextsAssumption DEF Runs, Exceptions, Threads
<1> QED
    BY <1>1, <1>3, Priorities

LEMMA HolderAlone ==
    ASSUME IInv, NEW h \in Holders
    PROVE  Holders = {h} /\ basepri = SyscallMask
BY DEF IInv, MaskInv

-----------------------------------------------------------------------------
(* Every step preserves the invariant.                                     *)

LEMMA Keeps_EnterMask ==
    ASSUME UrgencyRespected, IInv, NEW t \in Threads, EnterMask(t),
           t = Main => phase = "main"
    PROVE  IInv'
<1> USE ContextsAssumption, BoundAssumption DEF Exceptions, Threads, EnterMask, Goto
<1>1. Runs(t) /\ t = current /\ Active = {} /\ Holders \subseteq {t}
    BY ThreadRuns
<1>2. Holders' = Holders \cup {t}
    BY DEF Holders, IInv, TypeOK
<1>3. Active' = Active
    BY DEF Active
<1>4. TypeOK'
    BY DEF IInv, TypeOK
<1>5. PcInv'
    BY DEF IInv, PcInv
<1>6. StartInv'
    BY <1>3 DEF IInv, StartInv
<1>7. MaskInv'
    BY <1>1, <1>2 DEF MaskInv, Active
<1>8. PreemptionInv'
    BY <1>1, <1>3 DEF PreemptionInv
<1>9. NestingOfCurrent'
    BY <1>1 DEF IInv, NestingOfCurrent
<1>10. FirstTaskFirst'
    BY <1>1, <1>3 DEF FirstTaskFirst
<1> QED
    BY <1>4, <1>5, <1>6, <1>7, <1>8, <1>9, <1>10 DEF IInv

LEMMA Keeps_EnterCount ==
    ASSUME UrgencyRespected, IInv, NEW t \in Threads, EnterCount(t),
           t = Main => phase = "main"
    PROVE  IInv'
<1> USE ContextsAssumption, BoundAssumption DEF Exceptions, Threads, EnterCount, Goto
<1>1. Runs(t) /\ t = current /\ Active = {} /\ Holders \subseteq {t}
    BY ThreadRuns
<1>2. Holders' = Holders
    BY DEF Holders, IInv, TypeOK
<1>3. Active' = Active
    BY DEF Active
<1>4. TypeOK'
    BY DEF IInv, TypeOK, PcInv, NestingOfCurrent
<1>5. PcInv'
    BY DEF IInv, TypeOK, PcInv
<1>6. StartInv'
    BY <1>3 DEF IInv, StartInv
<1>7. MaskInv'
    BY <1>2 DEF IInv, MaskInv, IdleMask
<1>8. PreemptionInv'
    BY <1>1, <1>3 DEF PreemptionInv
<1>9. NestingOfCurrent'
    BY DEF IInv, TypeOK, NestingOfCurrent
<1>10. FirstTaskFirst'
    BY <1>1, <1>3 DEF FirstTaskFirst
<1> QED
    BY <1>4, <1>5, <1>6, <1>7, <1>8, <1>9, <1>10 DEF IInv

LEMMA Keeps_ExitCount ==
    ASSUME UrgencyRespected, IInv, NEW t \in Threads, ExitCount(t),
           t = Main => phase = "main"
    PROVE  IInv'
<1> USE ContextsAssumption, BoundAssumption DEF Exceptions, Threads, ExitCount, Goto
<1>1. Runs(t) /\ t = current /\ Active = {} /\ Holders \subseteq {t}
    BY ThreadRuns
<1>2. Holders' = Holders
    BY DEF Holders, IInv, TypeOK
<1>3. Active' = Active
    BY DEF Active
<1>4. TypeOK'
    BY DEF IInv, TypeOK, NestingOfCurrent
<1>5. PcInv'
    BY DEF IInv, PcInv
<1>6. StartInv'
    BY <1>3 DEF IInv, StartInv
<1>7. MaskInv'
    BY <1>2 DEF IInv, MaskInv, IdleMask
<1>8. PreemptionInv'
    BY <1>1, <1>3 DEF PreemptionInv
<1>9. NestingOfCurrent'
    BY DEF IInv, TypeOK, NestingOfCurrent
<1>10. FirstTaskFirst'
    BY <1>1, <1>3 DEF FirstTaskFirst
<1> QED
    BY <1>4, <1>5, <1>6, <1>7, <1>8, <1>9, <1>10 DEF IInv

LEMMA Keeps_ExitUnmask ==
    ASSUME UrgencyRespected, IInv, NEW t \in Threads, ExitUnmask(t),
           t = Main => phase = "main"
    PROVE  IInv'
<1> USE ContextsAssumption, BoundAssumption DEF Exceptions, Threads, ExitUnmask, Goto
<1>1. Runs(t) /\ t = current /\ Active = {} /\ Holders \subseteq {t}
    BY ThreadRuns
<1>2. Holders' = IF uxCriticalNesting = 0 THEN {} ELSE Holders
    BY <1>1 DEF Holders, IInv, TypeOK, NestingOfCurrent
<1>3. Active' = Active
    BY DEF Active
<1>4. TypeOK'
    BY DEF IInv, TypeOK
<1>5. PcInv'
    BY DEF IInv, PcInv
<1>6. StartInv'
    BY <1>3 DEF IInv, StartInv
<1>7. MaskInv'
    BY <1>1, <1>2 DEF IInv, TypeOK, MaskInv, StartInv, IdleMask
<1>8. PreemptionInv'
    BY <1>1, <1>3 DEF PreemptionInv
<1>9. NestingOfCurrent'
    BY DEF IInv, NestingOfCurrent
<1>10. FirstTaskFirst'
    BY <1>1, <1>3 DEF FirstTaskFirst
<1> QED
    BY <1>4, <1>5, <1>6, <1>7, <1>8, <1>9, <1>10 DEF IInv

LEMMA Keeps_portYIELD ==
    ASSUME UrgencyRespected, IInv, NEW t \in Threads, portYIELD(t),
           t = Main => phase = "main"
    PROVE  IInv'
<1> USE ContextsAssumption, BoundAssumption DEF Exceptions, Threads, portYIELD, Goto
<1>1. Runs(t) /\ t = current /\ Active = {} /\ Holders \subseteq {t}
    BY ThreadRuns
<1>2. Holders' = Holders
    BY DEF Holders
<1>3. Active' = Active
    BY DEF Active
<1>4. TypeOK'
    BY DEF IInv, TypeOK
<1>5. PcInv'
    BY DEF IInv, PcInv
<1>6. StartInv'
    BY <1>1 DEF IInv, StartInv
<1>7. MaskInv'
    BY <1>2 DEF IInv, MaskInv, IdleMask
<1>8. PreemptionInv'
    BY <1>1, <1>3 DEF PreemptionInv
<1>9. NestingOfCurrent'
    BY DEF IInv, NestingOfCurrent
<1>10. FirstTaskFirst'
    BY <1>1, <1>3 DEF FirstTaskFirst
<1> QED
    BY <1>4, <1>5, <1>6, <1>7, <1>8, <1>9, <1>10 DEF IInv

LEMMA Keeps_UseFPU ==
    ASSUME UrgencyRespected, IInv, NEW t \in Threads, UseFPU(t),
           t = Main => phase = "main"
    PROVE  IInv'
<1> USE ContextsAssumption, BoundAssumption DEF Exceptions, Threads, UseFPU, Goto
<1>1. Runs(t) /\ t = current /\ Active = {} /\ Holders \subseteq {t}
    BY ThreadRuns
<1>2. Holders' = Holders
    BY DEF Holders
<1>3. Active' = Active
    BY DEF Active
<1>4. TypeOK'
    BY DEF IInv, TypeOK
<1>5. PcInv'
    BY DEF IInv, PcInv
<1>6. StartInv'
    BY <1>1 DEF IInv, StartInv
<1>7. MaskInv'
    BY <1>2 DEF IInv, MaskInv, IdleMask
<1>8. PreemptionInv'
    BY <1>1, <1>3 DEF PreemptionInv
<1>9. NestingOfCurrent'
    BY DEF IInv, NestingOfCurrent
<1>10. FirstTaskFirst'
    BY <1>1, <1>3 DEF FirstTaskFirst
<1> QED
    BY <1>4, <1>5, <1>6, <1>7, <1>8, <1>9, <1>10 DEF IInv

LEMMA Keeps_prvTaskExitError ==
    ASSUME UrgencyRespected, IInv, NEW t \in Threads, prvTaskExitError(t)
    PROVE  IInv'
<1> USE ContextsAssumption, BoundAssumption DEF Exceptions, Threads, prvTaskExitError, Goto
<1>1. Runs(t) /\ t = current /\ Active = {} /\ Holders \subseteq {t}
    BY ThreadRuns
<1>2. Holders' = Holders \cup {t}
    BY DEF Holders, IInv, TypeOK
<1>3. Active' = Active
    BY DEF Active
<1>4. TypeOK'
    BY DEF IInv, TypeOK
<1>5. PcInv'
    BY DEF IInv, PcInv
<1>6. StartInv'
    BY <1>3 DEF IInv, StartInv
<1>7. MaskInv'
    BY <1>1, <1>2 DEF MaskInv, Active
<1>8. PreemptionInv'
    BY <1>1, <1>3 DEF PreemptionInv
<1>9. NestingOfCurrent'
    BY <1>1 DEF IInv, NestingOfCurrent
<1>10. FirstTaskFirst'
    BY <1>1, <1>3 DEF FirstTaskFirst
<1> QED
    BY <1>4, <1>5, <1>6, <1>7, <1>8, <1>9, <1>10 DEF IInv

LEMMA Keeps_vTaskStartScheduler ==
    ASSUME UrgencyRespected, IInv, vTaskStartScheduler
    PROVE  IInv'
<1> USE ContextsAssumption, BoundAssumption DEF Exceptions, Threads, vTaskStartScheduler, Starting
<1>1. Runs(Main) /\ Main = current /\ Active = {} /\ Holders \subseteq {Main}
    BY ThreadRuns
<1>2. Holders' = Holders
    BY DEF Holders
<1>3. Active' = Active
    BY DEF Active
<1>4. TypeOK'
    BY DEF IInv, TypeOK
<1>5. PcInv'
    BY DEF IInv, PcInv
<1>6. StartInv'
    BY <1>3 DEF IInv, StartInv
<1>7. MaskInv'
    BY <1>1, <1>2 DEF MaskInv, IdleMask, Active
<1>8. PreemptionInv'
    BY <1>1, <1>3 DEF PreemptionInv
<1>9. NestingOfCurrent'
    BY DEF IInv, NestingOfCurrent
<1>10. FirstTaskFirst'
    BY <1>1, <1>3 DEF FirstTaskFirst
<1> QED
    BY <1>4, <1>5, <1>6, <1>7, <1>8, <1>9, <1>10 DEF IInv

LEMMA Keeps_xPortStartScheduler ==
    ASSUME UrgencyRespected, IInv, xPortStartScheduler
    PROVE  IInv'
<1> USE ContextsAssumption, BoundAssumption DEF Exceptions, Threads, xPortStartScheduler, Starting
<1>1. Runs(Main) /\ Main = current /\ Active = {} /\ Holders \subseteq {Main}
    BY ThreadRuns
<1>2. Holders' = Holders
    BY DEF Holders
<1>3. Active' = Active
    BY DEF Active
<1>4. TypeOK'
    BY Probed DEF IInv, TypeOK
<1>5. PcInv'
    BY DEF IInv, PcInv
<1>6. StartInv'
    BY <1>1 DEF StartInv
<1>7. MaskInv'
    BY <1>2 DEF IInv, MaskInv, IdleMask
<1>8. PreemptionInv'
    BY <1>1, <1>3 DEF PreemptionInv
<1>9. NestingOfCurrent'
    BY <1>1 DEF IInv, NestingOfCurrent
<1>10. FirstTaskFirst'
    BY <1>1, <1>3 DEF FirstTaskFirst
<1> QED
    BY <1>4, <1>5, <1>6, <1>7, <1>8, <1>9, <1>10 DEF IInv

LEMMA Keeps_vPortStartFirstTask ==
    ASSUME UrgencyRespected, IInv, vPortStartFirstTask
    PROVE  IInv'
<1> USE ContextsAssumption, BoundAssumption DEF Exceptions, Threads, vPortStartFirstTask, Starting
<1>1. Runs(Main) /\ Main = current /\ Active = {} /\ Holders \subseteq {Main}
    BY ThreadRuns
<1>2. Holders' = Holders
    BY DEF Holders
<1>3. Active' = Active
    BY DEF Active
<1>4. TypeOK'
    BY DEF IInv, TypeOK
<1>5. PcInv'
    BY DEF IInv, PcInv
<1>6. StartInv'
    BY <1>1 DEF StartInv
<1>7. MaskInv'
  <2>1. Holders = {}
    BY <1>1 DEF Holders
  <2>2. \A u \in UserIrqs : pc[u] = "off"
    BY <1>1 DEF Active
  <2>3. basepri' = IdleMask'
    BY DEF IInv, MaskInv, IdleMask
  <2> QED
    BY <1>2, <2>1, <2>2, <2>3 DEF MaskInv
<1>8. PreemptionInv'
    BY <1>1, <1>3 DEF PreemptionInv
<1>9. NestingOfCurrent'
    BY DEF IInv, NestingOfCurrent
<1>10. FirstTaskFirst'
    BY <1>1, <1>3 DEF FirstTaskFirst
<1> QED
    BY <1>4, <1>5, <1>6, <1>7, <1>8, <1>9, <1>10 DEF IInv

LEMMA Keeps_vPortSVCHandler ==
    ASSUME UrgencyRespected, IInv, vPortSVCHandler
    PROVE  IInv'
<1> USE ContextsAssumption, BoundAssumption DEF Exceptions, Threads, vPortSVCHandler, Starting
<1>1. Runs(Main) /\ Main = current /\ Active = {} /\ Holders \subseteq {Main}
    BY ThreadRuns
<1>2. Holders' = Holders
    BY DEF Holders
<1>3. Active' = Active
    BY DEF Active
<1>4. TypeOK'
    BY DEF IInv, TypeOK
<1>5. PcInv'
    BY DEF IInv, PcInv
<1>6. StartInv'
    BY DEF StartInv
<1>7. MaskInv'
  <2>1. Holders = {}
    BY <1>1 DEF Holders
  <2>2. \A u \in UserIrqs : pc[u] = "off"
    BY <1>1 DEF Active
  <2>3. basepri' = IdleMask'
    BY DEF IdleMask
  <2> QED
    BY <1>2, <2>1, <2>2, <2>3 DEF MaskInv
<1>8. PreemptionInv'
    BY <1>1, <1>3 DEF PreemptionInv
<1>9. NestingOfCurrent'
    BY <1>1 DEF IInv, NestingOfCurrent
<1>10. FirstTaskFirst'
    BY DEF FirstTaskFirst
<1> QED
    BY <1>4, <1>5, <1>6, <1>7, <1>8, <1>9, <1>10 DEF IInv

LEMMA Keeps_Raise ==
    ASSUME UrgencyRespected, IInv, NEW e \in Exceptions, Raise(e)
    PROVE  IInv'
<1> USE ContextsAssumption, BoundAssumption DEF Exceptions, Threads, Raise, Ticking
<1>2. Holders' = Holders
    BY DEF Holders
<1>3. Active' = Active
    BY DEF Active
<1>4. TypeOK'
    BY DEF IInv, TypeOK
<1>5. PcInv'
    BY DEF IInv, PcInv
<1>6. StartInv'
    BY DEF IInv, StartInv
<1>7. MaskInv'
    BY <1>2 DEF IInv, MaskInv, IdleMask
<1>8. PreemptionInv'
    BY <1>2, <1>3 DEF IInv, PreemptionInv
<1>9. NestingOfCurrent'
    BY DEF IInv, NestingOfCurrent
<1>10. FirstTaskFirst'
    BY <1>3 DEF IInv, FirstTaskFirst
<1> QED
    BY <1>4, <1>5, <1>6, <1>7, <1>8, <1>9, <1>10 DEF IInv

LEMMA Keeps_Take ==
    ASSUME UrgencyRespected, IInv, NEW e \in Exceptions, Take(e)
    PROVE  IInv'
<1> USE ContextsAssumption, BoundAssumption DEF Exceptions, Threads, Take
<1>1. Holders = {}
    BY HolderAlone, Masks, Priorities
<1>2. Holders' = Holders
    BY DEF Holders
<1>3. Active' = Active \cup {e}
    BY DEF Active, IInv, TypeOK
<1>4. TypeOK'
    BY DEF IInv, TypeOK
<1>5. PcInv'
    BY DEF IInv, PcInv
<1>6. StartInv'
    BY DEF IInv, StartInv
<1>7. MaskInv'
    BY <1>2 DEF IInv, MaskInv, IdleMask
<1>8. PreemptionInv'
    BY <1>1, <1>2, <1>3, Priorities DEF IInv, PreemptionInv
<1>9. NestingOfCurrent'
    BY DEF IInv, NestingOfCurrent
<1>10. FirstTaskFirst'
    BY <1>3, Masks, Priorities DEF IInv, FirstTaskFirst, StartInv, MaskInv, IdleMask
<1> QED
    BY <1>4, <1>5, <1>6, <1>7, <1>8, <1>9, <1>10 DEF IInv

LEMMA Keeps_TickMask ==
    ASSUME UrgencyRespected, IInv, TickMask
    PROVE  IInv'
<1> USE ContextsAssumption, BoundAssumption DEF Exceptions, Threads, TickMask, Goto
<1>1. Runs(Tick) /\ Tick \in Active /\ Holders = {}
    BY ExceptionRuns DEF Active, Holders
<1>2. Holders' = {Tick}
    BY <1>1 DEF Holders, IInv, TypeOK
<1>3. Active' = Active
    BY DEF Active
<1>4. TypeOK'
    BY DEF IInv, TypeOK
<1>5. PcInv'
    BY DEF IInv, PcInv
<1>6. StartInv'
    BY <1>3 DEF IInv, StartInv
<1>7. MaskInv'
    BY <1>2 DEF IInv, MaskInv, IdleMask
<1>8. PreemptionInv'
    BY <1>2, Priorities DEF IInv, PreemptionInv, Runs, Active
<1>9. NestingOfCurrent'
    BY DEF IInv, NestingOfCurrent
<1>10. FirstTaskFirst'
    BY <1>3 DEF IInv, FirstTaskFirst
<1> QED
    BY <1>4, <1>5, <1>6, <1>7, <1>8, <1>9, <1>10 DEF IInv

LEMMA Keeps_xTaskIncrementTick ==
    ASSUME UrgencyRespected, IInv, xTaskIncrementTick
    PROVE  IInv'
<1> USE ContextsAssumption, BoundAssumption DEF Exceptions, Threads, xTaskIncrementTick, Goto
<1>1. Runs(Tick) /\ Tick \in Active /\ Holders = {Tick} /\ basepri = SyscallMask
    BY HolderAlone DEF Active, Holders
<1>2. Holders' = Holders
    BY DEF Holders
<1>3. Active' = Active
    BY DEF Active
<1>4. TypeOK'
    BY DEF IInv, TypeOK
<1>5. PcInv'
    BY DEF IInv, PcInv
<1>6. StartInv'
    BY <1>1 DEF IInv, StartInv
<1>7. MaskInv'
    BY <1>2 DEF IInv, MaskInv, IdleMask
<1>8. PreemptionInv'
    BY <1>2, <1>3 DEF IInv, PreemptionInv
<1>9. NestingOfCurrent'
    BY DEF IInv, NestingOfCurrent
<1>10. FirstTaskFirst'
    BY <1>3 DEF IInv, FirstTaskFirst
<1> QED
    BY <1>4, <1>5, <1>6, <1>7, <1>8, <1>9, <1>10 DEF IInv

LEMMA Keeps_TickUnmask ==
    ASSUME UrgencyRespected, IInv, TickUnmask
    PROVE  IInv'
<1> USE ContextsAssumption, BoundAssumption DEF Exceptions, Threads, TickUnmask, Goto
<1>1. Runs(Tick) /\ Tick \in Active /\ Holders = {Tick} /\ basepri = SyscallMask
    BY HolderAlone DEF Active, Holders
<1>2. Holders' = {}
    BY <1>1 DEF Holders, IInv, TypeOK
<1>3. Active' = Active \ {Tick}
    BY DEF Active, IInv, TypeOK
<1>4. TypeOK'
    BY DEF IInv, TypeOK
<1>5. PcInv'
    BY DEF IInv, PcInv
<1>6. StartInv'
    BY <1>3 DEF IInv, StartInv
<1>7. MaskInv'
    BY <1>1, <1>2 DEF IInv, MaskInv, IdleMask, FirstTaskFirst
<1>8. PreemptionInv'
    BY <1>2, <1>3 DEF IInv, PreemptionInv
<1>9. NestingOfCurrent'
    BY DEF IInv, NestingOfCurrent
<1>10. FirstTaskFirst'
    BY <1>3 DEF IInv, FirstTaskFirst
<1> QED
    BY <1>4, <1>5, <1>6, <1>7, <1>8, <1>9, <1>10 DEF IInv

LEMMA Keeps_SwitchMask ==
    ASSUME UrgencyRespected, IInv, SwitchMask
    PROVE  IInv'
<1> USE ContextsAssumption, BoundAssumption DEF Exceptions, Threads, SwitchMask, Goto
<1>1. Runs(PendSV) /\ PendSV \in Active /\ Holders = {}
    BY ExceptionRuns DEF Active, Holders
<1>2. Holders' = {PendSV}
    BY <1>1 DEF Holders, IInv, TypeOK
<1>3. Active' = Active
    BY DEF Active
<1>4. TypeOK'
    BY DEF IInv, TypeOK
<1>5. PcInv'
    BY DEF IInv, PcInv
<1>6. StartInv'
    BY <1>3 DEF IInv, StartInv
<1>7. MaskInv'
    BY <1>2 DEF IInv, MaskInv, IdleMask
<1>8. PreemptionInv'
    BY <1>2, Priorities DEF IInv, PreemptionInv, Runs, Active
<1>9. NestingOfCurrent'
    BY DEF IInv, NestingOfCurrent
<1>10. FirstTaskFirst'
    BY <1>3 DEF IInv, FirstTaskFirst
<1> QED
    BY <1>4, <1>5, <1>6, <1>7, <1>8, <1>9, <1>10 DEF IInv

LEMMA Keeps_vTaskSwitchContext ==
    ASSUME UrgencyRespected, IInv, vTaskSwitchContext
    PROVE  IInv'
<1> USE ContextsAssumption, BoundAssumption DEF Exceptions, Threads, vTaskSwitchContext, Goto
<1>1. Runs(PendSV) /\ PendSV \in Active /\ Holders = {PendSV} /\ basepri = SyscallMask
    BY HolderAlone DEF Active, Holders
<1>2. Holders' = Holders
    BY DEF Holders
<1>3. Active' = Active
    BY DEF Active
<1>4. TypeOK'
    BY DEF IInv, TypeOK
<1>5. PcInv'
    BY DEF IInv, PcInv
<1>6. StartInv'
    BY <1>1 DEF IInv, StartInv, FirstTaskFirst
<1>7. MaskInv'
    BY <1>2 DEF IInv, MaskInv, IdleMask
<1>8. PreemptionInv'
    BY <1>2, <1>3 DEF IInv, PreemptionInv
<1>9. NestingOfCurrent'
    BY <1>1 DEF IInv, TypeOK, PcInv, NestingOfCurrent, Holders
<1>10. FirstTaskFirst'
    BY <1>3 DEF IInv, FirstTaskFirst
<1> QED
    BY <1>4, <1>5, <1>6, <1>7, <1>8, <1>9, <1>10 DEF IInv

LEMMA Keeps_SwitchUnmask ==
    ASSUME UrgencyRespected, IInv, SwitchUnmask
    PROVE  IInv'
<1> USE ContextsAssumption, BoundAssumption DEF Exceptions, Threads, SwitchUnmask, Goto
<1>1. Runs(PendSV) /\ PendSV \in Active /\ Holders = {PendSV} /\ basepri = SyscallMask
    BY HolderAlone DEF Active, Holders
<1>2. Holders' = {}
    BY <1>1 DEF Holders, IInv, TypeOK
<1>3. Active' = Active
    BY DEF Active
<1>4. TypeOK'
    BY DEF IInv, TypeOK
<1>5. PcInv'
    BY DEF IInv, PcInv
<1>6. StartInv'
    BY <1>3 DEF IInv, StartInv
<1>7. MaskInv'
    BY <1>1, <1>2 DEF IInv, MaskInv, IdleMask, FirstTaskFirst
<1>8. PreemptionInv'
    BY <1>2, <1>3 DEF IInv, PreemptionInv
<1>9. NestingOfCurrent'
    BY DEF IInv, NestingOfCurrent
<1>10. FirstTaskFirst'
    BY <1>3 DEF IInv, FirstTaskFirst
<1> QED
    BY <1>4, <1>5, <1>6, <1>7, <1>8, <1>9, <1>10 DEF IInv

LEMMA Keeps_LoadContext ==
    ASSUME UrgencyRespected, IInv, LoadContext
    PROVE  IInv'
<1> USE ContextsAssumption, BoundAssumption DEF Exceptions, Threads, LoadContext, Goto
<1>1. Runs(PendSV) /\ PendSV \in Active /\ Holders = {}
    BY ExceptionRuns DEF Active, Holders
<1>2. Holders' = Holders
    BY DEF Holders
<1>3. Active' = Active \ {PendSV}
    BY DEF Active, IInv, TypeOK
<1>4. TypeOK'
    BY DEF IInv, TypeOK
<1>5. PcInv'
    BY DEF IInv, PcInv
<1>6. StartInv'
    BY <1>3 DEF IInv, StartInv
<1>7. MaskInv'
    BY <1>2 DEF IInv, MaskInv, IdleMask
<1>8. PreemptionInv'
    BY <1>2, <1>3 DEF IInv, PreemptionInv
<1>9. NestingOfCurrent'
    BY DEF IInv, NestingOfCurrent
<1>10. FirstTaskFirst'
    BY <1>3 DEF IInv, FirstTaskFirst
<1> QED
    BY <1>4, <1>5, <1>6, <1>7, <1>8, <1>9, <1>10 DEF IInv

LEMMA Keeps_vPortValidateInterruptPriority ==
    ASSUME UrgencyRespected, IInv, NEW u \in UserIrqs, vPortValidateInterruptPriority(u)
    PROVE  IInv'
<1> USE ContextsAssumption, BoundAssumption DEF Exceptions, Threads, vPortValidateInterruptPriority, Goto
<1>1. Runs(u) /\ u \in Active /\ Holders = {}
    BY ExceptionRuns DEF Active, Holders
<1>2. Holders' = Holders
    BY DEF Holders
<1>3. Active' = Active
    BY DEF Active
<1>4. TypeOK'
    BY DEF IInv, TypeOK
<1>5. PcInv'
    BY DEF IInv, PcInv
<1>6. StartInv'
    BY <1>3 DEF IInv, StartInv
<1>7. MaskInv'
    BY <1>2 DEF IInv, MaskInv, IdleMask
<1>8. PreemptionInv'
    BY <1>2, <1>3 DEF IInv, PreemptionInv
<1>9. NestingOfCurrent'
    BY DEF IInv, NestingOfCurrent
<1>10. FirstTaskFirst'
    BY <1>3 DEF IInv, FirstTaskFirst
<1> QED
    BY <1>4, <1>5, <1>6, <1>7, <1>8, <1>9, <1>10 DEF IInv

LEMMA Keeps_SaveMask ==
    ASSUME UrgencyRespected, IInv, NEW u \in UserIrqs, SaveMask(u)
    PROVE  IInv'
<1> USE ContextsAssumption, BoundAssumption DEF Exceptions, Threads, SaveMask, Goto
<1>1. Runs(u) /\ u \in Active /\ Holders = {}
    BY ExceptionRuns DEF Active, Holders
<1>2. Holders' = Holders
    BY DEF Holders
<1>3. Active' = Active
    BY DEF Active
<1>4. TypeOK'
    BY DEF IInv, TypeOK
<1>5. PcInv'
    BY DEF IInv, PcInv
<1>6. StartInv'
    BY <1>3 DEF IInv, StartInv
<1>7. MaskInv'
    BY <1>1, <1>2 DEF IInv, TypeOK, MaskInv, IdleMask
<1>8. PreemptionInv'
    BY <1>2, <1>3 DEF IInv, PreemptionInv
<1>9. NestingOfCurrent'
    BY DEF IInv, NestingOfCurrent
<1>10. FirstTaskFirst'
    BY <1>3 DEF IInv, FirstTaskFirst
<1> QED
    BY <1>4, <1>5, <1>6, <1>7, <1>8, <1>9, <1>10 DEF IInv

LEMMA Keeps_RaiseMask ==
    ASSUME UrgencyRespected, IInv, NEW u \in UserIrqs, RaiseMask(u)
    PROVE  IInv'
<1> USE ContextsAssumption, BoundAssumption DEF Exceptions, Threads, RaiseMask, Goto
<1>1. Runs(u) /\ u \in Active /\ Holders = {}
    BY ExceptionRuns DEF Active, Holders
<1>2. Holders' = {u}
    BY <1>1 DEF Holders, IInv, TypeOK
<1>3. Active' = Active
    BY DEF Active
<1>4. TypeOK'
    BY DEF IInv, TypeOK
<1>5. PcInv'
    BY DEF IInv, PcInv
<1>6. StartInv'
    BY <1>3 DEF IInv, StartInv
<1>7. MaskInv'
    BY <1>2 DEF IInv, MaskInv, IdleMask
<1>8. PreemptionInv'
    BY <1>2, Priorities DEF IInv, PreemptionInv, Runs, Active
<1>9. NestingOfCurrent'
    BY DEF IInv, NestingOfCurrent
<1>10. FirstTaskFirst'
    BY <1>3 DEF IInv, FirstTaskFirst
<1> QED
    BY <1>4, <1>5, <1>6, <1>7, <1>8, <1>9, <1>10 DEF IInv

LEMMA Keeps_FromISR ==
    ASSUME UrgencyRespected, IInv, NEW u \in UserIrqs, FromISR(u)
    PROVE  IInv'
<1> USE ContextsAssumption, BoundAssumption DEF Exceptions, Threads, FromISR, Goto
<1>1. Runs(u) /\ u \in Active /\ Holders = {u} /\ basepri = SyscallMask
    BY HolderAlone DEF Active, Holders
<1>2. Holders' = Holders
    BY DEF Holders
<1>3. Active' = Active
    BY DEF Active
<1>4. TypeOK'
    BY DEF IInv, TypeOK
<1>5. PcInv'
    BY DEF IInv, PcInv
<1>6. StartInv'
    BY <1>1 DEF IInv, StartInv
<1>7. MaskInv'
    BY <1>2 DEF IInv, MaskInv, IdleMask
<1>8. PreemptionInv'
    BY <1>2, <1>3 DEF IInv, PreemptionInv
<1>9. NestingOfCurrent'
    BY DEF IInv, NestingOfCurrent
<1>10. FirstTaskFirst'
    BY <1>3 DEF IInv, FirstTaskFirst
<1> QED
    BY <1>4, <1>5, <1>6, <1>7, <1>8, <1>9, <1>10 DEF IInv

LEMMA Keeps_RestoreMask ==
    ASSUME UrgencyRespected, IInv, NEW u \in UserIrqs, RestoreMask(u)
    PROVE  IInv'
<1> USE ContextsAssumption, BoundAssumption DEF Exceptions, Threads, RestoreMask, Goto
<1>1. Runs(u) /\ u \in Active /\ Holders = {u} /\ basepri = SyscallMask
    BY HolderAlone DEF Active, Holders
<1>2. Holders' = {}
    BY <1>1 DEF Holders, IInv, TypeOK
<1>3. Active' = Active \ {u}
    BY DEF Active, IInv, TypeOK
<1>4. TypeOK'
    BY DEF IInv, TypeOK
<1>5. PcInv'
    BY DEF IInv, PcInv
<1>6. StartInv'
    BY <1>3 DEF IInv, StartInv
<1>7. MaskInv'
    BY <1>2 DEF IInv, MaskInv, IdleMask
<1>8. PreemptionInv'
    BY <1>2, <1>3 DEF IInv, PreemptionInv
<1>9. NestingOfCurrent'
    BY DEF IInv, NestingOfCurrent
<1>10. FirstTaskFirst'
    BY <1>3 DEF IInv, FirstTaskFirst
<1> QED
    BY <1>4, <1>5, <1>6, <1>7, <1>8, <1>9, <1>10 DEF IInv

-----------------------------------------------------------------------------
LEMMA InitIInv == Init => IInv
<1> SUFFICES ASSUME Init PROVE IInv
    OBVIOUS
<1> USE ContextsAssumption, BoundAssumption
<1>1. /\ \A t \in Threads : pc[t] = "run" /\ depth[t] = 0
      /\ \A e \in Exceptions : pc[e] = "off"
    BY DEF Init, Threads, Exceptions
<1>2. Holders = {} /\ Active = {}
    BY <1>1 DEF Holders, Active
<1>3. PcInv
    BY <1>1 DEF PcInv, Exceptions
<1>4. TypeOK
  <2>1. pc \in [Threads \cup Exceptions -> {"run", "off"}]
    BY DEF Init
  <2> QED
    BY <2>1 DEF Init, TypeOK, Threads
<1>5. MaskInv /\ PreemptionInv
    BY <1>1, <1>2 DEF Init, MaskInv, IdleMask, PreemptionInv, Exceptions
<1>6. StartInv /\ NestingOfCurrent /\ FirstTaskFirst
    BY <1>1, <1>2 DEF Init, StartInv, NestingOfCurrent, FirstTaskFirst, Threads
<1> QED
    BY <1>3, <1>4, <1>5, <1>6 DEF IInv

LEMMA NextIInv == ASSUME UrgencyRespected, IInv, [Next]_vars PROVE IInv'
<1>5. ASSUME UNCHANGED vars PROVE IInv'
    BY <1>5 DEF vars, IInv, TypeOK, PcInv, MaskInv, PreemptionInv, StartInv,
       NestingOfCurrent, FirstTaskFirst, Holders, Active, IdleMask
<1>1. ASSUME NEW t \in Threads, ThreadStep(t) PROVE IInv'
    BY <1>1, Keeps_EnterMask, Keeps_EnterCount, Keeps_ExitCount, Keeps_ExitUnmask,
       Keeps_portYIELD, Keeps_UseFPU, Keeps_prvTaskExitError, <1>5 DEF ThreadStep, StopHere
<1>2. ASSUME Start PROVE IInv'
    BY <1>2, Keeps_vTaskStartScheduler, Keeps_xPortStartScheduler,
       Keeps_vPortStartFirstTask, Keeps_vPortSVCHandler DEF Start
<1>3. ASSUME NEW e \in Exceptions, Raise(e) \/ Take(e) PROVE IInv'
    BY <1>3, Keeps_Raise, Keeps_Take
<1>4. ASSUME NEW e \in Exceptions, HandlerStep(e) PROVE IInv'
    BY <1>4, Keeps_TickMask, Keeps_xTaskIncrementTick, Keeps_TickUnmask, Keeps_SwitchMask,
       Keeps_vTaskSwitchContext, Keeps_SwitchUnmask, Keeps_LoadContext,
       Keeps_vPortValidateInterruptPriority, Keeps_SaveMask, Keeps_RaiseMask,
       Keeps_FromISR, Keeps_RestoreMask DEF HandlerStep
<1> QED
    BY <1>1, <1>2, <1>3, <1>4, <1>5 DEF Next

\* The inductive invariant of the port holds in every state, whatever the
\* threads, the kernel and the drivers' interrupts do.
THEOREM Invariance ==
    ASSUME UrgencyRespected
    PROVE  Spec => []IInv
<1>1. IInv /\ [Next]_vars => IInv'
    BY NextIInv
<1> QED
    BY <1>1, InitIInv, PTL DEF Spec

-----------------------------------------------------------------------------
\* Type correctness of the port's variables, the nesting counter included.
THEOREM PortTypes ==
    ASSUME UrgencyRespected
    PROVE  Spec => []TypeOK
<1>1. IInv => TypeOK
    BY DEF IInv
<1> QED
    BY <1>1, Invariance, PTL

\* The data of the kernel is reached by one context at a time, for any tasks
\* and any interrupts that nest: the critical sections of port_cmsis.c:262-287
\* and the masks of the handlers exclude each other.
THEOREM Exclusion ==
    ASSUME UrgencyRespected
    PROVE  Spec => []KernelExclusion
<1>1. IInv => KernelExclusion
    BY ContextsAssumption DEF IInv, MaskInv, PcInv, KernelExclusion, InKernel, Holders
<1> QED
    BY <1>1, Invariance, PTL

\* The single uxCriticalNesting (port_cmsis.c:74) is right for every task that
\* the context switch brings back.
THEOREM OneCounterServesAll ==
    ASSUME UrgencyRespected
    PROVE  Spec => []NestingOfCurrent
<1>1. IInv => NestingOfCurrent
    BY DEF IInv
<1> QED
    BY <1>1, Invariance, PTL

\* The tick handler and the context switch find the mask clear, so that
\* writing 0 to BASEPRI restores it (port_cmsis_systick.c:60-63, port.c:128).
THEOREM ClearOnEntry ==
    ASSUME UrgencyRespected
    PROVE  Spec => []MaskWasClear
<1>1. IInv => MaskWasClear
  <2> SUFFICES ASSUME IInv, NEW e \in {Tick, PendSV}, Runs(e), pc[e] = "entry"
               PROVE  basepri = 0
      BY DEF MaskWasClear
  <2>1. e \in Exceptions /\ e \in Active /\ e \notin Holders
      BY ContextsAssumption DEF Exceptions, Active, Holders, IInv, PcInv, Threads
  <2>2. Holders = {}
      BY <2>1, ExceptionRuns
  <2>3. phase = "running"
      BY <2>1 DEF IInv, FirstTaskFirst
  <2> QED
      BY <2>2, <2>3 DEF IInv, MaskInv, IdleMask
<1> QED
    BY <1>1, Invariance, PTL

\* Neither the tick nor a context switch happens before the first task runs,
\* although user interrupts may (port.c:64-68, port_cmsis.c:224-226).
THEOREM TasksFirst ==
    ASSUME UrgencyRespected
    PROVE  Spec => []FirstTaskFirst
<1>1. IInv => FirstTaskFirst
    BY DEF IInv
<1> QED
    BY <1>1, Invariance, PTL

\* Outside its critical sections a task runs with every interrupt unmasked.
THEOREM NeverLeftMasked ==
    ASSUME UrgencyRespected
    PROVE  Spec => []MaskReopened
<1>1. IInv => MaskReopened
  <2> SUFFICES ASSUME IInv, phase = "running", Active = {}, uxCriticalNesting = 0,
                      pc[current] = "run"
               PROVE  basepri = 0
      BY DEF MaskReopened
  <2>1. \A t \in Threads : depth[t] = 0 /\ pc[t] = "run"
      BY DEF IInv, NestingOfCurrent
  <2>2. \A e \in Exceptions : pc[e] = "off"
      BY DEF Active
  <2>3. Holders = {}
      BY <2>1, <2>2 DEF Holders
  <2> QED
      BY <2>3 DEF IInv, MaskInv, IdleMask
<1> QED
    BY <1>1, Invariance, PTL

-----------------------------------------------------------------------------
(* The contexts of the tasks.                                              *)

LEMMA Pair ==
    ASSUME NEW a, NEW b
    PROVE  <<a>> \o <<b>> = <<a, b>>
<1> DEFINE S == {a, b}
<1>1. <<a>> \in Seq(S) /\ <<b>> \in Seq(S)
    OBVIOUS
<1>2. /\ <<a>> \o <<b>> \in Seq(S) /\ Len(<<a>> \o <<b>>) = 2
      /\ (<<a>> \o <<b>>)[1] = a /\ (<<a>> \o <<b>>)[2] = b
    BY <1>1
<1>3. <<a, b>> \in Seq(S) /\ Len(<<a, b>>) = 2 /\ <<a, b>>[1] = a /\ <<a, b>>[2] = b
    OBVIOUS
<1>4. \A i \in 1..2 : (<<a>> \o <<b>>)[i] = <<a, b>>[i]
    BY <1>2, <1>3
<1> QED
    BY <1>2, <1>3, <1>4, SeqEqual

LEMMA Triple ==
    ASSUME NEW a, NEW b, NEW c
    PROVE  <<a>> \o <<b>> \o <<c>> = <<a, b, c>>
<1> DEFINE S == {a, b, c}
           ab == <<a, b>>
           cs == <<c>>
<1>1. <<a>> \o <<b>> = ab
    BY Pair
<1>2. /\ ab \in Seq(S) /\ Len(ab) = 2 /\ ab[1] = a /\ ab[2] = b
      /\ cs \in Seq(S) /\ Len(cs) = 1 /\ cs[1] = c
    OBVIOUS
<1>3. /\ <<a, b, c>> \in Seq(S) /\ Len(<<a, b, c>>) = 3
      /\ <<a, b, c>>[1] = a /\ <<a, b, c>>[2] = b /\ <<a, b, c>>[3] = c
    OBVIOUS
<1> HIDE DEF ab, cs, S
<1>4. /\ ab \o cs \in Seq(S) /\ Len(ab \o cs) = 3
      /\ (ab \o cs)[1] = a /\ (ab \o cs)[2] = b /\ (ab \o cs)[3] = c
  <2>1. /\ ab \o cs \in Seq(S) /\ Len(ab \o cs) = Len(ab) + Len(cs)
        /\ \A i \in 1..Len(ab) + Len(cs) :
              (ab \o cs)[i] = IF i <= Len(ab) THEN ab[i] ELSE cs[i - Len(ab)]
    BY <1>2, ConcatProperties, Zenon
  <2>2. Len(ab) + Len(cs) = 3
    BY <1>2
  <2>3. 1 \in 1..3 /\ 2 \in 1..3 /\ 3 \in 1..3 /\ 3 - 2 = 1
    OBVIOUS
  <2> QED
    BY <1>2, <2>1, <2>2, <2>3
<1>5. \A i \in 1..3 : (ab \o cs)[i] = <<a, b, c>>[i]
    BY <1>3, <1>4
<1>6. ab \o cs = <<a, b, c>>
    BY <1>3, <1>4, <1>5, SeqEqual
<1> QED
    BY <1>1, <1>6 DEF cs

\* What each access to a stack finds, and what it leaves.
LEMMA StackWords ==
    /\ \A a : <<a>> \o <<>> = <<a>> /\ Head(<<a>>) = a /\ Tail(<<a>>) = <<>>
    /\ \A a, b : <<a>> \o <<>> \o <<b>> = <<a, b>>
    /\ \A a, b, c : <<a>> \o <<b>> \o <<c>> = <<a, b, c>>
    /\ \A a, b : SubSeq(<<a, b>>, 3, Len(<<a, b>>)) = <<>>
    /\ \A a, b, c : SubSeq(<<a, b, c>>, 4, Len(<<a, b, c>>)) = <<>>
<1>1. \A a : <<a>> \o <<>> = <<a>> /\ Head(<<a>>) = a /\ Tail(<<a>>) = <<>>
    OBVIOUS
<1>2. \A a, b : <<a>> \o <<>> \o <<b>> = <<a, b>>
    BY <1>1, Pair
<1>3. \A a, b : SubSeq(<<a, b>>, 3, Len(<<a, b>>)) = <<>>
    OBVIOUS
<1>4. \A a, b, c : SubSeq(<<a, b, c>>, 4, Len(<<a, b, c>>)) = <<>>
    OBVIOUS
<1> QED
    BY <1>1, <1>2, <1>3, <1>4, Triple

\* Nothing else is active when PendSV, the least urgent exception, runs.
LEMMA SwitchRuns ==
    ASSUME UrgencyRespected, IInv, Runs(PendSV), PendSV \in Active
    PROVE  Active = {PendSV} /\ phase = "running" /\ current \in Tasks
<1> USE ContextsAssumption
<1>1. KernelMask = 224
    BY DEF KernelMask, Register, Shift, configKERNEL_INTERRUPT_PRIORITY
<1>2. \A p \in 0..15 : Register(p) \in Nat /\ Register(p) <= 224
    BY DEF Register, Shift
<1>3. \A e \in Exceptions : Priority(e) \in Nat /\ Priority(e) <= Priority(PendSV)
    BY <1>1, <1>2, Priorities, PriorityAssumption DEF Exceptions, Priority
<1>4. \A e \in Active : Priority(PendSV) <= Priority(e)
    BY DEF Runs, Threads
<1>5. \A e \in Active : e = PendSV
    BY <1>3, <1>4 DEF IInv, PreemptionInv, Active
<1> QED
    BY <1>5 DEF IInv, FirstTaskFirst, StartInv, TypeOK, Threads

\* A step that leaves the registers, the stacks and the active exceptions alone.
LEMMA ContextUnseen ==
    ASSUME ContextInv, UNCHANGED <<regs, FPCA, lr, stacks, users, current, Active>>,
           phase' = "running" <=> phase = "running",
           pc'[PendSV] \in Switched <=> pc[PendSV] \in Switched
    PROVE  ContextInv'
BY DEF ContextInv, Saved, ExcReturn

LEMMA Context_Thread ==
    ASSUME IInv, ContextInv, NEW t \in Threads, ThreadStep(t)
    PROVE  ContextInv'
<1> USE ContextsAssumption DEF Goto
<1>1. pc' = pc \/ \E to \in {"run", "enter", "exit", "exited"} : pc' = [pc EXCEPT ![t] = to]
    BY DEF ThreadStep, EnterMask, EnterCount, ExitCount, ExitUnmask, portYIELD, UseFPU,
       prvTaskExitError, StopHere, vars
<1>2. UNCHANGED <<current, phase>>
    BY DEF ThreadStep, EnterMask, EnterCount, ExitCount, ExitUnmask, portYIELD, UseFPU,
       prvTaskExitError, StopHere, vars
<1>3. \A e \in Exceptions : pc'[e] = pc[e]
    BY <1>1 DEF IInv, TypeOK, Threads, Exceptions
<1>4. Active' = Active /\ pc'[PendSV] = pc[PendSV]
    BY <1>3 DEF Active, Exceptions
<1>5. CASE ~UseFPU(t)
  <2>1. UNCHANGED context
    BY <1>5 DEF ThreadStep, EnterMask, EnterCount, ExitCount, ExitUnmask, portYIELD,
       prvTaskExitError, StopHere, vars
  <2> QED
    BY <2>1, <1>2, <1>4, ContextUnseen DEF context
<1>6. CASE UseFPU(t)
  <2> USE <1>6 DEF UseFPU
  <2>1. t = current /\ Active = {} /\ t \in Tasks /\ pc[PendSV] \notin Switched
    BY DEF Runs, Active, Switched, Exceptions, Threads
  <2>2. phase = "running"
    BY <2>1 DEF IInv, StartInv
  <2>3. /\ DOMAIN regs' = {"frame", "core", "fpu"} /\ regs'.frame = regs.frame
        /\ regs'.core = regs.core /\ regs'.fpu = t
    BY DEF ContextInv
  <2>4. FPCA' /\ users' = users \cup {t} /\ stacks' = stacks
    OBVIOUS
  <2>5. \A s \in Tasks : s # current => Saved(s)'
    BY <2>1, <2>4 DEF ContextInv, Saved
  <2> QED
    BY <1>2, <1>4, <2>1, <2>2, <2>3, <2>4, <2>5 DEF ContextInv
<1> QED
    BY <1>5, <1>6

\* The context of a task that is loaded is the one that was saved, or that
\* pxPortInitialiseStack has written.
LEMMA Restored ==
    ASSUME ContextInv, NEW t \in Tasks, Saved(t), RestoreContext(t)
    PROVE  /\ DOMAIN regs' = {"frame", "core", "fpu"} /\ DOMAIN stacks' = Tasks
           /\ regs'.frame = t /\ regs'.core = t /\ (t \in users => regs'.fpu = t)
           /\ (FPCA' <=> t \in users) /\ stacks'[t] = <<>> /\ users' = users
           /\ \A s \in Tasks : s # t => stacks'[s] = stacks[s]
<1> USE DEF RestoreContext, UsesFPU
<1>1. DOMAIN stacks = Tasks
    BY DEF ContextInv
<1>2. CASE t \in users
  <2>1. stacks[t] = << <<t, "extended">>, t, t >>
    BY <1>2 DEF Saved
  <2>2. SubSeq(stacks[t], 4, Len(stacks[t])) = <<>>
    BY <2>1, StackWords
  <2>3. stacks[t][1][1] = t /\ stacks[t][1][2] = "extended"
        /\ stacks[t][2] = t /\ stacks[t][3] = t
    BY <2>1
  <2>4. stacks' = [stacks EXCEPT ![t] = SubSeq(stacks[t], 4, Len(stacks[t]))]
    BY <2>3
  <2>5. regs' = [core |-> t, fpu |-> t, frame |-> t]
    BY <2>3
  <2>6. FPCA' /\ users' = users
    BY <2>3
  <2> QED
    BY <1>1, <1>2, <2>2, <2>4, <2>5, <2>6
<1>3. CASE t \notin users
  <2>1. stacks[t] = << <<t, "basic">>, t >>
    BY <1>3 DEF Saved, pxPortInitialiseStack
  <2>2. SubSeq(stacks[t], 3, Len(stacks[t])) = <<>>
    BY <2>1, StackWords
  <2>3. stacks[t][1][1] = t /\ stacks[t][1][2] = "basic" /\ stacks[t][2] = t
    BY <2>1
  <2>4. stacks' = [stacks EXCEPT ![t] = SubSeq(stacks[t], 3, Len(stacks[t]))]
    BY <2>3
  <2>5. regs' = [core |-> t, fpu |-> regs.fpu, frame |-> t]
    BY <2>3
  <2>6. ~FPCA' /\ users' = users
    BY <2>3
  <2> QED
    BY <1>1, <1>3, <2>2, <2>4, <2>5, <2>6
<1> QED
    BY <1>2, <1>3

LEMMA Context_Start ==
    ASSUME IInv, ContextInv, Start
    PROVE  ContextInv'
<1> USE ContextsAssumption DEF Starting
<1>1. ASSUME vTaskStartScheduler \/ xPortStartScheduler \/ vPortStartFirstTask
      PROVE  ContextInv'
    BY <1>1, ContextUnseen DEF vTaskStartScheduler, xPortStartScheduler, vPortStartFirstTask,
       Active, context
<1>2. ASSUME vPortSVCHandler PROVE ContextInv'
  <2> USE <1>2 DEF vPortSVCHandler
  <2>1. current = Main /\ Active = {} /\ current' \in Tasks /\ current' # Main
    BY DEF Runs, Threads
  <2>2. \A t \in Tasks : Saved(t)
    BY <2>1 DEF ContextInv
  <2>3. RestoreContext(current')
    OBVIOUS
  <2>4. /\ DOMAIN regs' = {"frame", "core", "fpu"} /\ DOMAIN stacks' = Tasks
        /\ regs'.frame = current' /\ regs'.core = current'
        /\ (current' \in users => regs'.fpu = current')
        /\ (FPCA' <=> current' \in users) /\ stacks'[current'] = <<>> /\ users' = users
        /\ \A s \in Tasks : s # current' => stacks'[s] = stacks[s]
    BY <2>1, <2>2, <2>3, Restored
  <2>5. Active' = {} /\ pc'[PendSV] \notin Switched
    BY <2>1 DEF Active, Switched, Exceptions
  <2>6. \A t \in Tasks : t # current' => Saved(t)'
    BY <2>2, <2>4 DEF Saved
  <2> QED
    BY <2>4, <2>5, <2>6 DEF ContextInv
<1> QED
    BY <1>1, <1>2 DEF Start

LEMMA Context_Take ==
    ASSUME UrgencyRespected, IInv, ContextInv, NEW e \in Exceptions, Take(e)
    PROVE  ContextInv'
<1> USE ContextsAssumption DEF Take
<1>1. UNCHANGED <<current, phase>> /\ Active' = Active \cup {e}
    BY DEF Active, IInv, TypeOK
<1>2. pc'[PendSV] \in Switched <=> pc[PendSV] \in Switched
    BY DEF Switched, IInv, TypeOK, Exceptions
<1>3. CASE Active # {}
  <2>1. UNCHANGED context
    BY <1>3 DEF EnterException, OnTask
  <2> QED
    BY <1>1, <1>2, <1>3, <2>1 DEF ContextInv, Saved, ExcReturn, context
<1>4. CASE Active = {}
  <2>1. pc[PendSV] \notin Switched
    BY <1>4 DEF Active, Switched, Exceptions
  <2>2. CASE current = Main
    <3>1. UNCHANGED context /\ phase # "running"
      BY <2>2 DEF EnterException, OnTask, IInv, StartInv
    <3> QED
      BY <1>1, <1>2, <3>1 DEF ContextInv, Saved, context
  <2>3. CASE current # Main
    <3>1. phase = "running" /\ current \in Tasks
      BY <2>3 DEF IInv, StartInv, TypeOK, Threads
    <3>2. /\ regs.frame = current /\ stacks[current] = <<>>
          /\ (FPCA <=> current \in users) /\ regs.core = current
          /\ (current \in users => regs.fpu = current)
      BY <1>4, <2>1, <3>1 DEF ContextInv
    <3>3. Push(e)
      BY <1>4, <2>3 DEF EnterException, OnTask
    <3>4. stacks' = [stacks EXCEPT ![current] = <<current>>]
      BY <3>2, <3>3, StackWords DEF Push
    <3>5. lr' = ExcReturn(current) /\ users' = users
      BY <3>2, <3>3 DEF Push, ExcReturn
    <3>6. /\ DOMAIN regs' = {"frame", "core", "fpu"}
          /\ regs'.core = regs.core /\ regs'.fpu = regs.fpu
      BY <3>3 DEF Push, ContextInv
    <3>7. DOMAIN stacks' = Tasks /\ stacks'[current] = <<current>>
      BY <3>1, <3>4 DEF ContextInv
    <3>8. \A t \in Tasks : t # current => Saved(t)'
      BY <3>4, <3>5 DEF ContextInv, Saved
    <3> QED
      BY <1>1, <1>2, <2>1, <3>2, <3>5, <3>6, <3>7, <3>8 DEF ContextInv, ExcReturn
  <2> QED
    BY <2>2, <2>3
<1> QED
    BY <1>3, <1>4

\* The last step of a handler but PendSV's.
LEMMA Context_Leave ==
    ASSUME UrgencyRespected, IInv, ContextInv, NEW e \in Exceptions, e # PendSV,
           (e = Tick /\ TickUnmask) \/ (e \in UserIrqs /\ RestoreMask(e))
    PROVE  ContextInv'
<1> USE ContextsAssumption
<1>1. UNCHANGED <<current, phase>> /\ LeaveException(e) /\ e \in Active
    BY DEF TickUnmask, RestoreMask, Goto, Active
<1>2. pc' = [pc EXCEPT ![e] = "off"]
    BY DEF TickUnmask, RestoreMask, Goto
<1>3. Active' = Active \ {e} /\ pc'[PendSV] = pc[PendSV]
    BY <1>2 DEF Active, IInv, TypeOK, Exceptions
<1>4. CASE Active # {e}
  <2>1. UNCHANGED context /\ Active' # {}
    BY <1>1, <1>3, <1>4 DEF LeaveException, OnTask
  <2> QED
    BY <1>1, <1>3, <2>1 DEF ContextInv, Saved, ExcReturn, context
<1>5. CASE Active = {e}
  <2>1. pc[PendSV] \notin Switched
    BY <1>5 DEF Active, Switched, Exceptions
  <2>2. CASE current = Main
    <3>1. UNCHANGED context /\ phase # "running"
      BY <1>1, <2>2 DEF LeaveException, OnTask, IInv, StartInv
    <3> QED
      BY <1>1, <1>3, <3>1 DEF ContextInv, Saved, context
  <2>3. CASE current # Main
    <3>1. phase = "running" /\ current \in Tasks
      BY <2>3 DEF IInv, StartInv, TypeOK, Threads
    <3>2. /\ stacks[current] = <<current>> /\ lr = ExcReturn(current)
          /\ regs.core = current /\ (current \in users => regs.fpu = current)
      BY <1>5, <2>1, <3>1 DEF ContextInv
    <3>3. Pop
      BY <1>1, <1>5, <2>3 DEF LeaveException, OnTask
    <3>4. stacks' = [stacks EXCEPT ![current] = <<>>]
      BY <3>2, <3>3, StackWords DEF Pop
    <3>5. (FPCA' <=> current \in users) /\ users' = users
      BY <3>2, <3>3 DEF Pop, ExcReturn
    <3>6. /\ DOMAIN regs' = {"frame", "core", "fpu"} /\ regs'.frame = current
          /\ regs'.core = regs.core /\ regs'.fpu = regs.fpu
      BY <3>2, <3>3, StackWords DEF Pop, ContextInv
    <3>7. DOMAIN stacks' = Tasks /\ stacks'[current] = <<>>
      BY <3>1, <3>4 DEF ContextInv
    <3>8. \A t \in Tasks : t # current => Saved(t)'
      BY <3>4, <3>5 DEF ContextInv, Saved
    <3> QED
      BY <1>1, <1>3, <1>5, <2>1, <3>2, <3>5, <3>6, <3>7, <3>8 DEF ContextInv
  <2> QED
    BY <2>2, <2>3
<1> QED
    BY <1>4, <1>5

LEMMA Context_Handler ==
    ASSUME IInv, ContextInv, NEW e \in Exceptions,
           \/ Raise(e)
           \/ e = Tick /\ (TickMask \/ xTaskIncrementTick)
           \/ /\ e \in UserIrqs
              /\ \/ vPortValidateInterruptPriority(e) \/ SaveMask(e) \/ RaiseMask(e)
                 \/ FromISR(e)
    PROVE  ContextInv'
<1> USE ContextsAssumption
        DEF Raise, TickMask, xTaskIncrementTick, vPortValidateInterruptPriority, SaveMask,
            RaiseMask, FromISR, Goto
<1>1. UNCHANGED <<context, current, phase>>
    OBVIOUS
<1>2. Active' = Active
    BY DEF Active, IInv, TypeOK
<1>3. pc'[PendSV] = pc[PendSV]
    BY DEF IInv, TypeOK, Exceptions
<1> QED
    BY <1>1, <1>2, <1>3, ContextUnseen DEF context

LEMMA Context_Switch ==
    ASSUME UrgencyRespected, IInv, ContextInv,
           SwitchMask \/ vTaskSwitchContext \/ SwitchUnmask \/ LoadContext
    PROVE  ContextInv'
<1> USE ContextsAssumption DEF Goto
<1>1. PendSV \in Active /\ Runs(PendSV)
    BY DEF SwitchMask, vTaskSwitchContext, SwitchUnmask, LoadContext, Active, Exceptions
<1>2. Active = {PendSV} /\ phase = "running" /\ current \in Tasks
    BY <1>1, SwitchRuns
<1>3. ASSUME SwitchMask PROVE ContextInv'
  <2> USE <1>3 DEF SwitchMask
  <2>1. /\ pc[PendSV] \notin Switched /\ pc'[PendSV] \in Switched /\ Active' = Active
        /\ UNCHANGED <<current, phase>>
    BY DEF Active, Switched, IInv, TypeOK, Exceptions
  <2>2. /\ stacks[current] = <<current>> /\ lr = ExcReturn(current)
        /\ regs.core = current /\ (current \in users => regs.fpu = current)
    BY <1>2, <2>1 DEF ContextInv
  <2>3. UNCHANGED <<regs, FPCA, lr, users>>
    BY DEF SaveContext
  <2>4. stacks' = [stacks EXCEPT ![current] =
                      IF current \in users THEN << <<current, "extended">>, current, current >>
                                           ELSE << <<current, "basic">>, current >>]
    <3>1. CASE current \in users
      <4>1. lr = "extended"
        BY <2>2, <3>1 DEF ExcReturn
      <4>2. stacks' = [stacks EXCEPT ![current] =
                          << <<current, "extended">> >> \o <<current>> \o <<current>>]
        BY <2>2, <3>1, <4>1 DEF SaveContext, UsesFPU
      <4>3. << <<current, "extended">> >> \o <<current>> \o <<current>>
              = << <<current, "extended">>, current, current >>
        BY StackWords
      <4> QED
        BY <3>1, <4>2, <4>3
    <3>2. CASE current \notin users
      <4>1. lr = "basic"
        BY <2>2, <3>2 DEF ExcReturn
      <4> QED
        BY <2>2, <3>2, <4>1, StackWords DEF SaveContext, UsesFPU
    <3> QED
      BY <3>1, <3>2
  <2>5. DOMAIN stacks' = Tasks
    BY <2>4 DEF ContextInv
  <2>6. \A t \in Tasks : Saved(t)'
    BY <1>2, <2>3, <2>4 DEF ContextInv, Saved, pxPortInitialiseStack
  <2> QED
    BY <1>2, <2>1, <2>3, <2>5, <2>6 DEF ContextInv
<1>4. ASSUME vTaskSwitchContext \/ SwitchUnmask PROVE ContextInv'
  <2>1. /\ pc[PendSV] \in Switched /\ pc'[PendSV] \in Switched /\ Active' = Active
        /\ UNCHANGED <<context, phase>>
    BY <1>4 DEF vTaskSwitchContext, SwitchUnmask, Active, Switched, IInv, TypeOK, Exceptions
  <2> QED
    BY <1>2, <2>1 DEF ContextInv, Saved, context
<1>5. ASSUME LoadContext PROVE ContextInv'
  <2> USE <1>5 DEF LoadContext
  <2>1. pc[PendSV] \in Switched /\ pc'[PendSV] \notin Switched /\ Active' = {}
    BY <1>2 DEF Active, Switched, IInv, TypeOK, Exceptions
  <2>2. Saved(current) /\ RestoreContext(current)
    BY <1>2, <2>1 DEF ContextInv
  <2>3. /\ DOMAIN regs' = {"frame", "core", "fpu"} /\ DOMAIN stacks' = Tasks
        /\ regs'.frame = current /\ regs'.core = current
        /\ (current \in users => regs'.fpu = current)
        /\ (FPCA' <=> current \in users) /\ stacks'[current] = <<>> /\ users' = users
        /\ \A s \in Tasks : s # current => stacks'[s] = stacks[s]
    BY <1>2, <2>2, Restored
  <2>4. \A t \in Tasks : t # current => Saved(t)'
    BY <2>1, <2>3 DEF ContextInv, Saved
  <2> QED
    BY <2>1, <2>3, <2>4 DEF ContextInv
<1> QED
    BY <1>3, <1>4, <1>5

LEMMA NextContextInv ==
    ASSUME UrgencyRespected, IInv, ContextInv, [Next]_vars
    PROVE  ContextInv'
<1>1. ASSUME UNCHANGED vars PROVE ContextInv'
    BY <1>1, ContextUnseen DEF vars, context, Active
<1>2. ASSUME NEW e \in Exceptions, HandlerStep(e) PROVE ContextInv'
  <2>1. CASE e = PendSV
    BY <1>2, <2>1, Context_Switch, ContextsAssumption DEF HandlerStep
  <2>2. CASE e = Tick
    <3>1. Tick # PendSV /\ Tick \notin UserIrqs
      BY ContextsAssumption
    <3>2. TickMask \/ xTaskIncrementTick \/ TickUnmask
      BY <1>2, <2>2, <3>1 DEF HandlerStep
    <3>3. CASE TickUnmask
      BY <2>2, <3>1, <3>3, Context_Leave
    <3>4. CASE TickMask \/ xTaskIncrementTick
      BY <2>2, <3>4, Context_Handler
    <3> QED
      BY <3>2, <3>3, <3>4
  <2>3. CASE e \in UserIrqs
    BY <1>2, <2>3, Context_Leave, Context_Handler, ContextsAssumption DEF HandlerStep
  <2> QED
    BY <2>1, <2>2, <2>3 DEF Exceptions
<1> QED
    BY <1>1, <1>2, Context_Thread, Context_Start, Context_Take, Context_Handler DEF Next

\* A task goes on with its own registers, the FPU's too once it has used them, after
\* any switches and any nest of interrupts: what the exception entry and PendSV save,
\* with or without the FPU as EXC_RETURN says, is what they load (port.c:57-160).
THEOREM ContextRestored ==
    ASSUME UrgencyRespected
    PROVE  Spec => []ContextOfCurrent
<1>1. Init => ContextInv
    BY ContextsAssumption DEF Init, ContextInv, Saved
<1>2. IInv /\ ContextInv /\ [Next]_vars => ContextInv'
    BY NextContextInv
<1>3. IInv /\ ContextInv => ContextOfCurrent
    BY ContextsAssumption DEF ContextInv, ContextOfCurrent, Active, Switched, Exceptions
<1> QED
    BY <1>1, <1>2, <1>3, Invariance, PTL DEF Spec
=============================================================================
