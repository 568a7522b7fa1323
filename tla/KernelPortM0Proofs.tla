--------------------------- MODULE KernelPortM0Proofs ---------------------------
(***************************************************************************)
(* Proofs about KernelPortM0, for any tasks, driver interrupts and nesting *)
(* bound, any priorities of the interrupts, and both kinds of critical     *)
(* section: PRIMASK, and the region of the SoftDevice that lets PendSV     *)
(* through.                                                                *)
(***************************************************************************)
EXTENDS KernelPortM0, TLAPS

LEMMA Contexts ==
    /\ Threads \cap Exceptions = {} /\ PendSV \notin Irqs
    /\ Exceptions = Irqs \cup {PendSV} /\ Threads = Tasks \cup {Main} /\ Main \notin Tasks
BY ContextsAssumption DEF Threads, Exceptions, Irqs

LEMMA Priorities ==
    \A e \in Exceptions : Priority(e) \in 0..3 /\ Priority(PendSV) = 3
BY ContextsAssumption, PriorityAssumption DEF Priority, Exceptions, Irqs

-----------------------------------------------------------------------------
(* Who can hold the mask when a context runs.                              *)

\* A thread holds the mask only while no exception is active.
LEMMA ThreadHolds ==
    ASSUME IInv, NEW t \in Threads, t \in Holders
    PROVE  Active = {} /\ Holders = {t} /\ t = current
BY Contexts DEF IInv, MaskInv, PreemptionInv, NestingInv, Active

LEMMA ThreadRuns ==
    ASSUME IInv, NEW t \in Threads, Runs(t)
    PROVE  /\ t = current /\ Active = {} /\ Holders \subseteq {t}
           /\ PendSV \in pend => masked /\ ~SOFTDEVICE_PRESENT
<1>1. t = current /\ Active = {}
    BY DEF Runs
<1>2. Holders \subseteq Threads
    BY <1>1 DEF Holders, Active
<1>3. Holders \subseteq {t}
    BY <1>1, <1>2 DEF IInv, NestingInv
<1>4. pc[PendSV] = "off" /\ PendSV \in Exceptions
    BY <1>1, Contexts DEF Active
<1>5. PendSV \in pend => masked /\ ~SOFTDEVICE_PRESENT
    BY <1>1, <1>4 DEF Runs, Deliverable
<1> QED
    BY <1>1, <1>3, <1>5

LEMMA ExceptionRuns ==
    ASSUME IInv, NEW e \in Exceptions, Runs(e), e \in Active, e \notin Holders
    PROVE  Holders = {}
<1> SUFFICES ASSUME NEW h \in Holders PROVE FALSE
    OBVIOUS
<1>1. h \in Exceptions /\ Priority(h) < Priority(e)
    BY DEF IInv, PreemptionInv
<1>2. h \in Active
    BY <1>1, Contexts DEF Holders, Active
<1>3. Priority(e) <= Priority(h)
    BY <1>2, Contexts DEF Runs
<1> QED
    BY <1>1, <1>3, Priorities

\* PendSV is served when no other exception is.
LEMMA SwitchRuns ==
    ASSUME IInv, Runs(PendSV), PendSV \in Active
    PROVE  Active = {PendSV}
<1>1. \A a \in Active : a # PendSV => Priority(a) < Priority(PendSV)
  <2> SUFFICES ASSUME NEW a \in Active, a # PendSV PROVE Priority(a) < Priority(PendSV)
      OBVIOUS
  <2>1. a \in Exceptions /\ PendSV \in Exceptions
      BY DEF Active
  <2>2. Priority(a) # Priority(PendSV) /\ Priority(a) \in 0..3 /\ Priority(PendSV) = 3
      BY <2>1, Priorities DEF IInv, PreemptionInv
  <2> QED
      BY <2>2
<1>2. \A a \in Active : Priority(PendSV) <= Priority(a)
    BY Contexts DEF Runs
<1>3. \A a \in Active : Priority(a) \in 0..3
    BY Priorities DEF Active
<1>4. Priority(PendSV) = 3
    BY Priorities, Contexts
<1> QED
    BY <1>1, <1>2, <1>3, <1>4

\* An exception is taken when nobody holds the mask, PendSV when no other is active.
LEMMA TakenFree ==
    ASSUME IInv, NEW e \in Exceptions, Deliverable(e)
    PROVE  Holders = {} /\ (masked => Active = {} /\ e = PendSV)
<1>1. masked => Active = {}
  <2> SUFFICES ASSUME masked, NEW a \in Active PROVE FALSE
      OBVIOUS
  <2>1. e = PendSV /\ Priority(e) < Priority(a) /\ a \in Exceptions
      BY DEF Deliverable, Active
  <2> QED
      BY <2>1, Priorities
<1>2. masked => Holders \cap Threads = {}
    BY DEF Deliverable, IInv, NestingInv
<1>3. masked => Holders = {}
    BY <1>1, <1>2 DEF Holders, Active
<1>4. ~masked => Holders = {}
    BY DEF IInv, MaskInv
<1> QED
    BY <1>1, <1>3, <1>4 DEF Deliverable

-----------------------------------------------------------------------------
(* Every step preserves the invariant.                                     *)

LEMMA Keeps_EnterMask ==
    ASSUME IInv, NEW t \in Threads, EnterMask(t),
           t = Main => phase = "main"
    PROVE  IInv'
<1> USE Contexts DEF EnterMask, Goto, build
<1>1. /\ Runs(t) /\ t = current /\ Active = {} /\ Holders \subseteq {t}
      /\ (PendSV \in pend => masked /\ ~SOFTDEVICE_PRESENT)
      /\ phase = IF t = Main THEN "main" ELSE "running"
    BY ThreadRuns DEF IInv, TypeOK, PcInv, MaskInv, StartInv, Holders, Active
<1>2. Holders' = Holders \cup {t}
    BY <1>1 DEF Holders, IInv, TypeOK, NestingInv
<1>3. Active' = Active
    BY <1>1 DEF Active, IInv, TypeOK
<1>4. TypeOK'
    BY <1>1, <1>2, <1>3 DEF IInv, TypeOK, NestingInv
<1>5. PcInv'
    BY <1>1, <1>2, <1>3 DEF IInv, PcInv, StartInv, NestingInv
<1>6. StartInv'
    BY <1>1, <1>2, <1>3 DEF IInv, StartInv, PcInv, NestingInv
<1>7. MaskInv'
    BY <1>1, <1>2, <1>3 DEF IInv, MaskInv, PcInv, IdleMask, StartInv, NestingInv
<1>8. PreemptionInv'
    BY <1>1, <1>2, <1>3 DEF IInv, PreemptionInv, MaskInv
<1>9. NestingInv'
    BY <1>1, <1>2, <1>3 DEF IInv, NestingInv, TypeOK, StartInv, PcInv
<1>10. YieldInv'
    BY <1>1, <1>2, <1>3 DEF IInv, YieldInv, PcInv, TypeOK, NestingInv
<1> QED
    BY <1>4, <1>5, <1>6, <1>7, <1>8, <1>9, <1>10 DEF IInv

LEMMA Keeps_EnterCount ==
    ASSUME IInv, NEW t \in Threads, EnterCount(t),
           t = Main => phase = "main"
    PROVE  IInv'
<1> USE Contexts DEF EnterCount, Goto, build
<1>1. /\ Runs(t) /\ t = current /\ Active = {} /\ Holders \subseteq {t}
      /\ (PendSV \in pend => masked /\ ~SOFTDEVICE_PRESENT)
      /\ phase = IF t = Main THEN "main" ELSE "running"
    BY ThreadRuns DEF IInv, TypeOK, PcInv, MaskInv, StartInv, Holders, Active
<1>2. Holders' = Holders
    BY <1>1 DEF Holders, IInv, TypeOK, NestingInv
<1>3. Active' = Active
    BY <1>1 DEF Active, IInv, TypeOK
<1>4. TypeOK'
    BY <1>1, <1>2, <1>3 DEF IInv, TypeOK, NestingInv
<1>5. PcInv'
    BY <1>1, <1>2, <1>3 DEF IInv, PcInv, StartInv, NestingInv
<1>6. StartInv'
    BY <1>1, <1>2, <1>3 DEF IInv, StartInv, PcInv, NestingInv
<1>7. MaskInv'
    BY <1>1, <1>2, <1>3 DEF IInv, MaskInv, PcInv, IdleMask, StartInv, NestingInv
<1>8. PreemptionInv'
    BY <1>1, <1>2, <1>3 DEF IInv, PreemptionInv, MaskInv
<1>9. NestingInv'
    BY <1>1, <1>2, <1>3 DEF IInv, NestingInv, TypeOK, StartInv, PcInv
<1>10. YieldInv'
    BY <1>1, <1>2, <1>3 DEF IInv, YieldInv, PcInv, TypeOK, NestingInv
<1> QED
    BY <1>4, <1>5, <1>6, <1>7, <1>8, <1>9, <1>10 DEF IInv

LEMMA Keeps_ExitCount ==
    ASSUME IInv, NEW t \in Threads, ExitCount(t),
           t = Main => phase = "main"
    PROVE  IInv'
<1> USE Contexts DEF ExitCount, Goto, build
<1>1. /\ Runs(t) /\ t = current /\ Active = {} /\ Holders \subseteq {t}
      /\ (PendSV \in pend => masked /\ ~SOFTDEVICE_PRESENT)
      /\ phase = IF t = Main THEN "main" ELSE "running"
    BY ThreadRuns DEF IInv, TypeOK, PcInv, MaskInv, StartInv, Holders, Active
<1>2. Holders' = Holders
    BY <1>1 DEF Holders, IInv, TypeOK, NestingInv
<1>3. Active' = Active
    BY <1>1 DEF Active, IInv, TypeOK
<1>4. TypeOK'
    BY <1>1, <1>2, <1>3 DEF IInv, TypeOK, NestingInv
<1>5. PcInv'
    BY <1>1, <1>2, <1>3 DEF IInv, PcInv, StartInv, NestingInv
<1>6. StartInv'
    BY <1>1, <1>2, <1>3 DEF IInv, StartInv, PcInv, NestingInv
<1>7. MaskInv'
    BY <1>1, <1>2, <1>3 DEF IInv, MaskInv, PcInv, IdleMask, StartInv, NestingInv
<1>8. PreemptionInv'
    BY <1>1, <1>2, <1>3 DEF IInv, PreemptionInv, MaskInv
<1>9. NestingInv'
    BY <1>1, <1>2, <1>3 DEF IInv, NestingInv, TypeOK, StartInv, PcInv
<1>10. YieldInv'
    BY <1>1, <1>2, <1>3 DEF IInv, YieldInv, PcInv, TypeOK, NestingInv
<1> QED
    BY <1>4, <1>5, <1>6, <1>7, <1>8, <1>9, <1>10 DEF IInv

LEMMA Keeps_ExitUnmask ==
    ASSUME IInv, NEW t \in Threads, ExitUnmask(t),
           t = Main => phase = "main"
    PROVE  IInv'
<1> USE Contexts DEF ExitUnmask, Goto, build
<1>1. /\ Runs(t) /\ t = current /\ Active = {} /\ Holders \subseteq {t}
      /\ (PendSV \in pend => masked /\ ~SOFTDEVICE_PRESENT)
      /\ phase = IF t = Main THEN "main" ELSE "running"
    BY ThreadRuns DEF IInv, TypeOK, PcInv, MaskInv, StartInv, Holders, Active
<1>2. Holders' = IF depth[t] = 0 THEN {} ELSE {t}
    BY <1>1 DEF Holders, IInv, TypeOK, NestingInv
<1>3. Active' = Active
    BY <1>1 DEF Active, IInv, TypeOK
<1>4. TypeOK'
    BY <1>1, <1>2, <1>3 DEF IInv, TypeOK, NestingInv
<1>5. PcInv'
    BY <1>1, <1>2, <1>3 DEF IInv, PcInv, StartInv, NestingInv
<1>6. StartInv'
  <2>1. phase # "running" => t = Main /\ phase = "main" /\ ~opened'
    BY <1>1 DEF IInv, StartInv
  <2>2. t # Main => pc'[Main] = pc[Main]
    BY <1>1 DEF IInv, TypeOK
  <2>3. opened => opened'
    OBVIOUS
  <2> QED
    BY <1>1, <1>3, <2>1, <2>2, <2>3 DEF IInv, StartInv
<1>7. MaskInv'
  <2>1. masked /\ \A e \in Exceptions : pc'[e] = "off"
    BY <1>1 DEF IInv, MaskInv, Holders, Active
  <2>2. masked' <=> depth[t] # 0
    BY <1>1, <2>1 DEF IInv, NestingInv
  <2>3. IdleMask' => depth[t] # 0
    BY <1>1, <2>2 DEF IdleMask
  <2> QED
    BY <1>1, <1>2, <2>1, <2>2, <2>3 DEF MaskInv
<1>8. PreemptionInv'
    BY <1>1, <1>2, <1>3 DEF IInv, PreemptionInv, MaskInv
<1>9. NestingInv'
    BY <1>1, <1>2, <1>3 DEF IInv, NestingInv, TypeOK, StartInv, PcInv
<1>10. YieldInv'
    BY <1>1, <1>2, <1>3 DEF IInv, YieldInv, PcInv, TypeOK, NestingInv
<1> QED
    BY <1>4, <1>5, <1>6, <1>7, <1>8, <1>9, <1>10 DEF IInv

LEMMA Keeps_TestFlag ==
    ASSUME IInv, NEW t \in Threads, TestFlag(t),
           t = Main => phase = "main"
    PROVE  IInv'
<1> USE Contexts DEF TestFlag, Goto, build
<1>1. /\ Runs(t) /\ t = current /\ Active = {} /\ Holders \subseteq {t}
      /\ (PendSV \in pend => masked /\ ~SOFTDEVICE_PRESENT)
      /\ phase = IF t = Main THEN "main" ELSE "running"
    BY ThreadRuns DEF IInv, TypeOK, PcInv, MaskInv, StartInv, Holders, Active
<1>2. Holders' = Holders
    BY <1>1 DEF Holders, IInv, TypeOK, NestingInv
<1>3. Active' = Active
    BY <1>1 DEF Active, IInv, TypeOK
<1>4. TypeOK'
    BY <1>1, <1>2, <1>3 DEF IInv, TypeOK, NestingInv
<1>5. PcInv'
    BY <1>1, <1>2, <1>3 DEF IInv, PcInv, StartInv, NestingInv
<1>6. StartInv'
    BY <1>1, <1>2, <1>3 DEF IInv, StartInv, PcInv, NestingInv
<1>7. MaskInv'
    BY <1>1, <1>2, <1>3 DEF IInv, MaskInv, PcInv, IdleMask, StartInv, NestingInv
<1>8. PreemptionInv'
    BY <1>1, <1>2, <1>3 DEF IInv, PreemptionInv, MaskInv
<1>9. NestingInv'
    BY <1>1, <1>2, <1>3 DEF IInv, NestingInv, TypeOK, StartInv, PcInv
<1>10. YieldInv'
    BY <1>1, <1>2, <1>3 DEF IInv, YieldInv, PcInv, TypeOK, NestingInv
<1> QED
    BY <1>4, <1>5, <1>6, <1>7, <1>8, <1>9, <1>10 DEF IInv

LEMMA Keeps_ClearFlag ==
    ASSUME IInv, NEW t \in Threads, ClearFlag(t),
           t = Main => phase = "main"
    PROVE  IInv'
<1> USE Contexts DEF ClearFlag, Goto, build
<1>1. /\ Runs(t) /\ t = current /\ Active = {} /\ Holders \subseteq {t}
      /\ (PendSV \in pend => masked /\ ~SOFTDEVICE_PRESENT)
      /\ phase = IF t = Main THEN "main" ELSE "running"
    BY ThreadRuns DEF IInv, TypeOK, PcInv, MaskInv, StartInv, Holders, Active
<1>2. Holders' = Holders
    BY <1>1 DEF Holders, IInv, TypeOK, NestingInv
<1>3. Active' = Active
    BY <1>1 DEF Active, IInv, TypeOK
<1>4. TypeOK'
    BY <1>1, <1>2, <1>3 DEF IInv, TypeOK, NestingInv
<1>5. PcInv'
    BY <1>1, <1>2, <1>3 DEF IInv, PcInv, StartInv, NestingInv
<1>6. StartInv'
    BY <1>1, <1>2, <1>3 DEF IInv, StartInv, PcInv, NestingInv
<1>7. MaskInv'
    BY <1>1, <1>2, <1>3 DEF IInv, MaskInv, PcInv, IdleMask, StartInv, NestingInv
<1>8. PreemptionInv'
    BY <1>1, <1>2, <1>3 DEF IInv, PreemptionInv, MaskInv
<1>9. NestingInv'
    BY <1>1, <1>2, <1>3 DEF IInv, NestingInv, TypeOK, StartInv, PcInv
<1>10. YieldInv'
    BY <1>1, <1>2, <1>3 DEF IInv, YieldInv, PcInv, TypeOK, NestingInv
<1> QED
    BY <1>4, <1>5, <1>6, <1>7, <1>8, <1>9, <1>10 DEF IInv

LEMMA Keeps_PendSwitch ==
    ASSUME IInv, NEW t \in Threads, PendSwitch(t),
           t = Main => phase = "main"
    PROVE  IInv'
<1> USE Contexts DEF PendSwitch, Goto, build
<1>1. /\ Runs(t) /\ t = current /\ Active = {} /\ Holders \subseteq {t}
      /\ (PendSV \in pend => masked /\ ~SOFTDEVICE_PRESENT)
      /\ phase = IF t = Main THEN "main" ELSE "running"
    BY ThreadRuns DEF IInv, TypeOK, PcInv, MaskInv, StartInv, Holders, Active
<1>2. Holders' = Holders
    BY <1>1 DEF Holders, IInv, TypeOK, NestingInv
<1>3. Active' = Active
    BY <1>1 DEF Active, IInv, TypeOK
<1>4. TypeOK'
    BY <1>1, <1>2, <1>3 DEF IInv, TypeOK, NestingInv
<1>5. PcInv'
    BY <1>1, <1>2, <1>3 DEF IInv, PcInv, StartInv, NestingInv
<1>6. StartInv'
    BY <1>1, <1>2, <1>3 DEF IInv, StartInv, PcInv, NestingInv
<1>7. MaskInv'
    BY <1>1, <1>2, <1>3 DEF IInv, MaskInv, PcInv, IdleMask, StartInv, NestingInv
<1>8. PreemptionInv'
    BY <1>1, <1>2, <1>3 DEF IInv, PreemptionInv, MaskInv
<1>9. NestingInv'
  <2>1. Holders = {}
    BY <1>1 DEF IInv, PcInv, TypeOK, Holders
  <2> QED
    BY <1>2, <2>1 DEF IInv, NestingInv
<1>10. YieldInv'
    BY <1>1, <1>2, <1>3 DEF IInv, YieldInv, PcInv, TypeOK, NestingInv
<1> QED
    BY <1>4, <1>5, <1>6, <1>7, <1>8, <1>9, <1>10 DEF IInv

LEMMA Keeps_vPortTaskYield ==
    ASSUME IInv, NEW t \in Threads, vPortTaskYield(t),
           t = Main => phase = "main"
    PROVE  IInv'
<1> USE Contexts DEF vPortTaskYield, Goto, build
<1>1. /\ Runs(t) /\ t = current /\ Active = {} /\ Holders \subseteq {t}
      /\ (PendSV \in pend => masked /\ ~SOFTDEVICE_PRESENT)
      /\ phase = IF t = Main THEN "main" ELSE "running"
    BY ThreadRuns DEF IInv, TypeOK, PcInv, MaskInv, StartInv, Holders, Active
<1>2. Holders' = Holders
    BY <1>1 DEF Holders, IInv, TypeOK, NestingInv
<1>3. Active' = Active
    BY <1>1 DEF Active, IInv, TypeOK
<1>4. TypeOK'
    BY <1>1, <1>2, <1>3 DEF IInv, TypeOK, NestingInv
<1>5. PcInv'
    BY <1>1, <1>2, <1>3 DEF IInv, PcInv, StartInv, NestingInv
<1>6. StartInv'
    BY <1>1, <1>2, <1>3 DEF IInv, StartInv, PcInv, NestingInv
<1>7. MaskInv'
    BY <1>1, <1>2, <1>3 DEF IInv, MaskInv, PcInv, IdleMask, StartInv, NestingInv
<1>8. PreemptionInv'
    BY <1>1, <1>2, <1>3 DEF IInv, PreemptionInv, MaskInv
<1>9. NestingInv'
  <2>1. UNCHANGED <<uxCriticalNesting, depth, current>>
    OBVIOUS
  <2>2. SOFTDEVICE_PRESENT /\ Holders # {} => PendSV \notin pend'
  <3>1. Holders # {} => uxCriticalNesting > 0
      BY <1>1 DEF IInv, TypeOK, NestingInv, Holders
  <3> QED
      BY <1>1, <3>1 DEF IInv, TypeOK
  <2> QED
    BY <1>1, <1>2, <2>1, <2>2 DEF IInv, NestingInv
<1>10. YieldInv'
    BY <1>1, <1>2, <1>3 DEF IInv, YieldInv, PcInv, TypeOK, NestingInv
<1> QED
    BY <1>4, <1>5, <1>6, <1>7, <1>8, <1>9, <1>10 DEF IInv

LEMMA Keeps_prvTaskExitError ==
    ASSUME IInv, NEW t \in Threads, prvTaskExitError(t),
           t = Main => phase = "main"
    PROVE  IInv'
<1> USE Contexts DEF prvTaskExitError, Goto, build
<1>1. /\ Runs(t) /\ t = current /\ Active = {} /\ Holders \subseteq {t}
      /\ (PendSV \in pend => masked /\ ~SOFTDEVICE_PRESENT)
      /\ phase = IF t = Main THEN "main" ELSE "running"
    BY ThreadRuns DEF IInv, TypeOK, PcInv, MaskInv, StartInv, Holders, Active
<1>2. Holders' = Holders \cup {t}
    BY <1>1 DEF Holders, IInv, TypeOK, NestingInv
<1>3. Active' = Active
    BY <1>1 DEF Active, IInv, TypeOK
<1>4. TypeOK'
    BY <1>1, <1>2, <1>3 DEF IInv, TypeOK, NestingInv
<1>5. PcInv'
    BY <1>1, <1>2, <1>3 DEF IInv, PcInv, StartInv, NestingInv
<1>6. StartInv'
    BY <1>1, <1>2, <1>3 DEF IInv, StartInv, PcInv, NestingInv
<1>7. MaskInv'
    BY <1>1, <1>2, <1>3 DEF IInv, MaskInv, PcInv, IdleMask, StartInv, NestingInv
<1>8. PreemptionInv'
    BY <1>1, <1>2, <1>3 DEF IInv, PreemptionInv, MaskInv
<1>9. NestingInv'
    BY <1>1, <1>2, <1>3 DEF IInv, NestingInv, TypeOK, StartInv, PcInv
<1>10. YieldInv'
    BY <1>1, <1>2, <1>3 DEF IInv, YieldInv, PcInv, TypeOK, NestingInv
<1> QED
    BY <1>4, <1>5, <1>6, <1>7, <1>8, <1>9, <1>10 DEF IInv

LEMMA Keeps_vTaskStartScheduler ==
    ASSUME IInv, vTaskStartScheduler
    PROVE  IInv'
<1> USE Contexts DEF vTaskStartScheduler, Starting, build
<1>1. Runs(Main) /\ Main = current /\ Active = {} /\ Holders = {}
    BY ThreadRuns DEF IInv, TypeOK, PcInv, MaskInv, StartInv, Holders, Active
<1>2. Holders' = Holders
    BY <1>1 DEF Holders, IInv, TypeOK, NestingInv
<1>3. Active' = Active
    BY <1>1 DEF Active, IInv, TypeOK
<1>4. TypeOK'
    BY <1>1, <1>2, <1>3 DEF IInv, TypeOK, NestingInv
<1>5. PcInv'
    BY <1>1, <1>2, <1>3 DEF IInv, PcInv, StartInv, NestingInv
<1>6. StartInv'
    BY <1>1, <1>2, <1>3 DEF IInv, StartInv, PcInv, NestingInv
<1>7. MaskInv'
  <2>1. masked' /\ IdleMask' /\ \A e \in Exceptions : pc'[e] = "off"
    BY <1>1 DEF IdleMask, Active
  <2> QED
    BY <1>1, <1>2, <2>1 DEF MaskInv
<1>8. PreemptionInv'
    BY <1>1, <1>2, <1>3 DEF IInv, PreemptionInv, MaskInv
<1>9. NestingInv'
    BY <1>1, <1>2, <1>3 DEF IInv, NestingInv, TypeOK, StartInv, PcInv
<1>10. YieldInv'
    BY <1>1, <1>2, <1>3 DEF IInv, YieldInv, PcInv, TypeOK, NestingInv
<1> QED
    BY <1>4, <1>5, <1>6, <1>7, <1>8, <1>9, <1>10 DEF IInv

LEMMA Keeps_xPortStartScheduler ==
    ASSUME IInv, xPortStartScheduler
    PROVE  IInv'
<1> USE Contexts DEF xPortStartScheduler, Starting, build
<1>1. Runs(Main) /\ Main = current /\ Active = {} /\ Holders = {}
    BY ThreadRuns DEF IInv, TypeOK, PcInv, MaskInv, StartInv, Holders, Active
<1>2. Holders' = Holders
    BY <1>1 DEF Holders, IInv, TypeOK, NestingInv
<1>3. Active' = Active
    BY <1>1 DEF Active, IInv, TypeOK
<1>4. TypeOK'
    BY <1>1, <1>2, <1>3 DEF IInv, TypeOK, NestingInv
<1>5. PcInv'
    BY <1>1, <1>2, <1>3 DEF IInv, PcInv, StartInv, NestingInv
<1>6. StartInv'
    BY <1>1, <1>2, <1>3 DEF IInv, StartInv, PcInv, NestingInv
<1>7. MaskInv'
    BY <1>1, <1>2, <1>3 DEF IInv, MaskInv, PcInv, IdleMask, StartInv, NestingInv
<1>8. PreemptionInv'
    BY <1>1, <1>2, <1>3 DEF IInv, PreemptionInv, MaskInv
<1>9. NestingInv'
    BY <1>1, <1>2, <1>3 DEF IInv, NestingInv, TypeOK, StartInv, PcInv
<1>10. YieldInv'
    BY <1>1, <1>2, <1>3 DEF IInv, YieldInv, PcInv, TypeOK, NestingInv
<1> QED
    BY <1>4, <1>5, <1>6, <1>7, <1>8, <1>9, <1>10 DEF IInv

LEMMA Keeps_vPortStartFirstTask ==
    ASSUME IInv, vPortStartFirstTask
    PROVE  IInv'
<1> USE Contexts DEF vPortStartFirstTask, Starting, build
<1>1. Runs(Main) /\ Main = current /\ Active = {} /\ Holders = {}
    BY ThreadRuns DEF IInv, TypeOK, PcInv, MaskInv, StartInv, Holders, Active
<1>2. Holders' = Holders
    BY <1>1 DEF Holders, IInv, TypeOK, NestingInv
<1>3. Active' = Active
    BY <1>1 DEF Active, IInv, TypeOK
<1>4. TypeOK'
    BY <1>1, <1>2, <1>3 DEF IInv, TypeOK, NestingInv
<1>5. PcInv'
    BY <1>1, <1>2, <1>3 DEF IInv, PcInv, StartInv, NestingInv
<1>6. StartInv'
    BY <1>1, <1>2, <1>3 DEF IInv, StartInv, PcInv, NestingInv
<1>7. MaskInv'
  <2>1. masked' <=> IdleMask'
    BY <1>1 DEF IdleMask
  <2>2. \A e \in Exceptions : pc'[e] = "off"
    BY <1>1 DEF Active
  <2> QED
    BY <1>1, <1>2, <2>1, <2>2 DEF MaskInv
<1>8. PreemptionInv'
    BY <1>1, <1>2, <1>3 DEF IInv, PreemptionInv, MaskInv
<1>9. NestingInv'
  <2>1. \A t \in Threads : depth[t] = 0
    BY <1>1 DEF IInv, TypeOK, Holders
  <2> QED
    BY <1>1, <1>2, <2>1 DEF IInv, NestingInv
<1>10. YieldInv'
  <2>1. \A t \in Threads : ~owes[t]
    BY <1>1 DEF IInv, YieldInv, StartInv, Active
  <2> QED
    BY <2>1 DEF YieldInv
<1> QED
    BY <1>4, <1>5, <1>6, <1>7, <1>8, <1>9, <1>10 DEF IInv

LEMMA Keeps_Raise ==
    ASSUME IInv, NEW e \in Exceptions, Raise(e)
    PROVE  IInv'
<1> USE Contexts DEF Raise, build
<1>2. Holders' = Holders
    BY DEF Holders, IInv, TypeOK, NestingInv
<1>3. Active' = Active
    BY DEF Active, IInv, TypeOK
<1>4. TypeOK'
    BY <1>2, <1>3 DEF IInv, TypeOK, NestingInv
<1>5. PcInv'
    BY <1>2, <1>3 DEF IInv, PcInv, StartInv, NestingInv
<1>6. StartInv'
    BY <1>2, <1>3 DEF IInv, StartInv, PcInv, NestingInv
<1>7. MaskInv'
    BY <1>2, <1>3 DEF IInv, MaskInv, PcInv, IdleMask, StartInv, NestingInv
<1>8. PreemptionInv'
    BY <1>2, <1>3 DEF IInv, PreemptionInv, MaskInv
<1>9. NestingInv'
    BY <1>2, <1>3 DEF IInv, NestingInv, TypeOK, StartInv, PcInv
<1>10. YieldInv'
    BY <1>2, <1>3 DEF IInv, YieldInv, PcInv, TypeOK, NestingInv
<1> QED
    BY <1>4, <1>5, <1>6, <1>7, <1>8, <1>9, <1>10 DEF IInv

LEMMA Keeps_Take ==
    ASSUME IInv, NEW e \in Exceptions, Take(e)
    PROVE  IInv'
<1> USE Contexts DEF Take, build
<1>1. Deliverable(e) /\ Holders = {} /\ (masked => Active = {} /\ e = PendSV)
    BY TakenFree DEF IInv, TypeOK, PcInv, MaskInv, StartInv, Holders, Active
<1>2. Holders' = Holders
    BY <1>1 DEF Holders, IInv, TypeOK, NestingInv
<1>3. Active' = Active \cup {e}
    BY <1>1 DEF Active, IInv, TypeOK
<1>4. TypeOK'
    BY <1>1, <1>2, <1>3 DEF IInv, TypeOK, NestingInv
<1>5. PcInv'
    BY <1>1, <1>2, <1>3 DEF IInv, PcInv, StartInv, NestingInv
<1>6. StartInv'
  <2>1. phase = "running"
    BY <1>1 DEF IInv, TypeOK, StartInv, MaskInv, IdleMask, Deliverable
  <2>2. \A t \in Threads : pc'[t] = pc[t]
    BY DEF IInv, TypeOK
  <2> QED
    BY <2>1, <2>2 DEF IInv, StartInv
<1>7. MaskInv'
    BY <1>1, <1>2, <1>3 DEF IInv, MaskInv, PcInv, IdleMask, StartInv, NestingInv
<1>8. PreemptionInv'
    BY <1>1, <1>2, <1>3, Priorities DEF IInv, PreemptionInv, MaskInv, Deliverable
<1>9. NestingInv'
    BY <1>1, <1>2, <1>3 DEF IInv, NestingInv, TypeOK, StartInv, PcInv
<1>10. YieldInv'
    BY <1>1, <1>2, <1>3 DEF IInv, YieldInv, PcInv, TypeOK, NestingInv
<1> QED
    BY <1>4, <1>5, <1>6, <1>7, <1>8, <1>9, <1>10 DEF IInv

LEMMA Keeps_SaveContext ==
    ASSUME IInv, SaveContext
    PROVE  IInv'
<1> USE Contexts DEF SaveContext, Goto, build
<1>1. Runs(PendSV) /\ PendSV \in Active /\ Holders = {}
    BY ExceptionRuns DEF IInv, TypeOK, PcInv, MaskInv, StartInv, Holders, Active
<1>2. Holders' = Holders
    BY <1>1 DEF Holders, IInv, TypeOK, NestingInv
<1>3. Active' = Active
    BY <1>1 DEF Active, IInv, TypeOK
<1>4. TypeOK'
    BY <1>1, <1>2, <1>3 DEF IInv, TypeOK, NestingInv
<1>5. PcInv'
    BY <1>1, <1>2, <1>3 DEF IInv, PcInv, StartInv, NestingInv
<1>6. StartInv'
    BY <1>1, <1>2, <1>3 DEF IInv, StartInv, PcInv, NestingInv
<1>7. MaskInv'
    BY <1>1, <1>2, <1>3 DEF IInv, MaskInv, PcInv, IdleMask, StartInv, NestingInv
<1>8. PreemptionInv'
    BY <1>1, <1>2, <1>3 DEF IInv, PreemptionInv, MaskInv
<1>9. NestingInv'
    BY <1>1, <1>2, <1>3 DEF IInv, NestingInv, TypeOK, StartInv, PcInv
<1>10. YieldInv'
    BY <1>1, <1>2, <1>3 DEF IInv, YieldInv, PcInv, TypeOK, NestingInv
<1> QED
    BY <1>4, <1>5, <1>6, <1>7, <1>8, <1>9, <1>10 DEF IInv

LEMMA Keeps_ulPortDisableISR ==
    ASSUME IInv, NEW e \in Exceptions, ulPortDisableISR(e)
    PROVE  IInv'
<1> USE Contexts DEF ulPortDisableISR, Goto, build
<1>1. Runs(e) /\ e \in Active /\ Holders = {}
    BY ExceptionRuns DEF IInv, TypeOK, PcInv, MaskInv, StartInv, Holders, Active
<1>2. Holders' = {e}
    BY <1>1 DEF Holders, IInv, TypeOK, NestingInv
<1>3. Active' = Active
    BY <1>1 DEF Active, IInv, TypeOK
<1>4. TypeOK'
    BY <1>1, <1>2, <1>3 DEF IInv, TypeOK, NestingInv
<1>5. PcInv'
    BY <1>1, <1>2, <1>3 DEF IInv, PcInv, StartInv, NestingInv
<1>6. StartInv'
    BY <1>1, <1>2, <1>3 DEF IInv, StartInv, PcInv, NestingInv
<1>7. MaskInv'
  <2>1. masked <=> IdleMask
    BY <1>1 DEF IInv, MaskInv
  <2>2. IdleMask' <=> IdleMask
    BY DEF IdleMask
  <2>3. \A a \in Exceptions : pc'[a] \in {"kernel", "restore"} => a = e
    BY <1>1 DEF Holders
  <2>4. isrstate'[e] = masked
    BY DEF IInv, TypeOK
  <2> QED
    BY <1>2, <2>1, <2>2, <2>3, <2>4 DEF MaskInv
<1>8. PreemptionInv'
  <2>1. \A a \in Active : a # e => Priority(e) < Priority(a)
    <3> SUFFICES ASSUME NEW a \in Active, a # e PROVE Priority(e) < Priority(a)
        OBVIOUS
    <3>1. Priority(e) <= Priority(a) /\ Priority(e) # Priority(a)
        BY <1>1 DEF Runs, IInv, PreemptionInv
    <3>2. Priority(e) \in 0..3 /\ Priority(a) \in 0..3
        BY Priorities DEF Active
    <3> QED
        BY <3>1, <3>2
  <2> QED
    BY <1>2, <1>3, <2>1 DEF IInv, PreemptionInv
<1>9. NestingInv'
    BY <1>1, <1>2, <1>3 DEF IInv, NestingInv, TypeOK, StartInv, PcInv
<1>10. YieldInv'
    BY <1>1, <1>2, <1>3 DEF IInv, YieldInv, PcInv, TypeOK, NestingInv
<1> QED
    BY <1>4, <1>5, <1>6, <1>7, <1>8, <1>9, <1>10 DEF IInv

LEMMA Keeps_KernelCall ==
    ASSUME IInv, NEW e \in Exceptions, KernelCall(e)
    PROVE  IInv'
<1> USE Contexts DEF KernelCall, Goto, build
<1>1. e \in Active /\ Holders = {e}
    BY DEF IInv, TypeOK, PcInv, MaskInv, StartInv, Holders, Active
<1>2. Holders' = Holders
    BY <1>1 DEF Holders, IInv, TypeOK, NestingInv
<1>3. Active' = Active
    BY <1>1 DEF Active, IInv, TypeOK
<1>4. TypeOK'
    BY <1>1, <1>2, <1>3 DEF IInv, TypeOK, NestingInv
<1>5. PcInv'
    BY <1>1, <1>2, <1>3 DEF IInv, PcInv, StartInv, NestingInv
<1>6. StartInv'
    BY <1>1, <1>2, <1>3 DEF IInv, StartInv, PcInv, NestingInv
<1>7. MaskInv'
    BY <1>1, <1>2, <1>3 DEF IInv, MaskInv, PcInv, IdleMask, StartInv, NestingInv
<1>8. PreemptionInv'
    BY <1>1, <1>2, <1>3 DEF IInv, PreemptionInv, MaskInv
<1>9. NestingInv'
    BY <1>1, <1>2, <1>3 DEF IInv, NestingInv, TypeOK, StartInv, PcInv
<1>10. YieldInv'
    BY <1>1, <1>2, <1>3 DEF IInv, YieldInv, PcInv, TypeOK, NestingInv
<1> QED
    BY <1>4, <1>5, <1>6, <1>7, <1>8, <1>9, <1>10 DEF IInv

LEMMA Keeps_vTaskSwitchContext ==
    ASSUME IInv, vTaskSwitchContext
    PROVE  IInv'
<1> USE Contexts DEF vTaskSwitchContext, Goto, build
<1>1. Active = {PendSV} /\ Holders = {PendSV}
    BY SwitchRuns DEF IInv, TypeOK, PcInv, MaskInv, StartInv, Holders, Active
<1>2. Holders' = Holders
    BY <1>1 DEF Holders, IInv, TypeOK, NestingInv
<1>3. Active' = Active
    BY <1>1 DEF Active, IInv, TypeOK
<1>4. TypeOK'
    BY <1>1, <1>2, <1>3 DEF IInv, TypeOK, NestingInv
<1>5. PcInv'
    BY <1>1, <1>2, <1>3 DEF IInv, PcInv, StartInv, NestingInv
<1>6. StartInv'
    BY <1>1, <1>2, <1>3 DEF IInv, StartInv, PcInv, NestingInv
<1>7. MaskInv'
    BY <1>1, <1>2, <1>3 DEF IInv, MaskInv, PcInv, IdleMask, StartInv, NestingInv
<1>8. PreemptionInv'
    BY <1>1, <1>2, <1>3 DEF IInv, PreemptionInv, MaskInv
<1>9. NestingInv'
  <2>1. \A t \in Threads : depth[t] = 0
    BY <1>1 DEF IInv, TypeOK, Holders
  <2>2. Holders' \cap Threads = {} /\ current' \in Threads /\ current \in Threads
    BY <1>1, <1>2 DEF IInv, TypeOK
  <2>3. UNCHANGED <<uxCriticalNesting, depth>> /\ uxCriticalNesting = depth[current]
    BY DEF IInv, NestingInv
  <2> QED
    BY <2>1, <2>2, <2>3 DEF NestingInv
<1>10. YieldInv'
    BY <1>1, <1>2, <1>3 DEF IInv, YieldInv, PcInv, TypeOK, NestingInv
<1> QED
    BY <1>4, <1>5, <1>6, <1>7, <1>8, <1>9, <1>10 DEF IInv

LEMMA Keeps_vPortRestoreISR ==
    ASSUME IInv, NEW e \in Exceptions, vPortRestoreISR(e)
    PROVE  IInv'
<1> USE Contexts DEF vPortRestoreISR, Goto, build
<1>1. Runs(e) /\ e \in Active /\ Holders = {e}
    BY DEF IInv, TypeOK, PcInv, MaskInv, StartInv, Holders, Active
<1>2. Holders' = {}
    BY <1>1 DEF Holders, IInv, TypeOK, NestingInv
<1>3. Active' = IF e = PendSV THEN Active ELSE Active \ {e}
    BY <1>1 DEF Active, IInv, TypeOK
<1>4. TypeOK'
    BY <1>1, <1>2, <1>3 DEF IInv, TypeOK, NestingInv
<1>5. PcInv'
    BY <1>1, <1>2, <1>3 DEF IInv, PcInv, StartInv, NestingInv
<1>6. StartInv'
    BY <1>1, <1>2, <1>3 DEF IInv, StartInv, PcInv, NestingInv
<1>7. MaskInv'
  <2>1. masked /\ (isrstate[e] <=> IdleMask)
    BY <1>1 DEF IInv, MaskInv
  <2>2. masked' <=> IdleMask'
    BY <2>1 DEF IdleMask
  <2>3. \A a \in Exceptions : pc'[a] \notin {"kernel", "restore"}
    BY <1>2 DEF Holders
  <2> QED
    BY <1>2, <2>2, <2>3 DEF MaskInv
<1>8. PreemptionInv'
    BY <1>1, <1>2, <1>3 DEF IInv, PreemptionInv, MaskInv
<1>9. NestingInv'
    BY <1>1, <1>2, <1>3 DEF IInv, NestingInv, TypeOK, StartInv, PcInv
<1>10. YieldInv'
    BY <1>1, <1>2, <1>3 DEF IInv, YieldInv, PcInv, TypeOK, NestingInv
<1> QED
    BY <1>4, <1>5, <1>6, <1>7, <1>8, <1>9, <1>10 DEF IInv

LEMMA Keeps_LoadContext ==
    ASSUME IInv, LoadContext
    PROVE  IInv'
<1> USE Contexts DEF LoadContext, Goto, build
<1>1. Runs(PendSV) /\ PendSV \in Active /\ Holders = {}
    BY ExceptionRuns DEF IInv, TypeOK, PcInv, MaskInv, StartInv, Holders, Active
<1>2. Holders' = Holders
    BY <1>1 DEF Holders, IInv, TypeOK, NestingInv
<1>3. Active' = Active \ {PendSV}
    BY <1>1 DEF Active, IInv, TypeOK
<1>4. TypeOK'
    BY <1>1, <1>2, <1>3 DEF IInv, TypeOK, NestingInv
<1>5. PcInv'
    BY <1>1, <1>2, <1>3 DEF IInv, PcInv, StartInv, NestingInv
<1>6. StartInv'
    BY <1>1, <1>2, <1>3 DEF IInv, StartInv, PcInv, NestingInv
<1>7. MaskInv'
    BY <1>1, <1>2, <1>3 DEF IInv, MaskInv, PcInv, IdleMask, StartInv, NestingInv
<1>8. PreemptionInv'
    BY <1>1, <1>2, <1>3 DEF IInv, PreemptionInv, MaskInv
<1>9. NestingInv'
    BY <1>1, <1>2, <1>3 DEF IInv, NestingInv, TypeOK, StartInv, PcInv
<1>10. YieldInv'
    BY <1>1, <1>2, <1>3 DEF IInv, YieldInv, PcInv, TypeOK, NestingInv
<1> QED
    BY <1>4, <1>5, <1>6, <1>7, <1>8, <1>9, <1>10 DEF IInv

-----------------------------------------------------------------------------
(* The invariant holds in every state.                                     *)

LEMMA InitIInv == Init => IInv
<1> SUFFICES ASSUME Init PROVE IInv
    OBVIOUS
<1> USE Contexts, BuildAssumption
<1>1. /\ \A t \in Threads : pc[t] = "run" /\ depth[t] = 0 /\ ~owes[t]
      /\ \A e \in Exceptions : pc[e] = "off"
    BY DEF Init
<1>2. Holders = {} /\ Active = {}
    BY <1>1 DEF Holders, Active
<1>3. PcInv
    BY <1>1 DEF PcInv
<1>4. TypeOK
  <2>1. pc \in [Threads \cup Exceptions -> {"run", "off"}]
    BY DEF Init
  <2> QED
    BY <2>1 DEF Init, TypeOK
<1>5. MaskInv /\ PreemptionInv
    BY <1>1, <1>2 DEF Init, MaskInv, IdleMask, PreemptionInv
<1>6. StartInv /\ NestingInv /\ YieldInv
    BY <1>1, <1>2 DEF Init, StartInv, NestingInv, YieldInv
<1> QED
    BY <1>3, <1>4, <1>5, <1>6 DEF IInv

LEMMA NextIInv == ASSUME IInv, [Next]_vars PROVE IInv'
<1>5. ASSUME UNCHANGED vars PROVE IInv'
    BY <1>5 DEF vars, build, IInv, TypeOK, PcInv, MaskInv, PreemptionInv, StartInv,
       NestingInv, YieldInv, Holders, Active, IdleMask
<1>1. ASSUME NEW t \in Threads, ThreadStep(t) PROVE IInv'
    BY <1>1, <1>5, Keeps_EnterMask, Keeps_EnterCount, Keeps_ExitCount, Keeps_ExitUnmask,
       Keeps_TestFlag, Keeps_ClearFlag, Keeps_PendSwitch, Keeps_vPortTaskYield,
       Keeps_prvTaskExitError DEF ThreadStep, StopHere
<1>2. ASSUME Start PROVE IInv'
    BY <1>2, Keeps_vTaskStartScheduler, Keeps_xPortStartScheduler,
       Keeps_vPortStartFirstTask DEF Start
<1>3. ASSUME NEW e \in Exceptions, Raise(e) \/ Take(e) \/ HandlerStep(e) PROVE IInv'
    BY <1>3, Keeps_Raise, Keeps_Take, Keeps_ulPortDisableISR, Keeps_KernelCall,
       Keeps_vPortRestoreISR DEF HandlerStep
<1>4. ASSUME SaveContext \/ vTaskSwitchContext \/ LoadContext PROVE IInv'
    BY <1>4, Keeps_SaveContext, Keeps_vTaskSwitchContext, Keeps_LoadContext
<1> QED
    BY <1>1, <1>2, <1>3, <1>4, <1>5 DEF Next

\* The inductive invariant of the port holds in every state, whatever the
\* threads, the kernel and the drivers' interrupts do, in both builds.
THEOREM Invariance == Spec => []IInv
<1>1. IInv /\ [Next]_vars => IInv'
    BY NextIInv
<1> QED
    BY <1>1, InitIInv, PTL DEF Spec

\* The data of the kernel is reached by one context at a time, although PendSV
\* gets through the SoftDevice's region (port_cmsis.c:187-201, 239-244).
THEOREM Exclusion == Spec => []KernelExclusion
<1>1. IInv => KernelExclusion
    BY Contexts DEF IInv, MaskInv, KernelExclusion, InKernel, Holders
<1> QED
    BY <1>1, Invariance, PTL

\* The single uxCriticalNesting (port_cmsis.c:67) is right for every task that
\* the context switch brings back.
THEOREM OneCounterServesAll == Spec => []NestingOfCurrent
<1>1. IInv => NestingOfCurrent
    BY Contexts DEF IInv, TypeOK, NestingInv, NestingOfCurrent, Holders
<1> QED
    BY <1>1, Invariance, PTL

\* A task that has yielded does not go on outside the critical sections until a
\* switch has taken place: uxYieldFlag is shared, but nobody clears another task's
\* request, and a request that the mask holds back is served first.
THEOREM YieldServedFirst == Spec => []YieldBeforeReturn
<1>1. IInv => YieldBeforeReturn
  <2> SUFFICES ASSUME IInv, NEW t \in Tasks, Runs(t), pc[t] = "run", depth[t] = 0, owes[t]
               PROVE  FALSE
      BY DEF YieldBeforeReturn
  <2>1. t \in Threads /\ t # Main
      BY Contexts
  <2>2. /\ t = current /\ Active = {} /\ Holders \subseteq {t}
        /\ PendSV \in pend => masked /\ ~SOFTDEVICE_PRESENT
      BY <2>1, ThreadRuns
  <2>3. t \notin Holders
      BY Contexts, <2>1 DEF Holders
  <2>4. phase = "running"
      BY <2>1, <2>2 DEF IInv, StartInv
  <2>5. PendSV \notin pend
      BY <2>2, <2>3, <2>4 DEF IInv, MaskInv, StartInv, IdleMask
  <2>6. pc[PendSV] = "off"
      BY <2>2, Contexts DEF Active
  <2> QED
      BY <2>1, <2>5, <2>6 DEF IInv, YieldInv
<1> QED
    BY <1>1, Invariance, PTL

\* Once the interrupts have been enabled, no task is left with them masked outside
\* its critical sections.
THEOREM NeverLeftMasked == Spec => []MaskReopened
<1>1. IInv => MaskReopened
  <2> SUFFICES ASSUME IInv, opened, Active = {}, pc[current] = "run", depth[current] = 0
               PROVE  ~masked
      BY DEF MaskReopened
  <2>1. Holders = {}
      BY Contexts DEF IInv, TypeOK, NestingInv, Holders, Active
  <2>2. phase = "running"
      BY DEF IInv, StartInv
  <2> QED
      BY <2>1, <2>2 DEF IInv, MaskInv, IdleMask
<1> QED
    BY <1>1, Invariance, PTL

-----------------------------------------------------------------------------
(* The contexts of the tasks.                                              *)

LEMMA FrameWords ==
    /\ Groups = {0, 1, 2, 3} /\ Automatic = {2, 3} /\ Low = 0 /\ High = 1
    /\ \A t : /\ pxPortInitialiseStack(t) = [g \in Groups |-> <<t, g>>]
              /\ DOMAIN pxPortInitialiseStack(t) = Groups
              /\ \A g \in Groups : pxPortInitialiseStack(t)[g] = <<t, g>>
BY DEF Groups, Automatic, Low, High, pxPortInitialiseStack

\* A step that leaves the registers, the stacks and the active exceptions alone.
LEMMA ContextUnseen ==
    ASSUME ContextInv, UNCHANGED <<context, current, Active>>,
           phase' = "running" <=> phase = "running",
           pc'[PendSV] \in Switched <=> pc[PendSV] \in Switched
    PROVE  ContextInv'
BY DEF ContextInv, HasFrame, context

LEMMA Context_Thread ==
    ASSUME IInv, ContextInv, NEW t \in Threads, ThreadStep(t)
    PROVE  ContextInv'
<1> USE Contexts DEF Goto
<1>1. pc' = pc \/ \E to \in {"run", "enter", "exit", "flag", "clear", "pend", "exited"} :
                     pc' = [pc EXCEPT ![t] = to]
    BY DEF ThreadStep, EnterMask, EnterCount, ExitCount, ExitUnmask, TestFlag, ClearFlag,
       PendSwitch, vPortTaskYield, prvTaskExitError, StopHere, vars
<1>2. UNCHANGED <<context, current, phase>>
    BY DEF ThreadStep, EnterMask, EnterCount, ExitCount, ExitUnmask, TestFlag, ClearFlag,
       PendSwitch, vPortTaskYield, prvTaskExitError, StopHere, vars, build
<1>3. \A e \in Exceptions : pc'[e] = pc[e]
    BY <1>1 DEF IInv, TypeOK
<1> QED
    BY <1>2, <1>3, ContextUnseen DEF Active

LEMMA Context_Start ==
    ASSUME IInv, ContextInv, Start
    PROVE  ContextInv'
<1> USE Contexts DEF Starting
<1>1. ASSUME vTaskStartScheduler \/ xPortStartScheduler PROVE ContextInv'
    BY <1>1, ContextUnseen DEF vTaskStartScheduler, xPortStartScheduler, Active
<1>2. ASSUME vPortStartFirstTask PROVE ContextInv'
  <2> USE <1>2 DEF vPortStartFirstTask
  <2>1. current = Main /\ Active = {} /\ current' \in Tasks
    BY DEF Runs
  <2>2. HasFrame(current')
    BY <2>1 DEF ContextInv
  <2>3. psp' = 4
    BY <2>2 DEF HasFrame
  <2>4. regs' = pxPortInitialiseStack(current')
    BY <2>2, FrameWords DEF HasFrame
  <2>5. Active' = {}
    BY <2>1 DEF Active
  <2>6. \A t \in Tasks : HasFrame(t)'
    BY <2>1 DEF ContextInv, HasFrame
  <2> QED
    BY <2>3, <2>4, <2>5, <2>6 DEF ContextInv
<1> QED
    BY <1>1, <1>2 DEF Start

LEMMA Context_Take ==
    ASSUME IInv, ContextInv, NEW e \in Exceptions, Take(e)
    PROVE  ContextInv'
<1> USE Contexts DEF Take, build
<1>1. /\ UNCHANGED <<current, phase>> /\ Active' = Active \cup {e}
      /\ pc'[PendSV] \in Switched <=> pc[PendSV] \in Switched
    BY DEF Deliverable, Active, Switched, IInv, TypeOK
<1>2. phase = "running"
  <2>1. masked => Active = {} /\ e = PendSV
    BY TakenFree
  <2> QED
    BY <2>1 DEF IInv, TypeOK, StartInv, MaskInv, IdleMask, Deliverable
<1>3. CASE Active # {}
  <2>1. UNCHANGED context
    BY <1>3
  <2> QED
    BY <1>1, <1>3, <2>1 DEF ContextInv, HasFrame, context
<1>4. CASE Active = {}
  <2>1. pc[PendSV] \notin Switched
    BY <1>4 DEF Active, Switched
  <2>2. regs = pxPortInitialiseStack(current) /\ psp = 4 /\ current \in Threads
    BY <1>2, <1>4 DEF ContextInv, IInv, TypeOK
  <2>3. psp' = 2 /\ UNCHANGED pxTopOfStack
    BY <1>4, <2>2 DEF Push
  <2>4. stacks' = [stacks EXCEPT ![current] =
                      [i \in Groups |-> IF i \in {2, 3} THEN regs[i] ELSE stacks[current][i]]]
    <3>1. DOMAIN stacks[current] = Groups
      BY <2>2 DEF ContextInv
    <3>2. \A i \in {2, 3} : i - 2 + 2 = i
      OBVIOUS
    <3> QED
      BY <1>4, <2>2, <2>3, <3>1, <3>2, FrameWords DEF Push, ContextInv
  <2>5. \A g \in {2, 3} : stacks'[current][g] = <<current, g>>
    BY <2>2, <2>4, FrameWords DEF ContextInv
  <2>6. stacks' \in [Threads -> [Groups -> Threads \X Groups]]
    BY <2>2, <2>4, FrameWords DEF ContextInv
  <2>7. DOMAIN regs' = Groups /\ \A g \in {0, 1} : regs'[g] = <<current, g>>
    BY <1>4, <2>2, FrameWords DEF Push
  <2>8. \A t \in Tasks : t # current => HasFrame(t)'
    BY <2>2, <2>3, <2>4 DEF ContextInv, HasFrame
  <2> QED
    BY <1>1, <2>1, <2>3, <2>5, <2>6, <2>7, <2>8, FrameWords DEF ContextInv
<1> QED
    BY <1>3, <1>4

LEMMA Context_Handler ==
    ASSUME IInv, ContextInv, NEW e \in Exceptions, Raise(e) \/ ulPortDisableISR(e) \/ KernelCall(e)
    PROVE  ContextInv'
<1>1. UNCHANGED <<context, current, phase>>
    BY DEF Raise, ulPortDisableISR, KernelCall, build
<1>2. Active' = Active
    BY DEF Raise, ulPortDisableISR, KernelCall, Goto, Active, IInv, TypeOK
<1>3. pc'[PendSV] \in Switched <=> pc[PendSV] \in Switched
    BY Contexts DEF Raise, ulPortDisableISR, KernelCall, Goto, Switched, IInv, TypeOK
<1> QED
    BY <1>1, <1>2, <1>3, ContextUnseen

LEMMA Context_Restore ==
    ASSUME IInv, ContextInv, NEW e \in Exceptions, vPortRestoreISR(e)
    PROVE  ContextInv'
<1> USE Contexts DEF vPortRestoreISR, Goto, build
<1>1. UNCHANGED <<current, phase>>
    OBVIOUS
<1>2. e \in Active /\ phase = "running"
    BY DEF IInv, StartInv, Active
<1>3. CASE e = PendSV
  <2>1. Active' = Active /\ pc[PendSV] \in Switched /\ pc'[PendSV] \in Switched
    BY <1>3 DEF Active, Switched, IInv, TypeOK
  <2> QED
    BY <1>1, <1>3, <2>1, ContextUnseen
<1>4. CASE e # PendSV
  <2>1. Active' = Active \ {e} /\ pc'[PendSV] = pc[PendSV]
    BY <1>4 DEF Active, IInv, TypeOK
  <2>2. CASE Active # {e}
    <3>1. UNCHANGED context /\ Active' # {}
      BY <1>2, <2>1, <2>2
    <3> QED
      BY <1>1, <1>2, <2>1, <3>1 DEF ContextInv, HasFrame, context
  <2>3. CASE Active = {e}
    <3>1. pc[PendSV] \notin Switched /\ current \in Threads
      BY <1>4, <2>3 DEF Active, Switched, IInv, TypeOK
    <3>2. /\ psp = 2 /\ \A g \in {2, 3} : stacks[current][g] = <<current, g>>
          /\ DOMAIN regs = Groups /\ \A g \in {0, 1} : regs[g] = <<current, g>>
      BY <1>2, <2>3, <3>1, FrameWords DEF ContextInv
    <3>3. psp' = 4 /\ UNCHANGED <<stacks, pxTopOfStack>>
      BY <1>4, <2>3, <3>2 DEF Pop
    <3>4. regs' = pxPortInitialiseStack(current)
      BY <1>4, <2>3, <3>2, FrameWords DEF Pop
    <3> QED
      BY <1>1, <2>1, <2>3, <3>1, <3>3, <3>4 DEF ContextInv, HasFrame
  <2> QED
    BY <2>2, <2>3
<1> QED
    BY <1>3, <1>4

LEMMA Context_Switch ==
    ASSUME IInv, ContextInv, SaveContext \/ vTaskSwitchContext \/ LoadContext
    PROVE  ContextInv'
<1> USE Contexts DEF Goto, build
<1>1. PendSV \in Active /\ Runs(PendSV) /\ Active = {PendSV} /\ phase = "running"
  <2>1. PendSV \in Active /\ Runs(PendSV)
    BY DEF SaveContext, vTaskSwitchContext, LoadContext, Active
  <2> QED
    BY <2>1, SwitchRuns DEF IInv, StartInv
<1>2. phase' = "running"
    BY <1>1 DEF SaveContext, vTaskSwitchContext, LoadContext
<1>3. ASSUME SaveContext PROVE ContextInv'
  <2> USE <1>3 DEF SaveContext
  <2>1. pc[PendSV] = "entry" /\ pc'[PendSV] = "saved" /\ Active' = Active /\ UNCHANGED current
    BY DEF Active, IInv, TypeOK
  <2>2. /\ psp = 2 /\ \A g \in {2, 3} : stacks[current][g] = <<current, g>>
        /\ regs[0] = <<current, 0>> /\ regs[1] = <<current, 1>> /\ current \in Threads
    BY <1>1, <2>1, FrameWords DEF ContextInv, Switched, IInv, TypeOK
  <2>3. stacks[current] \in [Groups -> Threads \X Groups]
    BY <2>2 DEF ContextInv
  <2>4. psp - 2 = 0 /\ 0 + 1 = 1
    BY <2>2
  <2>5. stacks' = [stacks EXCEPT ![current][0] = <<current, 0>>, ![current][1] = <<current, 1>>]
    <3> HIDE <1>3
    <3>1. stacks' = [stacks EXCEPT ![current][psp - 2] = regs[Low],
                                   ![current][psp - 2 + 1] = regs[High]]
      BY <1>3 DEF SaveContext
    <3> HIDE DEF SaveContext
    <3> QED
      BY <3>1, <2>2, <2>4, FrameWords
  <2> HIDE <1>3 DEF SaveContext
  <2>6. stacks \in [Threads -> [Groups -> Threads \X Groups]]
    BY DEF ContextInv
  <2>7. \A t \in Threads : t # current => stacks'[t] = stacks[t]
    BY <2>2, <2>5, <2>6
  <2>8. /\ stacks'[current] \in [Groups -> Threads \X Groups]
        /\ \A g \in Groups : stacks'[current][g] = <<current, g>>
    <3> DEFINE F == stacks[current]
               G == [[F EXCEPT ![0] = <<current, 0>>] EXCEPT ![1] = <<current, 1>>]
    <3>1. stacks'[current] = G
      BY <2>2, <2>5, <2>6, <2>3, FrameWords
    <3>2. F \in [Groups -> Threads \X Groups] /\ F[2] = <<current, 2>> /\ F[3] = <<current, 3>>
      BY <2>2, <2>3
    <3> HIDE DEF F
    <3>3. /\ G \in [Groups -> Threads \X Groups]
          /\ \A g \in Groups : G[g] = <<current, g>>
      BY <3>2, <2>2, FrameWords
    <3> QED
      BY <3>1, <3>3
  <2>9. stacks' \in [Threads -> [Groups -> Threads \X Groups]]
    <3>1. DOMAIN stacks' = Threads /\ stacks' = [t \in Threads |-> stacks'[t]]
      BY <2>5, <2>6
    <3>2. \A t \in Threads : stacks'[t] \in [Groups -> Threads \X Groups]
      BY <2>6, <2>7, <2>8
    <3> QED
      BY <3>1, <3>2
  <2>10. pxTopOfStack' \in [Threads -> {0}]
    BY <1>3, <2>2, <2>4 DEF ContextInv, SaveContext
  <2>11. \A t \in Tasks : HasFrame(t)'
    <3>1. \A t \in Tasks : t # current => HasFrame(t)'
      BY <2>1, <2>7, <2>10 DEF ContextInv, HasFrame
    <3>2. stacks'[current] = pxPortInitialiseStack(current)
      BY <2>8, FrameWords
    <3> QED
      BY <2>2, <2>10, <3>1, <3>2 DEF HasFrame
  <2> QED
    BY <1>1, <2>1, <2>9, <2>10, <2>11 DEF ContextInv, Switched
<1>4. ASSUME vTaskSwitchContext PROVE ContextInv'
  <2> USE <1>4 DEF vTaskSwitchContext
  <2>1. pc[PendSV] \in Switched /\ pc'[PendSV] \in Switched /\ Active' = Active
    BY DEF Active, Switched, IInv, TypeOK
  <2> QED
    BY <1>1, <2>1 DEF ContextInv, HasFrame, context
<1>5. ASSUME LoadContext PROVE ContextInv'
  <2> USE <1>5 DEF LoadContext
  <2>1. pc[PendSV] \in Switched /\ Active' = {} /\ current \in Tasks
    BY <1>1 DEF Active, Switched, IInv, TypeOK, StartInv
  <2>2. HasFrame(current)
    BY <2>1 DEF ContextInv
  <2>3. psp' = 4 /\ UNCHANGED <<current, stacks, pxTopOfStack>>
    BY <2>2 DEF HasFrame
  <2>4. regs' = pxPortInitialiseStack(current)
    BY <2>2, FrameWords DEF HasFrame
  <2> QED
    BY <2>1, <2>3, <2>4 DEF ContextInv, HasFrame
<1> QED
    BY <1>3, <1>4, <1>5

LEMMA NextContextInv == ASSUME IInv, ContextInv, [Next]_vars PROVE ContextInv'
<1>1. ASSUME UNCHANGED vars PROVE ContextInv'
    BY <1>1 DEF vars, build, context, ContextInv, HasFrame, Active
<1> QED
    BY <1>1, Context_Thread, Context_Start, Context_Take, Context_Handler, Context_Restore,
       Context_Switch DEF Next, HandlerStep

\* A task runs with its own registers, on its own stack, after any switches and
\* interrupts: what PendSV saves, and what pxPortInitialiseStack has written, is the
\* frame that PendSV and vPortStartFirstTask take off the stack.
THEOREM ContextRestored == Spec => []ContextOfCurrent
<1>1. Init => ContextInv
  <2> SUFFICES ASSUME Init PROVE ContextInv
      OBVIOUS
  <2>1. \A t \in Threads : pxPortInitialiseStack(t) \in [Groups -> Threads \X Groups]
      BY FrameWords
  <2>2. \A t \in Threads : HasFrame(t)
      BY DEF Init, HasFrame
  <2> QED
      BY <2>1, <2>2, Contexts DEF Init, ContextInv
<1>2. IInv /\ ContextInv /\ [Next]_vars => ContextInv'
    BY NextContextInv
<1>3. ContextInv => ContextOfCurrent
    BY DEF ContextInv, ContextOfCurrent
<1> QED
    BY <1>1, <1>2, <1>3, Invariance, PTL DEF Spec
===============================================================================
