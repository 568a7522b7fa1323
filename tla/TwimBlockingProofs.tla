------------------------- MODULE TwimBlockingProofs -------------------------
(***************************************************************************)
(* Proofs about TwimBlocking, for any set of tasks, any operations and any *)
(* refused bytes: when the callers make one call at a time, stop and       *)
(* restart follow a write without stop, and handle_error_event_ is not     *)
(* overtaken by a STOP condition, the blocking transfer gives its buffers  *)
(* back, returns its own status, has moved what it says and keeps the      *)
(* contract of an I2C master.                                              *)
(***************************************************************************)
EXTENDS TwimBlocking, TLAPS

LEMMA KindsOfOps == \A op \in Ops : OpKind[op] \in Kinds
BY OpsAssumption DEF OpKind, Kinds

\* What the kickoff of each kind waits for, asks for and moves.
LEMMA KindTypes ==
    \A k \in Kinds : /\ Completion(k) \in {"STOPPED", "SUSPENDED"}
                     /\ Completion(k) = "SUSPENDED" <=> k = "tx_no_stop"
                     /\ KickoffShortcuts[k] \subseteq Shortcuts
BY DEF Completion, KickoffShortcuts, Shortcuts, Kinds

LEMMA Directions ==
    /\ Moves["tx"] = {"tx"} /\ Moves["tx_no_stop"] = {"tx"}
    /\ Moves["rx"] = {"rx"} /\ Moves["txrx"] = {"tx", "rx"}
    /\ KickoffShortcuts["tx"] = {"LASTTX_STOP"}
    /\ KickoffShortcuts["tx_no_stop"] = {"LASTTX_SUSPEND"}
    /\ KickoffShortcuts["rx"] = {"LASTRX_STOP"}
    /\ KickoffShortcuts["txrx"] = {"LASTTX_STARTRX", "LASTRX_STOP"}
BY DEF Moves, KickoffShortcuts

LEMMA CarriedNone == \A c : Carried(c, {}) = {}
BY DEF Carried

LEMMA CarriedOne == \A c, d : Carried(c, {d}) = {<<d, c, c>>}
BY DEF Carried

LEMMA CarriedLast ==
    \A c, D : \A d \in D : Carried(c, D) = Carried(c, D \ {d}) \cup {<<d, c, c>>}
BY DEF Carried

\* Two tasks are never inside the driver at once.
LEMMA Alone ==
    ASSUME IInv, NEW c \in Tasks, pc[c] # "idle"
    PROVE  caller = c /\ ~Idle /\ \A d \in Tasks : d # c => pc[d] = "idle"
BY DEF IInv, OneCaller, Idle

\* The bus moves only while a transfer is in flight.
LEMMA BusyBus ==
    ASSUME IInv, engine \notin AtRest
    PROVE  \E c \in Tasks : pc[c] \in InFlight
BY DEF IInv, RestInv

-----------------------------------------------------------------------------
(* Every step preserves the invariant.                                     *)

\* A step that the transfer cannot see.
LEMMA Keeps_Unseen ==
    ASSUME IInv, UNCHANGED <<engine, events, shorts, errorsrc, target, local, history>>
    PROVE  IInv'
BY DEF IInv, TypeOK, OneCaller, RestInv, StartInv, TargetInv, EngineInv, ErrorInv, MovedInv,
   StatusIsOwn, OkMeansMoved, Idle, target, local, history

LEMMA Keeps_Configure ==
    ASSUME IInv, configure_i2c \/ SelectPins \/ enable \/ configure_default \/ baudrate_
    PROVE  IInv'
BY Keeps_Unseen DEF configure_i2c, SelectPins, enable, configure_default, baudrate_, twim

LEMMA Keeps_ClearEvents ==
    ASSUME Disciplined, IInv, NEW c \in Tasks, ClearEvents(c)
    PROVE  IInv'
<1> USE TaskAssumption, KindsOfOps, KindTypes, Directions
    DEF Goto, BeforeStart, InFlight, AtRest, Idle, Kinds, EngineStates, Events, IInv, TypeOK,
        OneCaller
<1> USE DEF ClearEvents, clear_events_, set_shortcuts_, target, history
<1>1. TypeOK'
    OBVIOUS
<1>2. OneCaller'
    OBVIOUS
<1>3. RestInv' /\ StartInv' /\ TargetInv'
    BY DEF RestInv, StartInv, TargetInv
<1>4. EngineInv' /\ ErrorInv' /\ MovedInv'
    BY Alone DEF EngineInv, ErrorInv, MovedInv
<1>5. StatusIsOwn' /\ OkMeansMoved'
    BY DEF StatusIsOwn, OkMeansMoved
<1> QED
    BY <1>1, <1>2, <1>3, <1>4, <1>5

LEMMA Keeps_Kickoff ==
    ASSUME Disciplined, IInv, NEW c \in Tasks, Kickoff(c)
    PROVE  IInv'
<1> USE TaskAssumption, KindsOfOps, KindTypes, Directions
    DEF Goto, BeforeStart, InFlight, AtRest, Idle, Kinds, EngineStates, Events, IInv, TypeOK,
        OneCaller
<1> USE DEF Kickoff, target, history
<1>0. /\ caller = c /\ \A d \in Tasks : pc'[d] # "idle" => d = c
      /\ kind[c] \in {"tx", "tx_no_stop", "rx", "txrx"}
      /\ engine' = IF kind[c] = "rx" THEN "rx" ELSE "tx"
      /\ errorsrc = {} /\ refused = {} /\ moved = {}
      /\ events \cap {"STOPPED", "ERROR", Completion(kind[c])} = {}
    BY Alone DEF RestInv, StartInv, StartTask, StartTx, StartRx, Resume
<1>1. TypeOK' /\ OneCaller'
    BY <1>0
<1>2. RestInv' /\ StartInv' /\ TargetInv'
    BY <1>0 DEF RestInv, StartInv, TargetInv
<1>3. EngineInv'
    BY <1>0 DEF EngineInv
<1>4. ErrorInv'
    BY <1>0 DEF ErrorInv
<1>5. kind[c] = "rx" => Carried(c, Moves[kind[c]] \ {"rx"}) = {}
  <2>1. Moves["rx"] \ {"rx"} = {}
    OBVIOUS
  <2> QED
    BY <2>1, CarriedNone
<1>6. MovedInv'
    BY <1>0, <1>5 DEF MovedInv
<1>7. StatusIsOwn' /\ OkMeansMoved'
    BY <1>0 DEF StatusIsOwn, OkMeansMoved
<1> QED
    BY <1>1, <1>2, <1>3, <1>4, <1>6, <1>7

LEMMA Keeps_LoadErrors ==
    ASSUME Disciplined, IInv, NEW c \in Tasks, LoadErrors(c)
    PROVE  IInv'
<1> USE TaskAssumption, KindsOfOps, KindTypes, Directions
    DEF Goto, BeforeStart, InFlight, AtRest, Idle, Kinds, EngineStates, Events, IInv, TypeOK,
        OneCaller
<1> USE DEF LoadErrors, twim, target, history
<1>1. TypeOK' /\ OneCaller'
    OBVIOUS
<1>2. RestInv' /\ StartInv' /\ TargetInv'
    BY DEF RestInv, StartInv, TargetInv
<1>3. EngineInv' /\ ErrorInv'
    BY DEF EngineInv, ErrorInv
<1>4. MovedInv'
  <2>1. \A d \in Tasks : pc'[d] \in InFlight <=> pc[d] \in InFlight
    OBVIOUS
  <2>2. MovedInv /\ UNCHANGED <<kind, engine, refused, moved>>
    OBVIOUS
  <2> QED
    BY <2>1, <2>2 DEF MovedInv
<1>5. StatusIsOwn' /\ OkMeansMoved'
    BY DEF StatusIsOwn, OkMeansMoved
<1> QED
    BY <1>1, <1>2, <1>3, <1>4, <1>5

LEMMA Keeps_ReturnStatus ==
    ASSUME Disciplined, IInv, NEW c \in Tasks, ReturnStatus(c)
    PROVE  IInv'
<1> USE TaskAssumption, KindsOfOps, KindTypes, Directions
    DEF Goto, BeforeStart, InFlight, AtRest, Idle, Kinds, EngineStates, Events, IInv, TypeOK,
        OneCaller
<1> USE DEF ReturnStatus, target
<1>0. \A d \in Tasks : pc'[d] = "idle"
    BY Alone
<1>1. errorsrc = refused /\ error[c] = refused /\ engine \in AtRest
    BY DEF ErrorInv, EngineInv
<1>2. Converted(refused) \in Statuses /\ (Converted(refused) = "ok" => refused = {})
    BY DEF Converted, Statuses, ErrorSources
<1>3. TypeOK'
    BY <1>1, <1>2
<1>4. OneCaller'
    BY <1>0
<1>5. RestInv' /\ StartInv' /\ TargetInv' /\ EngineInv' /\ ErrorInv' /\ MovedInv'
    BY <1>0, <1>1 DEF RestInv, StartInv, TargetInv, EngineInv, ErrorInv, MovedInv
<1>6. StatusIsOwn'
    BY <1>1 DEF StatusIsOwn
<1>7. OkMeansMoved'
  <2>1. refused = {} => moved = Carried(c, Moves[kind[c]])
    BY <1>1 DEF MovedInv
  <2>2. returned' = c /\ result'[c] = Converted(refused) /\ UNCHANGED <<kind, moved>>
    BY <1>1
  <2> QED
    BY <1>2, <2>1, <2>2 DEF OkMeansMoved
<1> QED
    BY <1>3, <1>4, <1>5, <1>6, <1>7

LEMMA Keeps_BusTxLast ==
    ASSUME Disciplined, IInv, BusTxLast
    PROVE  IInv'
<1> USE TaskAssumption, KindsOfOps, KindTypes, Directions
    DEF Goto, BeforeStart, InFlight, AtRest, Idle, Kinds, EngineStates, Events, IInv, TypeOK,
        OneCaller
<1> USE DEF BusTxLast, HwTxLast, target, local
<1>1. PICK c \in Tasks : pc[c] \in InFlight
    BY BusyBus
<1>2. \A d \in Tasks : d # c => pc[d] = "idle"
    BY <1>1, Alone
<1>3. /\ shorts = KickoffShortcuts[kind[c]] /\ kind[c] \in {"tx", "tx_no_stop", "txrx"}
      /\ TXD = c /\ ADDRESS = c /\ refused = {} /\ moved = {}
    BY <1>1 DEF TargetInv, EngineInv, MovedInv
<1>4. /\ kind[c] = "tx" => TxLastEngine = "stopping"
      /\ kind[c] = "tx_no_stop" => TxLastEngine = "suspended"
      /\ kind[c] = "txrx" => TxLastEngine = "rx"
    BY <1>3 DEF TxLastEngine
<1>5. TypeOK' /\ OneCaller'
    BY <1>1, <1>3, <1>4
<1>6. RestInv' /\ StartInv' /\ TargetInv'
    BY <1>1, <1>2 DEF RestInv, StartInv, TargetInv
<1>7. EngineInv' /\ ErrorInv'
    BY <1>1, <1>2, <1>3, <1>4 DEF EngineInv, ErrorInv
<1>8. moved' = Carried(c, {"tx"})
  <2>1. moved' = {<<"tx", c, c>>}
    BY <1>3
  <2> QED
    BY <2>1, CarriedOne
<1>9. MovedInv'
  <2>1. Moves[kind[c]] \ {"rx"} = {"tx"} /\ (engine' # "rx" => Moves[kind[c]] = {"tx"})
    BY <1>3, <1>4
  <2> QED
    BY <1>1, <1>2, <1>4, <1>8, <2>1 DEF MovedInv
<1>10. StatusIsOwn' /\ OkMeansMoved'
    BY <1>1 DEF StatusIsOwn, OkMeansMoved
<1> QED
    BY <1>5, <1>6, <1>7, <1>9, <1>10

LEMMA Keeps_BusRxLast ==
    ASSUME Disciplined, IInv, BusRxLast
    PROVE  IInv'
<1> USE TaskAssumption, KindsOfOps, KindTypes, Directions
    DEF Goto, BeforeStart, InFlight, AtRest, Idle, Kinds, EngineStates, Events, IInv, TypeOK,
        OneCaller
<1> USE DEF BusRxLast, HwRxLast, target, local
<1>1. PICK c \in Tasks : pc[c] \in InFlight
    BY BusyBus
<1>2. \A d \in Tasks : d # c => pc[d] = "idle"
    BY <1>1, Alone
<1>3. /\ shorts = KickoffShortcuts[kind[c]] /\ kind[c] \in {"rx", "txrx"}
      /\ RXD = c /\ ADDRESS = c /\ engine' = "stopping"
    BY <1>1 DEF TargetInv, EngineInv
<1>4. TypeOK' /\ OneCaller'
    BY <1>1, <1>3
<1>5. RestInv' /\ StartInv' /\ TargetInv'
    BY <1>1, <1>2 DEF RestInv, StartInv, TargetInv
<1>6. EngineInv' /\ ErrorInv'
    BY <1>1, <1>2, <1>3 DEF EngineInv, ErrorInv
<1>7. MovedInv'
  <2>1. "rx" \in Moves[kind[c]]
    BY <1>3
  <2>2. refused = {} => moved' = Carried(c, Moves[kind[c]])
    <3>1. refused = {} => moved' = Carried(c, Moves[kind[c]] \ {"rx"}) \cup {<<"rx", c, c>>}
      BY <1>1, <1>3 DEF MovedInv
    <3> QED
      BY <2>1, <3>1, CarriedLast
  <2> QED
    BY <1>1, <1>2, <1>3, <2>2 DEF MovedInv
<1>8. StatusIsOwn' /\ OkMeansMoved'
    BY <1>1 DEF StatusIsOwn, OkMeansMoved
<1> QED
    BY <1>4, <1>5, <1>6, <1>7, <1>8


LEMMA Keeps_disable ==
    ASSUME Disciplined, IInv, disable
    PROVE  IInv'
<1> USE TaskAssumption, KindsOfOps, KindTypes, Directions
    DEF Goto, BeforeStart, InFlight, AtRest, Idle, Kinds, EngineStates, Events, IInv, TypeOK,
        OneCaller
<1> USE DEF Disciplined, disable, interrupts_disable_, disable_shortcuts_, target, local, history
<1>1. TypeOK' /\ OneCaller'
    BY DEF ErrorSources, Shortcuts
<1>2. RestInv' /\ StartInv' /\ TargetInv'
    BY DEF RestInv, StartInv, TargetInv, ErrorInv, EngineInv
<1>3. EngineInv' /\ ErrorInv'
    BY DEF RestInv, StartInv, TargetInv, EngineInv, ErrorInv, ErrorSources
<1>4. MovedInv'
    BY DEF StartInv, TargetInv, EngineInv, ErrorInv, MovedInv
<1>5. StatusIsOwn' /\ OkMeansMoved'
    BY DEF RestInv, StatusIsOwn, OkMeansMoved
<1> QED
    BY <1>1, <1>2, <1>3, <1>4, <1>5

LEMMA Keeps_Transfer ==
    ASSUME Disciplined, IInv, NEW c \in Tasks, Transfer(c)
    PROVE  IInv'
<1> USE TaskAssumption, KindsOfOps, KindTypes, Directions
    DEF Goto, BeforeStart, InFlight, AtRest, Idle, Kinds, EngineStates, Events, IInv, TypeOK,
        OneCaller
<1> USE DEF Disciplined, Transfer, MayCall, set_transfer_address, twim, nvic
<1>1. TypeOK' /\ OneCaller'
    BY DEF ErrorSources, Shortcuts
<1>2. RestInv' /\ StartInv' /\ TargetInv'
    BY DEF RestInv, StartInv, TargetInv, ErrorInv, EngineInv
<1>3. EngineInv' /\ ErrorInv'
    BY DEF RestInv, StartInv, TargetInv, EngineInv, ErrorInv, ErrorSources
<1>4. MovedInv'
    BY DEF StartInv, TargetInv, EngineInv, ErrorInv, MovedInv
<1>5. StatusIsOwn' /\ OkMeansMoved'
    BY DEF RestInv, StatusIsOwn, OkMeansMoved
<1> QED
    BY <1>1, <1>2, <1>3, <1>4, <1>5

LEMMA Keeps_StopCondition ==
    ASSUME Disciplined, IInv, NEW c \in Tasks, StopCondition(c)
    PROVE  IInv'
<1> USE TaskAssumption, KindsOfOps, KindTypes, Directions
    DEF Goto, BeforeStart, InFlight, AtRest, Idle, Kinds, EngineStates, Events, IInv, TypeOK,
        OneCaller
<1> USE DEF Disciplined, StopCondition, MayCall, set_transfer_address, Stop, local, history
<1>1. TypeOK' /\ OneCaller'
    BY DEF ErrorSources, Shortcuts
<1>2. RestInv' /\ StartInv' /\ TargetInv'
    BY DEF RestInv, StartInv, TargetInv, ErrorInv, EngineInv
<1>3. EngineInv' /\ ErrorInv'
    BY DEF RestInv, StartInv, TargetInv, EngineInv, ErrorInv, ErrorSources
<1>4. MovedInv'
    BY DEF StartInv, TargetInv, EngineInv, ErrorInv, MovedInv
<1>5. StatusIsOwn' /\ OkMeansMoved'
    BY DEF RestInv, StatusIsOwn, OkMeansMoved
<1> QED
    BY <1>1, <1>2, <1>3, <1>4, <1>5

LEMMA Keeps_LoadBuffers ==
    ASSUME Disciplined, IInv, NEW c \in Tasks, LoadBuffers(c)
    PROVE  IInv'
<1> USE TaskAssumption, KindsOfOps, KindTypes, Directions
    DEF Goto, BeforeStart, InFlight, AtRest, Idle, Kinds, EngineStates, Events, IInv, TypeOK,
        OneCaller
<1> USE DEF Disciplined, LoadBuffers, set_tx_buffer_, set_rx_buffer_, twim, history
<1>1. TypeOK' /\ OneCaller'
    BY DEF ErrorSources, Shortcuts
<1>2. RestInv' /\ StartInv' /\ TargetInv'
    BY DEF RestInv, StartInv, TargetInv, ErrorInv, EngineInv
<1>3. EngineInv' /\ ErrorInv'
    BY DEF RestInv, StartInv, TargetInv, EngineInv, ErrorInv, ErrorSources
<1>4. MovedInv'
    BY DEF StartInv, TargetInv, EngineInv, ErrorInv, MovedInv
<1>5. StatusIsOwn' /\ OkMeansMoved'
    BY DEF RestInv, StatusIsOwn, OkMeansMoved
<1> QED
    BY <1>1, <1>2, <1>3, <1>4, <1>5

LEMMA Keeps_CheckExit ==
    ASSUME Disciplined, IInv, NEW c \in Tasks, CheckExit(c)
    PROVE  IInv'
<1> USE TaskAssumption, KindsOfOps, KindTypes, Directions
    DEF Goto, BeforeStart, InFlight, AtRest, Idle, Kinds, EngineStates, Events, IInv, TypeOK,
        OneCaller
<1> USE DEF Disciplined, CheckExit, check_event_, twim, target, history
<1>1. TypeOK' /\ OneCaller'
    BY DEF ErrorSources, Shortcuts
<1>2. RestInv' /\ StartInv' /\ TargetInv'
    BY DEF RestInv, StartInv, TargetInv, ErrorInv, EngineInv
<1>3. EngineInv' /\ ErrorInv'
    BY DEF RestInv, StartInv, TargetInv, EngineInv, ErrorInv, ErrorSources
<1>4. MovedInv'
    BY DEF StartInv, TargetInv, EngineInv, ErrorInv, MovedInv
<1>5. StatusIsOwn' /\ OkMeansMoved'
    BY DEF RestInv, StatusIsOwn, OkMeansMoved
<1> QED
    BY <1>1, <1>2, <1>3, <1>4, <1>5

LEMMA Keeps_CheckNoError ==
    ASSUME Disciplined, IInv, NEW c \in Tasks, CheckNoError(c)
    PROVE  IInv'
<1> USE TaskAssumption, KindsOfOps, KindTypes, Directions
    DEF Goto, BeforeStart, InFlight, AtRest, Idle, Kinds, EngineStates, Events, IInv, TypeOK,
        OneCaller
<1> USE DEF Disciplined, CheckNoError, check_event_, twim, target, history
<1>1. TypeOK' /\ OneCaller'
    BY DEF ErrorSources, Shortcuts
<1>2. RestInv' /\ StartInv' /\ TargetInv'
    BY DEF RestInv, StartInv, TargetInv, ErrorInv, EngineInv
<1>3. EngineInv' /\ ErrorInv'
    BY DEF RestInv, StartInv, TargetInv, EngineInv, ErrorInv, ErrorSources
<1>4. MovedInv'
  <2>1. \A d \in Tasks : pc'[d] \in InFlight <=> pc[d] \in InFlight
    OBVIOUS
  <2>2. MovedInv /\ UNCHANGED <<kind, engine, refused, moved>>
    OBVIOUS
  <2> QED
    BY <2>1, <2>2 DEF MovedInv
<1>5. StatusIsOwn' /\ OkMeansMoved'
    BY DEF RestInv, StatusIsOwn, OkMeansMoved
<1> QED
    BY <1>1, <1>2, <1>3, <1>4, <1>5

LEMMA Keeps_HandleError ==
    ASSUME Disciplined, IInv, NEW c \in Tasks, HandleError(c)
    PROVE  IInv'
<1> USE TaskAssumption, KindsOfOps, KindTypes, Directions
    DEF Goto, BeforeStart, InFlight, AtRest, Idle, Kinds, EngineStates, Events, IInv, TypeOK,
        OneCaller
<1> USE DEF Disciplined, HandleError, check_event_, clear_events_, target, history
<1>1. TypeOK' /\ OneCaller'
    BY DEF ErrorSources, Shortcuts
<1>2. RestInv' /\ StartInv' /\ TargetInv'
    BY DEF RestInv, StartInv, TargetInv, ErrorInv, EngineInv
<1>3. EngineInv' /\ ErrorInv'
    BY DEF RestInv, StartInv, TargetInv, EngineInv, ErrorInv, ErrorSources
<1>4. MovedInv'
    BY DEF StartInv, TargetInv, EngineInv, ErrorInv, MovedInv
<1>5. StatusIsOwn' /\ OkMeansMoved'
    BY DEF RestInv, StatusIsOwn, OkMeansMoved
<1> QED
    BY <1>1, <1>2, <1>3, <1>4, <1>5

LEMMA Keeps_HaltTransfer ==
    ASSUME Disciplined, IInv, NEW c \in Tasks, HaltTransfer(c)
    PROVE  IInv'
<1> USE TaskAssumption, KindsOfOps, KindTypes, Directions
    DEF Goto, BeforeStart, InFlight, AtRest, Idle, Kinds, EngineStates, Events, IInv, TypeOK,
        OneCaller
<1> USE DEF Disciplined, HaltTransfer, Stop, Resume, target, history
<1>1. TypeOK' /\ OneCaller'
    BY DEF ErrorSources, Shortcuts
<1>2. RestInv' /\ StartInv' /\ TargetInv'
    BY DEF RestInv, StartInv, TargetInv, ErrorInv, EngineInv
<1>3. EngineInv' /\ ErrorInv'
    BY DEF RestInv, StartInv, TargetInv, EngineInv, ErrorInv, ErrorSources
<1>4. MovedInv'
    BY DEF StartInv, TargetInv, EngineInv, ErrorInv, MovedInv
<1>5. StatusIsOwn' /\ OkMeansMoved'
    BY DEF RestInv, StatusIsOwn, OkMeansMoved
<1> QED
    BY <1>1, <1>2, <1>3, <1>4, <1>5

LEMMA Keeps_BusNack ==
    ASSUME Disciplined, IInv, BusNack
    PROVE  IInv'
<1> USE TaskAssumption, KindsOfOps, KindTypes, Directions
    DEF Goto, BeforeStart, InFlight, AtRest, Idle, Kinds, EngineStates, Events, IInv, TypeOK,
        OneCaller
<1> USE DEF Disciplined, BusNack, HwNack, target, local
<1>1. TypeOK' /\ OneCaller'
    BY DEF ErrorSources, Shortcuts
<1>2. RestInv' /\ StartInv' /\ TargetInv'
    BY DEF RestInv, StartInv, TargetInv, ErrorInv, EngineInv
<1>3. EngineInv' /\ ErrorInv'
    BY DEF RestInv, StartInv, TargetInv, EngineInv, ErrorInv, ErrorSources
<1>4. MovedInv'
    BY DEF StartInv, TargetInv, EngineInv, ErrorInv, MovedInv
<1>5. StatusIsOwn' /\ OkMeansMoved'
    BY DEF RestInv, StatusIsOwn, OkMeansMoved
<1> QED
    BY <1>1, <1>2, <1>3, <1>4, <1>5

LEMMA Keeps_BusTxLastNack ==
    ASSUME Disciplined, IInv, BusTxLastNack
    PROVE  IInv'
<1> USE TaskAssumption, KindsOfOps, KindTypes, Directions
    DEF Goto, BeforeStart, InFlight, AtRest, Idle, Kinds, EngineStates, Events, IInv, TypeOK,
        OneCaller
<1> USE DEF Disciplined, BusTxLastNack, HwTxLast, TxLastEngine, target, local
<1>1. TypeOK' /\ OneCaller'
    BY DEF ErrorSources, Shortcuts
<1>2. RestInv' /\ StartInv' /\ TargetInv'
    BY DEF RestInv, StartInv, TargetInv, ErrorInv, EngineInv
<1>3. EngineInv' /\ ErrorInv'
    BY DEF RestInv, StartInv, TargetInv, EngineInv, ErrorInv, ErrorSources
<1>4. MovedInv'
    BY DEF StartInv, TargetInv, EngineInv, ErrorInv, MovedInv
<1>5. StatusIsOwn' /\ OkMeansMoved'
    BY DEF RestInv, StatusIsOwn, OkMeansMoved
<1> QED
    BY <1>1, <1>2, <1>3, <1>4, <1>5

LEMMA Keeps_BusStopped ==
    ASSUME Disciplined, IInv, BusStopped
    PROVE  IInv'
<1> USE TaskAssumption, KindsOfOps, KindTypes, Directions
    DEF Goto, BeforeStart, InFlight, AtRest, Idle, Kinds, EngineStates, Events, IInv, TypeOK,
        OneCaller
<1> USE DEF Disciplined, BusStopped, HwStopped, target, local, history
<1>1. TypeOK' /\ OneCaller'
    BY DEF ErrorSources, Shortcuts
<1>2. RestInv' /\ StartInv' /\ TargetInv'
    BY DEF RestInv, StartInv, TargetInv, ErrorInv, EngineInv
<1>3. EngineInv' /\ ErrorInv'
    BY DEF RestInv, StartInv, TargetInv, EngineInv, ErrorInv, ErrorSources
<1>4. MovedInv'
    BY DEF StartInv, TargetInv, EngineInv, ErrorInv, MovedInv
<1>5. StatusIsOwn' /\ OkMeansMoved'
    BY DEF RestInv, StatusIsOwn, OkMeansMoved
<1> QED
    BY <1>1, <1>2, <1>3, <1>4, <1>5

-----------------------------------------------------------------------------
(* The invariant holds in every state.                                     *)

LEMMA InitIInv == Init => IInv
BY TaskAssumption
   DEF Init, PeripheralInit, IInv, TypeOK, OneCaller, RestInv, StartInv, TargetInv, EngineInv,
       ErrorInv, MovedInv, StatusIsOwn, OkMeansMoved, EngineStates, AtRest, BeforeStart,
       InFlight, Events, Kinds, Statuses

LEMMA StepIInv == Disciplined /\ IInv /\ [Next]_vars => IInv'
<1> SUFFICES ASSUME Disciplined, IInv, [Next]_vars PROVE IInv'
    OBVIOUS
<1>1. ASSUME NEW c \in Tasks, Transfer(c) \/ StopCondition(c) PROVE IInv'
    BY <1>1, Keeps_Transfer, Keeps_StopCondition
<1>2. ASSUME NEW c \in Tasks, TransferStep(c) PROVE IInv'
    BY <1>2, Keeps_LoadBuffers, Keeps_ClearEvents, Keeps_Kickoff, Keeps_CheckExit,
       Keeps_CheckNoError, Keeps_HandleError, Keeps_HaltTransfer, Keeps_LoadErrors,
       Keeps_ReturnStatus DEF TransferStep
<1>3. ASSUME BusMoves \/ BusStopped PROVE IInv'
    BY <1>3, Keeps_BusNack, Keeps_BusTxLast, Keeps_BusTxLastNack, Keeps_BusRxLast,
       Keeps_BusStopped DEF BusMoves
<1>4. CASE UNCHANGED vars
    BY <1>4, Keeps_Unseen DEF vars, twim
<1> QED
    BY <1>1, <1>2, <1>3, <1>4, Keeps_Configure, Keeps_disable DEF Next

\* The inductive invariant holds of a driver that one caller at a time uses
\* (nrf52_i2c_master.hpp: transfer() of the blocking variant, start_ and stop_).
THEOREM Invariance == Disciplined => (Spec => []IInv)
<1> SUFFICES ASSUME Disciplined PROVE Spec => []IInv
    OBVIOUS
<1>1. IInv /\ [Next]_vars => IInv'
    BY StepIInv
<1> QED
    BY <1>1, InitIInv, PTL DEF Spec

\* When transfer() has returned, or has not yet started anything, EasyDMA has
\* nobody's buffer (nrf52_i2c_master.hpp: the buffers are the caller's op_t).
THEOREM BuffersReturned == Disciplined => (Spec => []BufferReleased)
<1>1. IInv => BufferReleased
    BY DEF IInv, BufferReleased, RestInv, EngineInv, InFlight, TypeOK, BeforeStart
<1> QED
    BY <1>1, Invariance, PTL

\* transfer() returns what the slave did to this very transfer, neither an error
\* of an earlier one nor one error less, whichever event the poll saw first.
THEOREM OwnStatus == Disciplined => (Spec => []StatusIsOwn)
<1>1. IInv => StatusIsOwn
    BY DEF IInv
<1> QED
    BY <1>1, Invariance, PTL

\* When transfer() returns status::ok, all bytes have gone over the bus, between
\* the addressed slave and the buffers that this call has named.
THEOREM OkTransfersMoved == Disciplined => (Spec => []OkMeansMoved)
<1>1. IInv => OkMeansMoved
    BY DEF IInv
<1> QED
    BY <1>1, Invariance, PTL

-----------------------------------------------------------------------------
(* The contract of an I2C master.                                          *)

LEMMA InitContract == Init => Contract!Init
BY DEF Init, Contract!Init, Phase

LEMMA StepContract == Disciplined /\ IInv /\ [Next]_vars => [Contract!Next]_Contract!vars
<1> SUFFICES ASSUME Disciplined, IInv, [Next]_vars PROVE [Contract!Next]_Contract!vars
    OBVIOUS
<1> USE TaskAssumption
    DEF Goto, BeforeStart, InFlight, AtRest, Idle, IInv, TypeOK, OneCaller, Phase, Contract!vars
<1>1. ASSUME NEW c \in Tasks, Transfer(c) PROVE Contract!Accept(c)
    BY <1>1 DEF Disciplined, Transfer, MayCall, Contract!Accept
<1>2. ASSUME NEW c \in Tasks, StopCondition(c) PROVE UNCHANGED Contract!vars
    BY <1>2 DEF Disciplined, StopCondition, MayCall, local, history
<1>3. ASSUME NEW c \in Tasks, LoadBuffers(c) \/ ClearEvents(c) PROVE UNCHANGED Contract!vars
    BY <1>3, Alone DEF LoadBuffers, ClearEvents, history
<1>4. ASSUME NEW c \in Tasks, Kickoff(c) PROVE Contract!Move
    BY <1>4, Alone DEF Kickoff, history, Contract!Move
<1>5. ASSUME NEW c \in Tasks, CheckExit(c) PROVE Contract!Settle \/ UNCHANGED Contract!vars
    BY <1>5, Alone DEF CheckExit, check_event_, EngineInv, twim, history, Contract!Settle
<1>6. ASSUME NEW c \in Tasks, CheckNoError(c) \/ HandleError(c) \/ HaltTransfer(c)
      PROVE  UNCHANGED Contract!vars
    BY <1>6, Alone DEF CheckNoError, HandleError, HaltTransfer, history
<1>7. ASSUME NEW c \in Tasks, LoadErrors(c) PROVE UNCHANGED Contract!vars
    BY <1>7, Alone DEF LoadErrors, twim, history
<1>8. ASSUME NEW c \in Tasks, ReturnStatus(c) PROVE Contract!Complete
    BY <1>8, Alone DEF ReturnStatus, EngineInv, Contract!Complete
<1>9. ASSUME BusMoves \/ BusStopped PROVE UNCHANGED Contract!vars
  <2>1. engine \notin AtRest /\ UNCHANGED <<local, caller, returned>>
    BY <1>9 DEF BusMoves, BusNack, HwNack, BusTxLast, BusTxLastNack, HwTxLast, BusRxLast,
       HwRxLast, BusStopped, HwStopped, history
  <2>2. PICK c \in Tasks : pc[c] \in {"poll", "check", "halt"}
    BY <2>1, BusyBus DEF EngineInv
  <2> QED
    BY <2>1, <2>2 DEF local
<1>10. ASSUME disable PROVE UNCHANGED Contract!vars
    BY <1>10 DEF disable, local, history
<1>11. ASSUME configure_i2c \/ SelectPins \/ enable \/ configure_default \/ baudrate_
       PROVE  UNCHANGED Contract!vars
    BY <1>11 DEF configure_i2c, SelectPins, enable, configure_default, baudrate_, twim, local,
       history
<1>12. CASE UNCHANGED vars
    BY <1>12 DEF vars, twim, local, history
<1> QED
    BY <1>1, <1>2, <1>3, <1>4, <1>5, <1>6, <1>7, <1>8, <1>9, <1>10, <1>11, <1>12
    DEF Next, TransferStep, Contract!Next

\* The blocking driver keeps the contract of an I2C master: one transfer at a time,
\* which moves its data, ends on the bus and only then returns to its own caller.
THEOREM KeepsContract == Disciplined => (Spec => ContractSpec)
<1> SUFFICES ASSUME Disciplined PROVE Spec => ContractSpec
    OBVIOUS
<1>1. IInv /\ [Next]_vars => [Contract!Next]_Contract!vars
    BY StepContract
<1> QED
    BY <1>1, InitContract, Invariance, PTL DEF Spec, ContractSpec, Contract!Spec

-----------------------------------------------------------------------------
(* start_() and stop_(), whatever the callers do.                          *)

LEMMA StepPowerInv == PowerInv /\ [Next]_vars => PowerInv'
<1> SUFFICES ASSUME PowerInv, [Next]_vars PROVE PowerInv'
    OBVIOUS
<1> USE DEF PowerInv
<1>1. ASSUME configure_i2c \/ SelectPins \/ enable \/ disable \/ configure_default \/ baudrate_
      PROVE  PowerInv'
    BY <1>1 DEF configure_i2c, SelectPins, enable, disable, configure_default, baudrate_, twim
<1>2. ASSUME NEW c \in Tasks, Transfer(c) \/ StopCondition(c) PROVE PowerInv'
    BY <1>2 DEF Transfer, StopCondition, twim, board
<1>3. ASSUME NEW c \in Tasks, TransferStep(c) PROVE PowerInv'
    BY <1>3 DEF TransferStep, LoadBuffers, ClearEvents, Kickoff, CheckExit, CheckNoError,
       HandleError, HaltTransfer, LoadErrors, ReturnStatus, twim, board
<1>4. ASSUME BusMoves \/ BusStopped PROVE PowerInv'
    BY <1>4 DEF BusMoves, BusNack, HwNack, BusTxLast, BusTxLastNack, HwTxLast, BusRxLast,
       HwRxLast, BusStopped, HwStopped, board
<1>5. CASE UNCHANGED vars
    BY <1>5 DEF vars, twim, board
<1> QED
    BY <1>1, <1>2, <1>3, <1>4, <1>5 DEF Next

\* "these pins must be configured" (nrf52_i2c_master.hpp:46-49): start_() and stop_()
\* never leave the master enabled on pins that are not its own, whatever the callers
\* and the bus do meanwhile.
THEOREM PinsWhileEnabled == Spec => []EnabledOnItsPins
<1>1. Init => PowerInv
    BY DEF Init, PeripheralInit, PowerInv
<1>2. PowerInv => EnabledOnItsPins
    BY DEF PowerInv, EnabledOnItsPins
<1> QED
    BY <1>1, <1>2, StepPowerInv, PTL DEF Spec
=============================================================================
