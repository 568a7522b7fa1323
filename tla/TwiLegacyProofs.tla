--------------------------- MODULE TwiLegacyProofs ---------------------------
(***************************************************************************)
(* Proofs about TwiLegacy, for buffers of any length.                      *)
(***************************************************************************)
EXTENDS TwiLegacy, TLAPS

-----------------------------------------------------------------------------
(* The bytes on the wire.                                                  *)

LEMMA UptoLen ==
    ASSUME NEW n \in Nat
    PROVE  Upto(n) \in Seq(Nat) /\ Len(Upto(n)) = n
BY DEF Upto

LEMMA UptoFirst == <<>> = Upto(0) /\ <<1>> = Upto(1) /\ Len(<<>>) = 0 /\ Len(<<1>>) = 1
<1>1. <<>> = Upto(0) /\ Len(<<>>) = 0
    BY DEF Upto
<1>2. <<1>> = Upto(1) /\ Len(<<1>>) = 1
    BY DEF Upto
<1> QED
    BY <1>1, <1>2

LEMMA UptoAppend ==
    ASSUME NEW n \in Nat
    PROVE  Append(Upto(n), n + 1) = Upto(n + 1) /\ Len(Append(Upto(n), n + 1)) = n + 1
<1>1. Upto(n) \in Seq(Nat) /\ Len(Upto(n)) = n /\ n + 1 \in Nat
    BY UptoLen
<1>2. Append(Upto(n), n + 1) = Upto(n + 1)
    BY <1>1 DEF Upto
<1> QED
    BY <1>1, <1>2, UptoLen

LEMMA Bounds == /\ SizeMax \in Nat /\ \A n \in Lengths : n \in Nat \ {0}
                /\ \A n \in Nat : Wrap(n) \in Nat
BY LengthsAssumption DEF Wrap

-----------------------------------------------------------------------------
(* Whatever the bus does: types, pins and requests.                        *)

LEMMA StepBase ==
    ASSUME Paced, BaseInv, Step
    PROVE  BaseInv'
<1> USE DEF BaseInv, TypeOK, PowerInv, RequestInv, twi, board, call, local, history
<1>1. CASE StopCondition
    BY <1>1 DEF StopCondition, Goto, TaskStop, Resting, Unpowered
<1>2. CASE ClearTx
    BY <1>2 DEF ClearTx, Goto, clear_events_, set_shortcuts_, check_event_, TxPcs, Unpowered
<1>3. CASE ResumeTx
    BY <1>3 DEF ResumeTx, Goto, TaskResume, TxPcs, Unpowered
<1>4. CASE StartTx
    BY <1>4 DEF StartTx, Goto, TaskStart, TxPcs, TxLoopPcs, Unpowered
<1>5. CASE LoadFirst
    BY <1>5 DEF LoadFirst, Goto, set_tx_byte_, TxPcs, TxLoopPcs, Unpowered
<1>6. CASE TxError
    BY <1>6 DEF TxError, Goto, check_event_, clear_events_, TaskStop, TxPcs, TxLoopPcs,
       Unpowered
<1>7. CASE TxNoError
    BY <1>7 DEF TxNoError, Goto, check_event_, TxPcs, TxLoopPcs, Unpowered
<1>8. CASE NotSent
    BY <1>8 DEF NotSent, Goto, check_event_, TxLoop, TxPcs, TxLoopPcs, Unpowered
<1>9. CASE LoadNext
    BY <1>9 DEF LoadNext, Goto, check_event_, set_tx_byte_, TxPcs, TxLoopPcs, Unpowered
<1>10. CASE ClearSent
    BY <1>10 DEF ClearSent, Goto, clear_events_, TxLoop, TxPcs, TxLoopPcs, Unpowered
<1>11. CASE EndTx
    BY <1>11 DEF EndTx, Goto, TaskStop, TaskSuspend, Resting, Unpowered
<1>12. CASE ClearRx
    BY <1>12 DEF ClearRx, Goto, clear_events_, set_shortcuts_, RxPcs, Shortcuts, Unpowered
<1>13. CASE ResumeRx
    BY <1>13 DEF ResumeRx, Goto, TaskResume, RxPcs, Unpowered
<1>14. CASE StartRx
    BY <1>14 DEF StartRx, Goto, TaskStart, RxPcs, RxLoopPcs, Unpowered
<1>15. CASE RxError
    BY <1>15 DEF RxError, Goto, check_event_, clear_events_, TaskStop, RxPcs, RxLoopPcs,
       Unpowered
<1>16. CASE RxNoError
    BY <1>16 DEF RxNoError, Goto, check_event_, RxPcs, RxLoopPcs, Unpowered
<1>17. CASE NotReady
    BY <1>17 DEF NotReady, Goto, check_event_, RxPcs, RxLoopPcs, Unpowered
<1>18. CASE ReadByte
    BY <1>18 DEF ReadByte, Goto, check_event_, set_shortcuts_, get_rx_byte_, RxPcs, RxLoopPcs,
       Shortcuts, Unpowered
<1>19. CASE ReadyNext
    BY <1>19 DEF ReadyNext, Goto, clear_events_, TaskResume, RxPcs, RxLoopPcs, Unpowered
<1>20. CASE EndRx
    BY <1>20 DEF EndRx, Goto, TaskStop, Resting, Unpowered
<1> QED
    BY <1>1, <1>2, <1>3, <1>4, <1>5, <1>6, <1>7, <1>8, <1>9, <1>10, <1>11, <1>12, <1>13,
       <1>14, <1>15, <1>16, <1>17, <1>18, <1>19, <1>20 DEF Step

LEMMA BusBase ==
    ASSUME Paced, BaseInv, BusMoves
    PROVE  BaseInv'
<1> USE DEF BaseInv, TypeOK, PowerInv, RequestInv, twi, board, call, local, history
<1>a. early' \in BOOLEAN
    BY DEF BusMoves
<1>1. CASE BusAddress
    BY <1>a, <1>1 DEF BusAddress
<1>2. CASE BusNack
    BY <1>a, <1>2 DEF BusNack, Events
<1>3. CASE BusSend
    BY <1>a, <1>3 DEF BusSend, AtBoundary, Events
<1>4. CASE BusReceive
    BY <1>a, <1>4 DEF BusReceive, AtBoundary, Events
<1>5. CASE BusStopped
    BY <1>a, <1>5 DEF BusStopped, Events
<1> QED
    BY <1>1, <1>2, <1>3, <1>4, <1>5 DEF BusMoves

LEMMA OtherBase ==
    ASSUME Paced, BaseInv, \/ configure_i2c \/ SelectPins \/ enable \/ disable
                           \/ configure_default \/ baudrate_ \/ Transfer
    PROVE  BaseInv'
<1> USE DEF BaseInv, TypeOK, PowerInv, RequestInv, twi, board, call, local, history
<1>1. CASE configure_i2c
    BY <1>1 DEF configure_i2c, Goto, Resting, Unpowered
<1>2. CASE SelectPins
    BY <1>2 DEF SelectPins, Goto, Resting, Unpowered
<1>3. CASE enable
    BY <1>3 DEF enable, Goto, Resting, Unpowered
<1>4. CASE disable
    BY <1>4 DEF disable, MayCall, disable_shortcuts_, Resting, Unpowered
<1>5. CASE configure_default
    BY <1>5 DEF configure_default, Goto, Resting, Unpowered
<1>6. CASE baudrate_
    BY <1>6 DEF baudrate_, setFrequency
<1>7. CASE Transfer
    BY <1>7, Bounds DEF Transfer, MayCall, TxPcs, RxPcs, Unpowered, Ops, NoData
<1> QED
    BY <1>1, <1>2, <1>3, <1>4, <1>5, <1>6, <1>7

-----------------------------------------------------------------------------
(* The steps of a call whose bus was still between RESUME and START.       *)

LEMMA Keeps_configure_i2c ==
    ASSUME Paced, BaseInv, OrderInv, configure_i2c
    PROVE  OrderInv'
<1> USE DEF configure_i2c, Goto, twi, board, call, local, history, BaseInv, OrderInv
<1>1. WireInv'
    BY DEF WireInv
<1>3. CallInv'
    BY DEF CallInv, Resting, Unpowered, TxPcs, TxLoopPcs, RxPcs, RxLoopPcs
<1>4. WriteInv'
    BY DEF WriteInv, Reach, Resting, Unpowered, TxLoopPcs
<1>5. ReadInv'
    BY DEF ReadInv, Resting, Unpowered, RxLoopPcs
<1> QED
    BY <1>1, <1>3, <1>4, <1>5

LEMMA Keeps_SelectPins ==
    ASSUME Paced, BaseInv, OrderInv, SelectPins
    PROVE  OrderInv'
<1> USE DEF SelectPins, Goto, twi, board, call, local, history, BaseInv, OrderInv
<1>1. WireInv'
    BY DEF WireInv
<1>3. CallInv'
    BY DEF CallInv, Resting, Unpowered, TxPcs, TxLoopPcs, RxPcs, RxLoopPcs
<1>4. WriteInv'
    BY DEF WriteInv, Reach, Resting, Unpowered, TxLoopPcs
<1>5. ReadInv'
    BY DEF ReadInv, Resting, Unpowered, RxLoopPcs
<1> QED
    BY <1>1, <1>3, <1>4, <1>5

LEMMA Keeps_enable ==
    ASSUME Paced, BaseInv, OrderInv, enable
    PROVE  OrderInv'
<1> USE DEF enable, Goto, twi, board, call, local, history, BaseInv, OrderInv
<1>1. WireInv'
    BY DEF WireInv
<1>3. CallInv'
    BY DEF CallInv, Resting, Unpowered, TxPcs, TxLoopPcs, RxPcs, RxLoopPcs
<1>4. WriteInv'
    BY DEF WriteInv, Reach, Resting, Unpowered, TxLoopPcs
<1>5. ReadInv'
    BY DEF ReadInv, Resting, Unpowered, RxLoopPcs
<1> QED
    BY <1>1, <1>3, <1>4, <1>5

LEMMA Keeps_disable ==
    ASSUME Paced, BaseInv, OrderInv, disable
    PROVE  OrderInv'
<1> USE DEF disable, MayCall, disable_shortcuts_, twi, board, call, local, history, BaseInv, OrderInv
<1>1. WireInv'
    BY DEF WireInv
<1>3. CallInv'
    BY DEF CallInv, TxPcs, TxLoopPcs, RxPcs, RxLoopPcs, Settled
<1>4. WriteInv'
    BY DEF WriteInv, Reach, Resting, Unpowered, TxLoopPcs, Settled
<1>5. ReadInv'
    BY DEF ReadInv, Resting, Unpowered, RxLoopPcs
<1> QED
    BY <1>1, <1>3, <1>4, <1>5

LEMMA Keeps_configure_default ==
    ASSUME Paced, BaseInv, OrderInv, configure_default
    PROVE  OrderInv'
<1> USE DEF configure_default, Goto, twi, board, call, local, history, BaseInv, OrderInv
<1>1. WireInv'
    BY DEF WireInv
<1>3. CallInv'
    BY DEF CallInv, Resting, Unpowered, TxPcs, TxLoopPcs, RxPcs, RxLoopPcs
<1>4. WriteInv'
    BY DEF WriteInv, Reach, Resting, Unpowered, TxLoopPcs
<1>5. ReadInv'
    BY DEF ReadInv, Resting, Unpowered, RxLoopPcs
<1> QED
    BY <1>1, <1>3, <1>4, <1>5

LEMMA Keeps_baudrate_ ==
    ASSUME Paced, BaseInv, OrderInv, baudrate_
    PROVE  OrderInv'
<1> USE DEF baudrate_, setFrequency, twi, board, call, local, history, BaseInv, OrderInv
<1>1. WireInv'
    BY DEF WireInv
<1>3. CallInv'
    BY DEF CallInv
<1>4. WriteInv'
    BY DEF WriteInv, Reach
<1>5. ReadInv'
    BY DEF ReadInv
<1> QED
    BY <1>1, <1>3, <1>4, <1>5

LEMMA Keeps_Transfer ==
    ASSUME Paced, BaseInv, Transfer
    PROVE  OrderInv'
<1> USE DEF Transfer, MayCall, twi, board, call, local, history, BaseInv, OrderInv
<1>1. WireInv'
    BY UptoFirst DEF WireInv
<1>3. CallInv'
    BY DEF RequestInv, CallInv, Writes, TxPcs, TxLoopPcs, RxPcs, RxLoopPcs, Settled
<1>4. WriteInv'
    BY Bounds DEF WriteInv, Reach, Resting, Unpowered, TxLoopPcs
<1>5. ReadInv'
    BY Bounds DEF ReadInv, Resting, Unpowered, RxLoopPcs
<1> QED
    BY <1>1, <1>3, <1>4, <1>5

LEMMA Keeps_StopCondition ==
    ASSUME Paced, BaseInv, OrderInv, StopCondition
    PROVE  OrderInv'
<1> USE DEF StopCondition, Goto, TaskStop, twi, board, call, local, history, BaseInv, OrderInv
<1>1. WireInv'
    BY DEF WireInv
<1>3. CallInv'
    BY DEF CallInv, TxPcs, TxLoopPcs, RxPcs, RxLoopPcs, Settled
<1>4. WriteInv'
    BY DEF CallInv, WriteInv, Reach, TxLoopPcs, Writes
<1>5. ReadInv'
    BY DEF CallInv, ReadInv, RxLoopPcs
<1> QED
    BY <1>1, <1>3, <1>4, <1>5

LEMMA Keeps_ClearTx ==
    ASSUME Paced, BaseInv, OrderInv, ClearTx
    PROVE  OrderInv'
<1> USE DEF ClearTx, Goto, clear_events_, set_shortcuts_, check_event_, twi, board, call,
       local, history, BaseInv, OrderInv
<1>1. WireInv'
    BY DEF WireInv
<1>3. CallInv'
    BY DEF CallInv, TxPcs, RxPcs, RxLoopPcs
<1>4. WriteInv'
    BY UptoFirst DEF TypeOK, CallInv, WriteInv, Reach, TxPcs, Resting, Unpowered, TxLoopPcs
<1>5. ReadInv'
    BY DEF ReadInv, Resting, Unpowered, RxLoopPcs
<1> QED
    BY <1>1, <1>3, <1>4, <1>5

LEMMA Keeps_ResumeTx ==
    ASSUME Paced, BaseInv, OrderInv, ResumeTx
    PROVE  OrderInv'
<1> USE DEF ResumeTx, Goto, TaskResume, twi, board, call, local, history, BaseInv, OrderInv
<1>1. WireInv'
    BY DEF WireInv
<1>3. CallInv'
    BY DEF CallInv, TxPcs, RxPcs, RxLoopPcs
<1>4. WriteInv'
    BY DEF WriteInv, Reach, Resting, Unpowered, TxLoopPcs
<1>5. ReadInv'
    BY DEF ReadInv, Resting, Unpowered, RxLoopPcs
<1> QED
    BY <1>1, <1>3, <1>4, <1>5

LEMMA Keeps_StartTx ==
    ASSUME Paced, BaseInv, OrderInv, StartTx
    PROVE  OrderInv'
<1> USE DEF StartTx, Goto, TaskStart, twi, board, call, local, history, BaseInv, OrderInv
<1>1. WireInv'
    BY DEF WireInv
<1>3. CallInv'
    BY DEF CallInv, TxPcs, RxPcs, RxLoopPcs
<1>4. WriteInv'
    BY DEF CallInv, WriteInv, Reach, Resting, Unpowered
<1>5. ReadInv'
    BY DEF ReadInv, Resting, Unpowered, RxLoopPcs
<1> QED
    BY <1>1, <1>3, <1>4, <1>5

LEMMA Keeps_LoadFirst ==
    ASSUME Paced, BaseInv, OrderInv, LoadFirst
    PROVE  OrderInv'
<1> USE DEF LoadFirst, Goto, set_tx_byte_, twi, board, call, local, history, BaseInv, OrderInv
<1>1. WireInv'
    BY DEF WireInv
<1>3. CallInv'
    BY DEF CallInv, TxPcs, TxLoopPcs, RxPcs, RxLoopPcs
<1>4. WriteInv'
    BY DEF TypeOK, WriteInv, Reach, Resting, Unpowered, TxLoopPcs
<1>5. ReadInv'
    BY DEF ReadInv, Resting, Unpowered, RxLoopPcs
<1> QED
    BY <1>1, <1>3, <1>4, <1>5

LEMMA Keeps_TxError ==
    ASSUME Paced, BaseInv, OrderInv, TxError
    PROVE  OrderInv'
<1> USE DEF TxError, Goto, check_event_, clear_events_, TaskStop, twi, board, call, local,
       history, BaseInv, OrderInv
<1>1. WireInv'
    BY DEF WireInv
<1>3. CallInv'
    BY DEF CallInv, WriteInv, Reach, TxPcs, TxLoopPcs, RxPcs, RxLoopPcs
<1>4. WriteInv'
    <2>0. pc = "check_tx" /\ pc \in TxPcs /\ pc \in TxLoopPcs /\ op \in Writes
        BY DEF CallInv, TxPcs, TxLoopPcs
    <2>a. ~aborted
        BY <2>0 DEF WriteInv, Resting, Unpowered
    <2>1. /\ bus = "refused" /\ refused
          /\ Len(wire) <= Reach /\ (sent = 1 \/ sent < length) /\ sent \in 1..Reach
        BY <2>0, <2>a DEF WriteInv
    <2>2. Len(wire) <= Reach'
        BY <2>1 DEF TypeOK, WireInv, Reach
    <2>3. pc' = "end_tx" /\ bus' = "stopping" /\ aborted' /\ refused'
        BY <2>1 DEF TxError
    <2> QED
        BY <2>0, <2>1, <2>2, <2>3 DEF WriteInv, Resting, Unpowered
<1>5. ReadInv'
    BY DEF CallInv, ReadInv, TxPcs, TxLoopPcs, Writes
<1> QED
    BY <1>1, <1>3, <1>4, <1>5

LEMMA Keeps_TxNoError ==
    ASSUME Paced, BaseInv, OrderInv, TxNoError
    PROVE  OrderInv'
<1> USE DEF TxNoError, Goto, check_event_, twi, board, call, local, history, BaseInv, OrderInv
<1>1. WireInv'
    BY DEF WireInv
<1>3. CallInv'
    BY DEF CallInv, TxPcs, TxLoopPcs, RxPcs, RxLoopPcs
<1>4. WriteInv'
    BY DEF WriteInv, Reach, Resting, Unpowered, TxLoopPcs
<1>5. ReadInv'
    BY DEF ReadInv, Resting, Unpowered, RxLoopPcs
<1> QED
    BY <1>1, <1>3, <1>4, <1>5

LEMMA Keeps_NotSent ==
    ASSUME Paced, BaseInv, OrderInv, NotSent
    PROVE  OrderInv'
<1> USE DEF NotSent, Goto, check_event_, TxLoop, twi, board, call, local, history, BaseInv, OrderInv
<1>1. WireInv'
    BY DEF WireInv
<1>3. CallInv'
    BY DEF CallInv, TxPcs, TxLoopPcs, RxPcs, RxLoopPcs
<1>4. WriteInv'
    <2>1. /\ op \in Writes /\ ~aborted /\ dir = "tx" /\ shorts = {} /\ TXD = sent
         /\ bus \in {"address", "byte", "refused"} /\ (refused <=> bus = "refused")
         /\ (refused <=> "ERROR" \in events) /\ "TXDSENT" \notin events
         /\ sent \in 1..length /\ Len(wire) = sent - 1 /\ (length = 1 \/ sent < length)
         /\ length \in Nat \ {0}
        BY DEF TypeOK, CallInv, WriteInv, Reach, Resting, Unpowered, TxLoopPcs, RxPcs, RxLoopPcs
    <2>2. Reach = length /\ Reach' = length
        BY <2>1 DEF Reach
    <2>3. CASE sent < length
        BY <2>1, <2>2, <2>3 DEF WriteInv, Resting, Unpowered, TxLoopPcs
    <2>4. CASE ~(sent < length)
        BY <2>1, <2>2, <2>4 DEF WriteInv, Resting, Unpowered, TxLoopPcs
    <2> QED
        BY <2>3, <2>4
<1>5. ReadInv'
    BY DEF ReadInv, Resting, Unpowered, RxLoopPcs
<1> QED
    BY <1>1, <1>3, <1>4, <1>5

LEMMA Keeps_LoadNext ==
    ASSUME Paced, BaseInv, OrderInv, LoadNext
    PROVE  OrderInv'
<1> USE DEF LoadNext, Goto, check_event_, set_tx_byte_, twi, board, call, local, history, BaseInv, OrderInv
<1>1. WireInv'
    BY DEF WireInv
<1>3. CallInv'
    BY DEF CallInv, TxPcs, TxLoopPcs, RxPcs, RxLoopPcs
<1>4. WriteInv'
    <2>1. /\ op \in Writes /\ ~aborted /\ dir = "tx" /\ shorts = {}
         /\ bus \in {"address", "byte", "refused"} /\ (refused <=> bus = "refused")
         /\ (refused <=> "ERROR" \in events) /\ "TXDSENT" \in events /\ bus # "address"
         /\ sent \in Nat \ {0} /\ (sent = 1 \/ sent < length) /\ Len(wire) = sent
         /\ length \in Nat \ {0}
        BY DEF TypeOK, CallInv, WriteInv, Reach, Resting, Unpowered, TxLoopPcs, RxPcs, RxLoopPcs
    <2>2. sent + 1 \in 2..Reach' /\ Reach' \in Nat
        BY <2>1 DEF Reach
    <2>3. pc' = "clear_sent" /\ sent' = sent + 1 /\ TXD' = sent + 1
        BY DEF LoadNext
    <2> QED
        BY <2>1, <2>2, <2>3 DEF WriteInv, Resting, Unpowered, TxLoopPcs
<1>5. ReadInv'
    BY DEF ReadInv, Resting, Unpowered, RxLoopPcs
<1> QED
    BY <1>1, <1>3, <1>4, <1>5

LEMMA Keeps_ClearSent ==
    ASSUME Paced, BaseInv, OrderInv, ClearSent
    PROVE  OrderInv'
<1> USE DEF ClearSent, Goto, clear_events_, TxLoop, twi, board, call, local, history, BaseInv, OrderInv
<1>1. WireInv'
    BY DEF WireInv
<1>3. CallInv'
    BY DEF CallInv, TxPcs, TxLoopPcs, RxPcs, RxLoopPcs
<1>4. WriteInv'
    <2>1. /\ op \in Writes /\ ~aborted /\ dir = "tx" /\ shorts = {} /\ TXD = sent
         /\ bus \in {"address", "byte", "refused"} /\ (refused <=> bus = "refused")
         /\ (refused <=> "ERROR" \in events)
         /\ sent \in 2..Reach /\ Len(wire) = sent - 1 /\ length \in Nat \ {0}
        BY DEF TypeOK, CallInv, WriteInv, Resting, Unpowered, TxLoopPcs, RxPcs, RxLoopPcs
    <2>2. "TXDSENT" \notin events' /\ ("ERROR" \in events' <=> "ERROR" \in events)
        BY DEF ClearSent
    <2>3. Reach' = Reach /\ Reach \in Nat /\ (~(sent < length) => sent = Reach)
        BY <2>1 DEF Reach
    <2>4. CASE sent < length
        BY <2>1, <2>2, <2>3, <2>4 DEF WriteInv, Resting, Unpowered, TxLoopPcs
    <2>5. CASE ~(sent < length)
        BY <2>1, <2>2, <2>3, <2>5 DEF WriteInv, Resting, Unpowered, TxLoopPcs
    <2> QED
        BY <2>4, <2>5
<1>5. ReadInv'
    BY DEF ReadInv, Resting, Unpowered, RxLoopPcs
<1> QED
    BY <1>1, <1>3, <1>4, <1>5

LEMMA Keeps_EndTx ==
    ASSUME Paced, BaseInv, OrderInv, EndTx
    PROVE  OrderInv'
<1> USE DEF EndTx, Goto, TaskStop, TaskSuspend, twi, board, call, local, history, BaseInv, OrderInv
<1>1. WireInv'
    BY DEF WireInv
<1>3. CallInv'
    BY DEF CallInv, WriteInv, Reach, TxPcs, TxLoopPcs, RxPcs, RxLoopPcs
<1>4. WriteInv'
    BY DEF WriteInv, Reach, Resting, TxLoopPcs
<1>5. ReadInv'
    BY DEF CallInv, ReadInv, TxPcs, TxLoopPcs, RxLoopPcs, Writes
<1> QED
    BY <1>1, <1>3, <1>4, <1>5

LEMMA Keeps_ClearRx ==
    ASSUME Paced, BaseInv, OrderInv, ClearRx
    PROVE  OrderInv'
<1> USE DEF ClearRx, Goto, clear_events_, set_shortcuts_, twi, board, call, local, history,
       BaseInv, OrderInv
<1>1. WireInv'
    BY DEF WireInv
<1>3. CallInv'
    BY DEF CallInv, TxPcs, TxLoopPcs, RxPcs
<1>4. WriteInv'
    BY DEF WriteInv, Reach, Resting, Unpowered, TxLoopPcs
<1>5. ReadInv'
    BY DEF ReadInv, Resting, Unpowered, RxLoopPcs
<1> QED
    BY <1>1, <1>3, <1>4, <1>5

LEMMA Keeps_ResumeRx ==
    ASSUME Paced, BaseInv, OrderInv, ResumeRx
    PROVE  OrderInv'
<1> USE DEF ResumeRx, Goto, TaskResume, twi, board, call, local, history, BaseInv, OrderInv
<1>1. WireInv'
    BY DEF WireInv
<1>3. CallInv'
    BY DEF CallInv, Resting, Unpowered, TxPcs, TxLoopPcs, RxPcs
<1>4. WriteInv'
    BY DEF WriteInv, Reach, Resting, Unpowered, TxLoopPcs
<1>5. ReadInv'
    BY DEF ReadInv, Resting, Unpowered, RxLoopPcs
<1> QED
    BY <1>1, <1>3, <1>4, <1>5

LEMMA Keeps_StartRx ==
    ASSUME Paced, BaseInv, OrderInv, StartRx
    PROVE  OrderInv'
<1> USE DEF StartRx, Goto, TaskStart, twi, board, call, local, history, BaseInv, OrderInv
<1>1. WireInv'
    BY DEF WireInv
<1>3. CallInv'
    BY DEF CallInv, Resting, Unpowered, TxPcs, TxLoopPcs, RxPcs
<1>4. WriteInv'
    BY DEF WriteInv, Reach, Resting, Unpowered, TxLoopPcs
<1>5. ReadInv'
    <2>1. op = "read" /\ ~aborted /\ ~refused /\ wire = <<>> /\ Len(wire) = 0
        BY DEF CallInv, RxPcs
    <2>2. received = 0 /\ received \in 0..length /\ received < length
        BY DEF TypeOK, ReadInv
    <2>3. data \in [1..length -> Nat]
        BY DEF ReadInv
    <2>4. \A i \in 1..received : data[i] = i
        BY <2>2 DEF StartRx
    <2>5. "ERROR" \notin events /\ "RXDREADY" \notin events
        BY DEF ReadInv
    <2>6. shorts = IF received + 1 = length THEN {"BB_STOP"} ELSE {"BB_SUSPEND"}
        BY DEF ReadInv
    <2>7. /\ pc' = "check_rx" /\ bus' = "address" /\ dir' = "rx"
         /\ UNCHANGED <<events, shorts, received, data, op, length, wire, refused, aborted>>
        BY DEF StartRx
    <2>8. length \in Nat
        BY DEF TypeOK
    <2> QED
        BY <2>1, <2>2 DEF ReadInv, Resting, Unpowered
<1> QED
    BY <1>1, <1>3, <1>4, <1>5

LEMMA Keeps_RxError ==
    ASSUME Paced, BaseInv, OrderInv, RxError
    PROVE  OrderInv'
<1> USE DEF RxError, Goto, check_event_, clear_events_, TaskStop, twi, board, call, local,
       history, BaseInv, OrderInv
<1>1. WireInv'
    BY DEF WireInv
<1>3. CallInv'
    BY DEF CallInv, ReadInv, TxPcs, TxLoopPcs, RxPcs, RxLoopPcs
<1>4. WriteInv'
    BY DEF CallInv, WriteInv, Reach, RxPcs, RxLoopPcs, Writes
<1>5. ReadInv'
    BY DEF ReadInv, RxLoopPcs
<1> QED
    BY <1>1, <1>3, <1>4, <1>5

LEMMA Keeps_RxNoError ==
    ASSUME Paced, BaseInv, OrderInv, RxNoError
    PROVE  OrderInv'
<1> USE DEF RxNoError, Goto, check_event_, twi, board, call, local, history, BaseInv, OrderInv
<1>1. WireInv'
    BY DEF WireInv
<1>3. CallInv'
    BY DEF CallInv, Resting, Unpowered, TxPcs, TxLoopPcs, RxPcs, RxLoopPcs
<1>4. WriteInv'
    BY DEF WriteInv, Reach, Resting, Unpowered, TxLoopPcs
<1>5. ReadInv'
    BY DEF ReadInv, Resting, Unpowered, RxLoopPcs
<1> QED
    BY <1>1, <1>3, <1>4, <1>5

LEMMA Keeps_NotReady ==
    ASSUME Paced, BaseInv, OrderInv, NotReady
    PROVE  OrderInv'
<1> USE DEF NotReady, Goto, check_event_, twi, board, call, local, history, BaseInv, OrderInv
<1>1. WireInv'
    BY DEF WireInv
<1>3. CallInv'
    BY DEF CallInv, Resting, Unpowered, TxPcs, TxLoopPcs, RxPcs, RxLoopPcs
<1>4. WriteInv'
    BY DEF WriteInv, Reach, Resting, Unpowered, TxLoopPcs
<1>5. ReadInv'
    BY DEF ReadInv, Resting, Unpowered, RxLoopPcs
<1> QED
    BY <1>1, <1>3, <1>4, <1>5

LEMMA Keeps_ReadByte ==
    ASSUME Paced, BaseInv, OrderInv, ReadByte
    PROVE  OrderInv'
<1> USE DEF ReadByte, Goto, check_event_, set_shortcuts_, get_rx_byte_, twi, board, call,
       local, history, BaseInv, OrderInv
<1>1. WireInv'
    BY DEF WireInv
<1>3. CallInv'
    BY DEF CallInv, Resting, Unpowered, TxPcs, TxLoopPcs, RxPcs, RxLoopPcs
<1>4. WriteInv'
    BY DEF WriteInv, Reach, Resting, Unpowered, TxLoopPcs
<1>5. ReadInv'
    <2>1. op = "read" /\ ~aborted /\ dir = "rx" /\ (refused <=> bus = "refused")
        BY DEF CallInv, ReadInv, Resting, Unpowered, RxPcs, RxLoopPcs
    <2>2. received \in 0..length /\ received < length /\ length \in Nat
        BY DEF TypeOK, CallInv, ReadInv, Resting, Unpowered, RxPcs, RxLoopPcs
    <2>3. data \in [1..length -> Nat]
        BY DEF CallInv, ReadInv, Resting, Unpowered, RxPcs, RxLoopPcs
    <2>4. \A i \in 1..received : data[i] = i
        BY DEF CallInv, ReadInv, Resting, Unpowered, RxPcs, RxLoopPcs
    <2>5. refused <=> "ERROR" \in events
        BY DEF CallInv, ReadInv, Resting, Unpowered, RxPcs, RxLoopPcs
    <2>6. shorts = IF received + 1 = length THEN {"BB_STOP"} ELSE {"BB_SUSPEND"}
        BY DEF CallInv, ReadInv, Resting, Unpowered, RxPcs, RxLoopPcs
    <2>7. bus \in {"suspended", "stopping", "idle"}
        BY DEF CallInv, ReadInv, RxPcs, RxLoopPcs
    <2>8. bus = "suspended" =>
           RXD = received + 1 /\ Len(wire) = received + 2 /\ received + 1 < length
        BY DEF CallInv, ReadInv, RxPcs, RxLoopPcs
    <2>9. bus # "suspended" =>
           RXD = received + 1 /\ Len(wire) = length /\ received + 1 = length
        BY DEF CallInv, ReadInv, Resting, Unpowered, RxPcs, RxLoopPcs
    <2>10. received' = received + 1 /\ received' \in 1..length
        BY <2>2 DEF Resting, Unpowered, TxPcs, TxLoopPcs, RxPcs, RxLoopPcs, Settled
    <2>11. data' = [data EXCEPT ![received + 1] = received + 1]
        BY <2>8, <2>9 DEF Resting, Unpowered, TxPcs, TxLoopPcs, RxPcs, RxLoopPcs, Settled
    <2>12. data' \in [1..length -> Nat]
        BY <2>2, <2>3, <2>11 DEF Resting, Unpowered, TxPcs, TxLoopPcs, RxPcs, RxLoopPcs,
           Settled
    <2>13. \A i \in 1..received' : data'[i] = i
        BY <2>2, <2>3, <2>4, <2>11
    <2>14. \/ received' = length
         \/ shorts' = IF received' + 1 = length THEN {"BB_STOP"} ELSE {"BB_SUSPEND"}
        BY <2>2, <2>6
    <2>15. IF received + 1 = length THEN pc' = "end_rx" /\ bus \in {"stopping", "idle"}
           ELSE pc' = "ready_next" /\ bus = "suspended" /\ Len(wire) = received + 2
        BY <2>7, <2>8, <2>9 DEF Resting, Unpowered, TxPcs, TxLoopPcs, RxPcs, RxLoopPcs,
           Settled
    <2>16. /\ bus' = bus /\ dir' = dir /\ events' = events /\ op' = op /\ length' = length
         /\ wire' = wire /\ refused' = refused /\ aborted' = aborted
        BY DEF ReadByte
    <2>17. Len(wire) <= length
        BY DEF CallInv, ReadInv, RxPcs, RxLoopPcs
    <2>18. CASE received + 1 = length
        BY <2>18 DEF ReadInv, Resting, Unpowered, RxLoopPcs
    <2>19. CASE received + 1 # length
        BY <2>1, <2>2, <2>14 DEF ReadInv, Resting, Unpowered, RxLoopPcs
    <2> QED
        BY <2>18, <2>19
<1> QED
    BY <1>1, <1>3, <1>4, <1>5

LEMMA Keeps_ReadyNext ==
    ASSUME Paced, BaseInv, OrderInv, ReadyNext
    PROVE  OrderInv'
<1> USE DEF ReadyNext, Goto, clear_events_, TaskResume, twi, board, call, local, history, BaseInv, OrderInv
<1>1. WireInv'
    BY DEF WireInv
<1>3. CallInv'
    BY DEF CallInv, Resting, Unpowered, TxPcs, TxLoopPcs, RxPcs, RxLoopPcs
<1>4. WriteInv'
    BY DEF WriteInv, Reach, Resting, Unpowered, TxLoopPcs
<1>5. ReadInv'
    <2>1. op = "read" /\ ~aborted /\ dir = "rx" /\ bus = "suspended"
        BY DEF CallInv, ReadInv, RxPcs, RxLoopPcs
    <2>2. ~refused /\ "ERROR" \notin events
        BY DEF ReadInv, RxLoopPcs
    <2>3. length \in Nat /\ received \in 1..(length - 1) /\ received \in 0..length /\ received < length
        BY DEF TypeOK, ReadInv
    <2>4. Len(wire) = received + 1 /\ Len(wire) <= length
        BY DEF CallInv, ReadInv, RxPcs, RxLoopPcs
    <2>5. data \in [1..length -> Nat]
        BY DEF ReadInv, RxLoopPcs
    <2>6. \A i \in 1..received : data[i] = i
        BY DEF ReadInv, RxLoopPcs
    <2>7. shorts = IF received + 1 = length THEN {"BB_STOP"} ELSE {"BB_SUSPEND"}
        BY DEF ReadInv
    <2>8. /\ pc' = "check_rx" /\ bus' = "byte" /\ "ERROR" \notin events' /\ "RXDREADY" \notin events'
        BY <2>1, <2>2 DEF ReadyNext
    <2>9. UNCHANGED <<dir, shorts, received, data, op, length, wire, refused, aborted>>
        BY DEF ReadyNext
    <2> QED
        BY <2>3 DEF ReadInv, Resting, Unpowered, RxLoopPcs
<1> QED
    BY <1>1, <1>3, <1>4, <1>5

LEMMA Keeps_EndRx ==
    ASSUME Paced, BaseInv, OrderInv, EndRx
    PROVE  OrderInv'
<1> USE DEF EndRx, Goto, TaskStop, twi, board, call, local, history, BaseInv, OrderInv
<1>1. WireInv'
    BY DEF WireInv
<1>3. CallInv'
    BY DEF CallInv, ReadInv, TxPcs, TxLoopPcs, RxPcs, RxLoopPcs, Settled
<1>4. WriteInv'
    BY DEF CallInv, WriteInv, Reach, TxLoopPcs, RxPcs, RxLoopPcs, Writes
<1>5. ReadInv'
    <2>1. /\ op = "read" /\ Len(wire) <= length /\ (aborted => refused) /\ length \in Nat
         /\ bus \in {"stopping", "idle"}
        BY DEF TypeOK, CallInv, ReadInv, RxPcs, RxLoopPcs
    <2>2. pc' = "idle" /\ bus' \in {"stopping", "idle"}
        BY <2>1 DEF EndRx
    <2>3. ~refused => data = Upto(length)
        BY DEF CallInv, ReadInv, RxPcs, RxLoopPcs, Upto
    <2> QED
        BY <2>3 DEF ReadInv, Resting, RxLoopPcs
<1> QED
    BY <1>1, <1>3, <1>4, <1>5

LEMMA Keeps_BusAddress ==
    ASSUME Paced, BaseInv, OrderInv, pc \notin BeforeStart, BusAddress
    PROVE  OrderInv'
<1> USE DEF BusAddress, BeforeStart, twi, board, call, local, history, BaseInv, OrderInv
<1>a. /\ pc \in {"check_tx", "sent", "end_tx", "clear_sent", "load", "check_rx", "ready"} \cup Resting
      /\ ~aborted
    BY DEF TypeOK, CallInv, WriteInv, Reach, WireInv, ReadInv, TxPcs, TxLoopPcs, RxPcs, RxLoopPcs, Settled
<1>b. /\ dir = "rx" => pc \in {"check_rx", "ready"} /\ op = "read" /\ received = 0 /\ wire = <<>>
      /\ dir = "tx" => op \in Writes
    BY DEF TypeOK, CallInv, WriteInv, Reach, WireInv, ReadInv, TxPcs, RxPcs, RxLoopPcs, Settled
<1>c. IF dir = "rx" THEN wire' = Upto(1) /\ Len(wire') = 1 ELSE wire' = wire
    BY UptoFirst
<1>1. WireInv'
    BY <1>c DEF WireInv
<1>3. CallInv'
    BY DEF CallInv, Settled
<1>4. WriteInv'
    BY DEF TypeOK, WriteInv, Reach
<1>5. ReadInv'
    BY <1>c DEF TypeOK, ReadInv, RxLoopPcs
<1> QED
    BY <1>1, <1>3, <1>4, <1>5

LEMMA Keeps_BusNack ==
    ASSUME Paced, BaseInv, OrderInv, pc \notin BeforeStart, BusNack
    PROVE  OrderInv'
<1> USE DEF BusNack, BeforeStart, twi, board, call, local, history, BaseInv, OrderInv
<1>a. /\ pc \in {"check_tx", "sent", "end_tx", "clear_sent", "load", "check_rx", "ready"} \cup Resting
      /\ ~aborted
    BY DEF TypeOK, CallInv, WriteInv, Reach, ReadInv, TxPcs, TxLoopPcs, RxPcs, RxLoopPcs, Settled
<1>1. WireInv'
    BY DEF WireInv
<1>3. CallInv'
    BY DEF CallInv, Settled
<1>4. WriteInv'
    BY DEF TypeOK, CallInv, WriteInv, Reach, TxLoopPcs, Settled
<1>5. ReadInv'
    BY DEF CallInv, ReadInv, RxLoopPcs, Settled
<1> QED
    BY <1>1, <1>3, <1>4, <1>5

LEMMA Keeps_BusSend ==
    ASSUME Paced, BaseInv, OrderInv, pc \notin BeforeStart, BusSend
    PROVE  OrderInv'
<1> USE DEF BusSend, AtBoundary, BeforeStart, twi, board, call, local, history, BaseInv, OrderInv
<1>a1. pc \in {"check_tx", "sent", "end_tx"} \cup Resting /\ ~aborted /\ op \in Writes
    BY DEF TypeOK, CallInv, WriteInv, Reach, ReadInv, TxPcs, TxLoopPcs, RxPcs, Settled
<1>a. /\ dir = "tx" /\ shorts = {} /\ TXD = Len(wire) + 1 /\ Len(wire) < Reach
      /\ Len(wire) \in Nat /\ length \in Nat
      /\ pc \in {"check_tx", "sent", "end_tx"} => TXD = sent /\ request = "none" /\ ~refused
      /\ pc \in Resting => TXD = Reach /\ request # "none"
    <2>1. CASE pc \in {"check_tx", "sent", "end_tx"}
        BY DEF TypeOK, WireInv, CallInv, WriteInv, Reach, ReadInv, TxPcs, TxLoopPcs, RxPcs,
           Settled
    <2>2. CASE pc \in Resting
        <3>1. dir = "tx" /\ shorts = {} /\ request # "none"
            BY <2>2 DEF CallInv, WriteInv, Settled
        <3>2. TXD = Reach /\ Len(wire) = Reach - 1
            BY <2>2 DEF CallInv, WriteInv, Settled
        <3>3. Len(wire) \in Nat /\ length \in Nat /\ Reach \in Nat
            BY DEF TypeOK, WireInv, Reach
        <3> QED
            BY <2>2, <3>1, <3>2, <3>3 DEF Resting, Unpowered
    <2> QED
        BY <1>a1, <2>1, <2>2
<1>b. wire' = Upto(Len(wire) + 1) /\ Len(wire') = Len(wire) + 1 /\ Len(wire) + 1 \in Nat
    <2>1. wire' = Append(Upto(Len(wire)), Len(wire) + 1)
        BY <1>a DEF WireInv
    <2>2. Len(wire) \in Nat /\ Len(wire) + 1 \in Nat
        BY <1>a
    <2> QED
        BY <2>1, <2>2, UptoAppend, Zenon
<1>c. bus' \in {"byte", "stopping", "suspended"} /\ request' = "none" /\ (request # "none" => bus' # "byte")
      /\ (request = "none" => bus' = "byte")
    BY <1>a DEF TypeOK
<1>1. WireInv'
    BY <1>b DEF WireInv
<1>3. CallInv'
    BY DEF CallInv, Settled
<1>4. WriteInv'
    BY DEF TypeOK, CallInv, WriteInv, Reach, TxPcs, TxLoopPcs, Settled, Writes
<1>5. ReadInv'
    BY DEF TypeOK, CallInv, ReadInv, RxPcs, RxLoopPcs, Settled, Writes
<1> QED
    BY <1>1, <1>3, <1>4, <1>5

LEMMA Keeps_BusReceive ==
    ASSUME Paced, BaseInv, OrderInv, pc \notin BeforeStart, BusReceive
    PROVE  OrderInv'
<1> USE DEF BusReceive, AtBoundary, BeforeStart, twi, board, call, local, history, BaseInv, OrderInv
<1>a. /\ op = "read" /\ pc \in {"check_rx", "ready"} /\ ~aborted /\ ~refused
      /\ Len(wire) = received + 1 /\ received < length /\ received \in Nat /\ request = "none"
      /\ shorts = IF received + 1 = length THEN {"BB_STOP"} ELSE {"BB_SUSPEND"}
    BY DEF TypeOK, CallInv, WriteInv, Reach, ReadInv, TxPcs, RxPcs, RxLoopPcs, Settled
<1>b. Append(wire, Len(wire) + 1) = Upto(Len(wire) + 1) /\ Len(Append(wire, Len(wire) + 1)) = Len(wire) + 1
    BY <1>a, UptoAppend DEF WireInv
<1>c. CASE received + 1 = length
  <2>a. bus' = "stopping" /\ wire' = wire /\ request' = "none"
      BY <1>a, <1>c
  <2>1. WireInv'
      BY <1>a, <2>a DEF WireInv
  <2>3. CallInv'
      BY DEF CallInv, Settled
  <2>4. WriteInv'
      BY DEF TypeOK, CallInv, WriteInv, Reach, TxPcs, Writes
  <2>5. ReadInv'
      BY DEF TypeOK, CallInv, ReadInv, Resting, RxPcs, RxLoopPcs, Settled, Writes
  <2> QED
      BY <2>1, <2>3, <2>4, <2>5
<1>d. CASE received + 1 # length
  <2>a. bus' = "suspended" /\ wire' = Upto(Len(wire) + 1) /\ Len(wire') = received + 2 /\ request' = "none"
      BY <1>a, <1>b, <1>d
  <2>b. Len(wire') = Len(wire) + 1 /\ Len(wire') \in Nat
      BY <1>a, <2>a
  <2>1. WireInv'
      BY <2>a, <2>b, Zenon DEF WireInv
  <2>3. CallInv'
      BY DEF CallInv, Settled
  <2>4. WriteInv'
      BY DEF TypeOK, CallInv, WriteInv, Reach, TxPcs, Writes
  <2>5. ReadInv'
      BY DEF TypeOK, CallInv, ReadInv, Resting, RxPcs, RxLoopPcs, Settled, Writes
  <2> QED
      BY <2>1, <2>3, <2>4, <2>5
<1> QED
    BY <1>c, <1>d

LEMMA Keeps_BusStopped ==
    ASSUME Paced, BaseInv, OrderInv, pc \notin BeforeStart, BusStopped
    PROVE  OrderInv'
<1> USE DEF BusStopped, BeforeStart, twi, board, call, local, history, BaseInv, OrderInv
<1>1. WireInv'
    BY DEF WireInv
<1>3. CallInv'
    BY DEF CallInv, Settled
<1>4. WriteInv'
    BY DEF WriteInv, Reach
<1>5. ReadInv'
    BY DEF ReadInv
<1> QED
    BY <1>1, <1>3, <1>4, <1>5

-----------------------------------------------------------------------------
(* The invariant and what it gives.                                        *)

LEMMA InitIInv ==
    ASSUME Init
    PROVE  IInv
<1>1. BaseInv
    <2>1. TypeOK
        <3>1. pc \in Resting /\ op \in Ops /\ length \in Nat \ {0}
            BY DEF Init, Resting, Unpowered, Ops, NoData
        <3>2. events \subseteq Events /\ shorts \subseteq Shortcuts
            BY DEF Init
        <3>3. refused \in BOOLEAN /\ aborted \in BOOLEAN /\ early \in BOOLEAN
            BY DEF Init
        <3> QED
            BY <3>1, <3>2, <3>3 DEF Init, TypeOK
    <2>2. PowerInv /\ RequestInv
        BY DEF Init, PowerInv, RequestInv, Unpowered
    <2> QED
        BY <2>1, <2>2 DEF BaseInv
<1>2. WireInv
    <2>1. wire = <<>>
        BY DEF Init
    <2> QED
        BY <2>1, UptoFirst DEF WireInv
<1>3. CallInv
    BY DEF Init, CallInv, TxPcs, TxLoopPcs, RxPcs, RxLoopPcs, Settled
<1>4. WriteInv /\ ReadInv
    BY DEF Init, WriteInv, ReadInv, TxLoopPcs, RxLoopPcs, Writes
<1> QED
    BY <1>1, <1>2, <1>3, <1>4 DEF IInv, OrderInv

LEMMA StepIInv ==
    ASSUME Paced, IInv, Step
    PROVE  IInv'
<1>1. BaseInv /\ BaseInv'
    BY StepBase DEF IInv
<1>2. early' = early
    BY DEF Step, history, StopCondition, ClearTx, ResumeTx, StartTx, LoadFirst, TxError,
       TxNoError, NotSent, LoadNext, ClearSent, EndTx, ClearRx, ResumeRx, StartRx, RxError,
       RxNoError, NotReady, ReadByte, ReadyNext, EndRx
<1>3. ASSUME OrderInv
      PROVE  OrderInv'
    BY <1>1, <1>3, Keeps_StopCondition, Keeps_ClearTx, Keeps_ResumeTx, Keeps_StartTx,
       Keeps_LoadFirst, Keeps_TxError, Keeps_TxNoError, Keeps_NotSent, Keeps_LoadNext,
       Keeps_ClearSent, Keeps_EndTx, Keeps_ClearRx, Keeps_ResumeRx, Keeps_StartRx,
       Keeps_RxError, Keeps_RxNoError, Keeps_NotReady, Keeps_ReadByte, Keeps_ReadyNext,
       Keeps_EndRx DEF Step
<1> QED
    BY <1>1, <1>2, <1>3 DEF IInv

LEMMA NextIInv ==
    ASSUME Paced, IInv, [Next]_vars
    PROVE  IInv'
<1>1. CASE Step
    BY <1>1, StepIInv
<1>2. CASE BusMoves
    <2>1. BaseInv /\ BaseInv'
        BY <1>2, BusBase DEF IInv
    <2>2. ~early' => ~early /\ pc \notin BeforeStart
        BY <1>2 DEF BusMoves
    <2>3. ASSUME OrderInv, pc \notin BeforeStart
          PROVE  OrderInv'
        BY <1>2, <2>1, <2>3, Keeps_BusAddress, Keeps_BusNack, Keeps_BusSend,
           Keeps_BusReceive, Keeps_BusStopped DEF BusMoves
    <2> QED
        BY <2>1, <2>2, <2>3 DEF IInv
<1>3. CASE UNCHANGED vars
    BY <1>3 DEF vars, twi, board, call, local, history, IInv, BaseInv, OrderInv, TypeOK,
       PowerInv, RequestInv, WireInv, CallInv, WriteInv, ReadInv, Reach
<1>4. CASE \/ configure_i2c \/ SelectPins \/ enable \/ disable \/ configure_default
           \/ baudrate_
    <2>1. BaseInv /\ BaseInv'
        BY <1>4, OtherBase DEF IInv
    <2>2. early' = early
        BY <1>4 DEF history, configure_i2c, SelectPins, enable, disable, configure_default,
           baudrate_
    <2>3. ASSUME OrderInv
          PROVE  OrderInv'
        BY <1>4, <2>1, <2>3, Keeps_configure_i2c, Keeps_SelectPins, Keeps_enable,
           Keeps_disable, Keeps_configure_default, Keeps_baudrate_
    <2> QED
        BY <2>1, <2>2, <2>3 DEF IInv
<1>5. CASE Transfer
    BY <1>5, OtherBase, Keeps_Transfer DEF IInv
<1> QED
    BY <1>1, <1>2, <1>3, <1>4, <1>5 DEF Next

\* The inductive invariant holds of a driver that is called once the STOP before has
\* ended; what it says of the bytes holds of the calls that reach START in time.
THEOREM Invariance == Paced => (Spec => []IInv)
<1>1. Init => IInv
    BY InitIInv
<1>2. Paced /\ IInv /\ [Next]_vars => IInv'
    BY NextIInv
<1> QED
    <2> SUFFICES ASSUME Paced PROVE Spec => []IInv
        OBVIOUS
    <2>1. IInv /\ [Next]_vars => IInv'
        BY <1>2
    <2> QED
        BY <1>1, <2>1, PTL DEF Spec

\* The bytes of a write leave in order, none twice, over pins that start_ configured;
\* none lies past the end of the buffer, but for the second byte of a write of one.
THEOREM InOrderOnTheWire == Paced => (Spec => []WireInOrder)
<1> SUFFICES ASSUME Paced PROVE Spec => []WireInOrder
    OBVIOUS
<1>1. IInv => WireInOrder
    BY DEF IInv, BaseInv, OrderInv, PowerInv, WireInv, WriteInv, WireInOrder, Upto
<1> QED
    BY <1>1, Invariance, PTL

\* All bytes of a write that nobody refused are out when the bus has come to rest.
THEOREM AllBytesOut == Paced => (Spec => []WriteDelivered)
<1> SUFFICES ASSUME Paced PROVE Spec => []WriteDelivered
    OBVIOUS
<1>1. IInv => WriteDelivered
    BY DEF IInv, OrderInv, WriteInv, WriteDelivered, Settled, Resting
<1> QED
    BY <1>1, Invariance, PTL

\* A read whose bus was still between RESUME and START asks for as many bytes as the
\* buffer holds and stores each in its place.
THEOREM ReadsItsBuffer == Paced => (Spec => [](~early => ReadExact))
<1> SUFFICES ASSUME Paced PROVE Spec => [](~early => ReadExact)
    OBVIOUS
<1>1. IInv => (~early => ReadExact)
    BY DEF IInv, OrderInv, ReadInv, ReadExact, Resting, Upto
<1> QED
    BY <1>1, Invariance, PTL
==============================================================================
