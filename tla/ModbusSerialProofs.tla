------------------------- MODULE ModbusSerialProofs -------------------------
(***************************************************************************)
(* Proofs about ModbusSerial.                                              *)
(***************************************************************************)
EXTENDS ModbusSerial, TLAPS

(* A length below 6 is the length before the first byte ever received, and *)
(* then no frame has reached COMM.                                         *)
SizeInv ==
  /\ rece_size = 0 \/ rece_size >= 6
  /\ rece_size = 0 =>
       /\ revce_count = 0 /\ dealwithTag = 0
       /\ pc \in {"boot", "start", "tagTest", "timerTest",
                  "timerLoad", "timerStore", "timerSeen", "sleep"}
  /\ revce_count \in 1..2 => rece_size = NO_LEN

(* dealwithTag = 1 is either about to be acted on or belongs to an answer  *)
(* that is being sent.                                                     *)
TagInv ==
  /\ dealwithTag = 1 =>
       \/ txe = ENABLE
       \/ pc \in {"check", "sendOn", "respond", "baud", "reload"}
       \/ pc = "tagSeen" /\ reg = 1
  /\ pc = "tagStore" /\ reg = 1 =>
       \/ txe = ENABLE
       \/ gap = "settling" /\ revce_count = 0 /\ txen = RECEIVE

(* Between the check and the answer the accepted frame may only be lost to *)
(* a restart, after which the next frame has armed the timeout.            *)
AnswerInv ==
  pc \in {"sendOn", "respond"} =>
    /\ dealwithTag = 1 => revce_count >= 6 /\ fn \in Answered
    /\ revce_count \in 1..5 => timeout > 0
    /\ fn \notin Answered => timeout > 0 /\ rece_size = NO_LEN

(* NeverStuck, with the case "COMM is in internalDeal" opened.             *)
DealInv ==
  pc = "deal" /\ Occupied =>
    txe = ENABLE \/ timeout > 0 \/ dealwithTag > 1

IInv == TypeOK /\ SizeInv /\ TagInv /\ AnswerInv /\ DealInv /\ NeverStuck

-----------------------------------------------------------------------------
(* A byte count within the Modbus limit wraps neither of the two sums.     *)
LEMMA ConformingSums ==
  ASSUME Counts \subseteq 0..(W - 10), NEW count \in Counts
  PROVE  (count + 9) % W = count + 9 /\ (count + 8) % W = count + 8
<1>1. count \in 0..(W - 10) /\ W \in Nat
  BY ConstantsAssumption
<1>2. \A n \in Nat : n < W => n % W = n
  BY <1>1
<1> QED
  BY <1>1, <1>2

(* Init establishes the invariant. *)
LEMMA InitInv == Init => IInv
BY ConstantsAssumption
   DEF Init, IInv, TypeOK, SizeInv, TagInv, AnswerInv, DealInv, NeverStuck,
       Functions, Points, Occupied, CommWillFree, DATABUFLEN_SCAN,
       Registers, SEND, RECEIVE, ENABLE, DISABLE

(* One lemma per step; the disjunction of the actions is taken apart below. *)
LEMMA RxByteInv ==
  ASSUME Turnaround, Counts \subseteq 0..(W - 10), IInv, RxByte
  PROVE  IInv'
<1> USE ConstantsAssumption DEF DATABUFLEN_SCAN, Registers, SEND, RECEIVE, ENABLE, DISABLE
<1> USE DEF IInv, TypeOK, SizeInv, TagInv, AnswerInv, DealInv, NeverStuck,
            Functions, Points, Answered, Occupied, CommWillFree,
            RxByte, LineSpeaks, rx, tx
<1>1. CASE revce_count = 0 /\ FrameStarts
  BY <1>1 DEF FrameStarts
<1>2. CASE revce_count = 2 /\ OnlineCheckSeen
  BY <1>2 DEF OnlineCheckSeen
<1>3. CASE revce_count = 3 /\ RegisterSeen
  BY <1>3 DEF RegisterSeen
<1>4. CASE revce_count = 6 /\ LengthSeen
  BY <1>4, ConformingSums DEF LengthSeen
<1>5. CASE /\ revce_count \notin {0, 2, 3, 6}
           /\ IF revce_count = 1 THEN fn' \in Functions ELSE UNCHANGED fn
           /\ CompletesAt(revce_count + 1)
           /\ UNCHANGED <<rece_size, regno>>
  BY <1>5 DEF CompletesAt
<1> QED
  BY <1>1, <1>2, <1>3, <1>4, <1>5

LEMMA RxOverflowInv == ASSUME IInv, RxOverflow PROVE IInv'
BY ConstantsAssumption
   DEF IInv, TypeOK, SizeInv, TagInv, AnswerInv, DealInv, NeverStuck,
       Functions, Points, Answered, Occupied, CommWillFree, DATABUFLEN_SCAN,
       Registers, SEND, RECEIVE, ENABLE, DISABLE,
       RxOverflow, LineSpeaks

LEMMA TxByteInv == ASSUME IInv, TxByte PROVE IInv'
BY ConstantsAssumption
   DEF IInv, TypeOK, SizeInv, TagInv, AnswerInv, DealInv, NeverStuck,
       Functions, Points, Answered, Occupied, CommWillFree, DATABUFLEN_SCAN,
       Registers, SEND, RECEIVE, ENABLE, DISABLE,
       TxByte, LastByte, NextIndex, SerialRestart

LEMMA BootInv == ASSUME IInv, BootPrints \/ CommStarts PROVE IInv'
BY ConstantsAssumption
   DEF IInv, TypeOK, SizeInv, TagInv, AnswerInv, DealInv, NeverStuck,
       Functions, Points, Answered, Occupied, CommWillFree, DATABUFLEN_SCAN,
       Registers, SEND, RECEIVE, ENABLE, DISABLE,
       BootPrints, CommStarts, SerialRestart, Goto, rx

LEMMA TagInvStep ==
  ASSUME IInv, TagTest \/ TagLoad \/ TagStore \/ TagSeen
  PROVE  IInv'
<1> USE ConstantsAssumption DEF DATABUFLEN_SCAN, Registers, SEND, RECEIVE, ENABLE, DISABLE
<1> USE DEF IInv, TypeOK, SizeInv, TagInv, AnswerInv, DealInv, NeverStuck,
            Functions, Points, Answered, Occupied, CommWillFree,
            Goto, ShUnch, rx, tx
<1>1. CASE TagTest
  BY <1>1 DEF TagTest
<1>2. CASE TagLoad
  BY <1>2 DEF TagLoad
<1>3. CASE TagStore
  BY <1>3 DEF TagStore, Decremented
<1>4. CASE TagSeen
  BY <1>4 DEF TagSeen
<1> QED
  BY <1>1, <1>2, <1>3, <1>4

(* The length of an answer is a u8. *)
LEMMA AnswerFits ==
  ASSUME ResponseCmd, sendbyte_num \in 0..(W - 1)
  PROVE  sendbyte_num' \in 0..(W - 1)
<1>1. AnswerLens \subseteq 0..(W - 1)
  BY ConstantsAssumption
<1>2. sendbyte_num' \in AnswerLens \/ sendbyte_num' = sendbyte_num
  BY DEF ResponseCmd
<1> QED
  BY <1>1, <1>2

LEMMA DealwithDataInv ==
  ASSUME IInv,
         \/ CheckAccepts \/ CheckRejects \/ InitSendCom \/ ResponseCmd
         \/ DealOrdinary \/ DealBaudInit \/ DealBaudDone
         \/ DealReset \/ ResetUart \/ SoftReset
  PROVE  IInv'
<1> USE ConstantsAssumption DEF DATABUFLEN_SCAN, Registers, SEND, RECEIVE, ENABLE, DISABLE
<1> USE DEF IInv, TypeOK, SizeInv, TagInv, AnswerInv, DealInv, NeverStuck,
            Functions, Points, Answered, Occupied, CommWillFree,
            Goto, ShUnch, SerialRestart, Uart1Init, rx, tx
<1>1. CASE CheckAccepts
  BY <1>1 DEF CheckAccepts
<1>2. CASE CheckRejects
  BY <1>2 DEF CheckRejects
<1>3. CASE InitSendCom
  BY <1>3 DEF InitSendCom
<1>4. CASE ResponseCmd
  <2>1. sendbyte_num' \in 0..(W - 1)
    BY <1>4, AnswerFits
  <2>2. CASE fn \in Answered
    BY <1>4, <2>1, <2>2 DEF ResponseCmd
  <2>3. CASE fn \notin Answered
    BY <1>4, <2>1, <2>3 DEF ResponseCmd
  <2> QED
    BY <2>2, <2>3
<1>5. CASE DealOrdinary
  BY <1>5 DEF DealOrdinary
<1>6. CASE DealBaudInit
  BY <1>6 DEF DealBaudInit
<1>7. CASE DealBaudDone
  BY <1>7 DEF DealBaudDone
<1>8. CASE DealReset
  BY <1>8 DEF DealReset
<1>9. CASE ResetUart
  BY <1>9 DEF ResetUart
<1>10. CASE SoftReset
  BY <1>10 DEF SoftReset
<1> QED
  BY <1>1, <1>2, <1>3, <1>4, <1>5, <1>6, <1>7, <1>8, <1>9, <1>10

LEMMA TimerInvStep ==
  ASSUME IInv, TimerTest \/ TimerLoad \/ TimerStore \/ TimerSeen \/ Wake
  PROVE  IInv'
<1> USE ConstantsAssumption DEF DATABUFLEN_SCAN, Registers, SEND, RECEIVE, ENABLE, DISABLE
<1> USE DEF IInv, TypeOK, SizeInv, TagInv, AnswerInv, DealInv, NeverStuck,
            Functions, Points, Answered, Occupied, CommWillFree,
            Goto, ShUnch, SerialRestart, rx, tx
<1>1. CASE TimerTest
  BY <1>1 DEF TimerTest
<1>2. CASE TimerLoad
  BY <1>2 DEF TimerLoad
<1>3. CASE TimerStore
  BY <1>3 DEF TimerStore, Decremented
<1>4. CASE TimerSeen
  BY <1>4 DEF TimerSeen
<1>5. CASE Wake
  BY <1>5 DEF Wake
<1> QED
  BY <1>1, <1>2, <1>3, <1>4, <1>5

LEMMA StutterInv == ASSUME IInv, UNCHANGED vars PROVE IInv'
BY DEF IInv, TypeOK, SizeInv, TagInv, AnswerInv, DealInv, NeverStuck,
       Occupied, CommWillFree, vars, rx, tx

(* The inductive invariant holds in every reachable state, for every u8    *)
(* width, buffer size and timeout, with the interrupt landing anywhere in  *)
(* COMM's loop, provided the master pauses after an answer and announces   *)
(* no more bytes than Modbus allows (modbus.c:37-143, main.c:113-136).     *)
THEOREM Invariance ==
  ASSUME Turnaround, Counts \subseteq 0..(W - 10)
  PROVE  Spec => []IInv
<1>1. IInv /\ [Next]_vars => IInv'
  BY RxByteInv, RxOverflowInv, TxByteInv, BootInv, TagInvStep,
     DealwithDataInv, TimerInvStep, StutterInv
     DEF Next, Interrupt, Comm
<1> QED
  BY <1>1, InitInv, PTL DEF Spec

(* No step leaves the types, whatever the master sends. *)
LEMMA TypeInvStep == ASSUME TypeOK, [Next]_vars PROVE TypeOK'
<1> USE ConstantsAssumption DEF TypeOK, Functions, Points, Registers,
            DATABUFLEN_SCAN, SEND, RECEIVE, ENABLE, DISABLE
<1>1. CASE RxByte
  <2> USE <1>1 DEF RxByte
  <2>1. CASE revce_count = 0 /\ FrameStarts
    BY <2>1 DEF FrameStarts, tx
  <2>2. CASE revce_count = 2 /\ OnlineCheckSeen
    BY <2>2 DEF OnlineCheckSeen, tx
  <2>3. CASE revce_count = 3 /\ RegisterSeen
    BY <2>3 DEF RegisterSeen, tx
  <2>4. CASE revce_count = 6 /\ LengthSeen
    <3>1. \A n \in Nat : n % W \in 0..(W - 1)
      OBVIOUS
    <3>2. \A count \in Counts : count + 9 \in Nat /\ count + 8 \in Nat
      OBVIOUS
    <3>3. rece_size' \in 0..(W - 1) /\ timeout' \in 0..(W - 1)
      BY <2>4, <3>1, <3>2 DEF LengthSeen
    <3>4. revce_count' \in 0..USART_REC_LEN
      BY <2>4
    <3> QED
      BY <2>4, <3>3, <3>4 DEF LengthSeen, tx
  <2>5. CASE revce_count \notin {0, 2, 3, 6}
    BY <2>5 DEF CompletesAt, tx
  <2> QED
    BY <2>1, <2>2, <2>3, <2>4, <2>5
<1>2. CASE RxOverflow \/ TxByte
  BY <1>2 DEF RxOverflow, TxByte, LastByte, NextIndex, SerialRestart
<1>3. CASE TagTest \/ TagLoad \/ TagStore \/ TagSeen
  BY <1>3 DEF TagTest, TagLoad, TagStore, TagSeen, Decremented, Goto,
              ShUnch, rx, tx
<1>4. CASE CheckAccepts \/ CheckRejects \/ InitSendCom
  BY <1>4 DEF CheckAccepts, CheckRejects, InitSendCom, SerialRestart, Goto,
              ShUnch, rx, tx
<1>5. CASE ResponseCmd
  <2>1. sendbyte_num' \in 0..(W - 1)
    BY <1>5, AnswerFits
  <2>2. txe' \in {ENABLE, DISABLE}
    BY <1>5 DEF ResponseCmd
  <2> QED
    BY <1>5, <2>1, <2>2 DEF ResponseCmd, Goto, rx
<1>6. CASE DealOrdinary \/ DealBaudInit \/ DealBaudDone \/ DealReset
  BY <1>6 DEF DealOrdinary, DealBaudInit, DealBaudDone, DealReset,
              Uart1Init, SerialRestart, Goto, ShUnch, rx, tx
<1>7. CASE TimerTest \/ TimerLoad \/ TimerStore \/ TimerSeen \/ Wake
  BY <1>7 DEF TimerTest, TimerLoad, TimerStore, TimerSeen, Wake, Decremented,
              SerialRestart, Goto, ShUnch, rx, tx
<1>8. CASE ResetUart \/ SoftReset \/ BootPrints \/ CommStarts
  BY <1>8 DEF ResetUart, SoftReset, BootPrints, CommStarts, Uart1Init,
              SerialRestart, Goto, rx
<1>9. CASE UNCHANGED vars
  BY <1>9 DEF vars, rx, tx
<1> QED
  BY <1>1, <1>2, <1>3, <1>4, <1>5, <1>6, <1>7, <1>8, <1>9
     DEF Next, Interrupt, Comm

(* Every variable keeps its type, whatever arrives on the line: no counter *)
(* leaves the u8 range and the buffer index never passes USART_REC_LEN     *)
(* (modbus.c:46-51).                                                       *)
THEOREM TypeCorrect == Spec => []TypeOK
<1>1. Init => TypeOK
  BY ConstantsAssumption
     DEF Init, TypeOK, Functions, Points, Registers, SEND, RECEIVE, ENABLE,
         DISABLE
<1> QED
  BY <1>1, TypeInvStep, PTL DEF Spec

(* The port never gets stuck: bytes in the buffer or a held bus always     *)
(* have a running timeout, a frame waiting for COMM, an answer on its way  *)
(* out or COMM about to free the port (modbus.c:54-58, main.c:119-133).    *)
THEOREM PortNeverStuck ==
  ASSUME Turnaround, Counts \subseteq 0..(W - 10)
  PROVE  Spec => []NeverStuck
BY Invariance, PTL DEF IInv
-----------------------------------------------------------------------------
(* While uart1_init keeps the driver on there is nothing to send; at boot  *)
(* nothing has been received either.                                       *)
SilentInv ==
  /\ pc \in {"boot", "baud", "reload"} => txen = SEND /\ txe = DISABLE
  /\ pc = "boot" => revce_count = 0 /\ rece_size = 0 /\ send_count = 0

LEMMA SilentInvariance == Spec => []SilentInv
<1>1. Init => SilentInv
  BY DEF Init, SilentInv
<1>2. SilentInv /\ [Next]_vars => SilentInv'
  <2> SUFFICES ASSUME SilentInv, [Next]_vars PROVE SilentInv'
    OBVIOUS
  <2> USE DEF SilentInv, Goto, ShUnch, SerialRestart, Uart1Init, rx, tx,
              SEND, RECEIVE, ENABLE, DISABLE
  <2>1. CASE Interrupt
    BY <2>1 DEF Interrupt, RxByte, RxOverflow, LineSpeaks, TxByte
  <2>2. CASE BootPrints \/ CommStarts
    BY <2>2 DEF BootPrints, CommStarts
  <2>3. CASE TagTest \/ TagLoad \/ TagStore \/ TagSeen
    BY <2>3 DEF TagTest, TagLoad, TagStore, TagSeen
  <2>4. CASE CheckAccepts \/ CheckRejects \/ InitSendCom \/ ResponseCmd
    BY <2>4 DEF CheckAccepts, CheckRejects, InitSendCom, ResponseCmd
  <2>5. CASE DealOrdinary \/ DealBaudInit \/ DealBaudDone \/ DealReset
    BY <2>5 DEF DealOrdinary, DealBaudInit, DealBaudDone, DealReset
  <2>6. CASE ResetUart \/ SoftReset
    BY <2>6 DEF ResetUart, SoftReset
  <2>7. CASE TimerTest \/ TimerLoad \/ TimerStore \/ TimerSeen \/ Wake
    BY <2>7 DEF TimerTest, TimerLoad, TimerStore, TimerSeen, Wake
  <2>8. CASE UNCHANGED vars
    BY <2>8 DEF vars
  <2> QED
    BY <2>1, <2>2, <2>3, <2>4, <2>5, <2>6, <2>7, <2>8 DEF Next, Comm
<1> QED
  BY <1>1, <1>2, PTL DEF Spec
-----------------------------------------------------------------------------
(* The port comes nearer to being free. *)

FreedNearer ==
  Occupied /\ Occupied' =>
    \/ txen = RECEIVE /\ txen' = SEND
    \/ txen' = txen /\ revce_count' > revce_count
    \/ UNCHANGED txen /\ revce_count' \in {0, revce_count} /\ Nearer

(* What is left is a count, so it does not shrink for ever. *)
LEMMA LeftNat ==
  ASSUME TypeOK
  PROVE  /\ TagLeft \in Nat /\ TimerLeft \in Nat
         /\ AnswerLeft \in Nat /\ Position \in -1..17
<1> USE ConstantsAssumption DEF TypeOK, Points
<1>1. TagLeft \in Nat
  BY DEF TagLeft, ToCount
<1>2. TimerLeft \in Nat
  BY DEF TimerLeft, ToCount
<1>3. Position \in -1..17
  BY DEF Position, Place
<1>4. AnswerLeft \in Nat
  BY DEF AnswerLeft, LastByte
<1> QED BY <1>1, <1>2, <1>3, <1>4

LEMMA TagLeftNext == ASSUME TypeOK' PROVE TagLeft' \in Nat
BY ConstantsAssumption DEF TypeOK, TagLeft, ToCount

LEMMA InterruptNearer ==
  ASSUME TypeOK, Interrupt
  PROVE  FreedNearer
<1> USE DEF FreedNearer, Occupied, SEND, RECEIVE
<1>1. CASE RxByte
  BY <1>1 DEF RxByte, LineSpeaks, tx, TypeOK
<1>2. CASE RxOverflow
  BY <1>2 DEF RxOverflow
<1>3. CASE TxByte
  <2>1. CASE LastByte
    BY <1>3, <2>1 DEF TxByte, SerialRestart
  <2>2. CASE ~LastByte
    <3>1. UNCHANGED <<txen, revce_count>>
      BY <1>3, <2>2 DEF TxByte
    <3>2. TagLeft' = TagLeft /\ TimerLeft' = TimerLeft
      BY <1>3, <2>2 DEF TxByte, TagLeft, TimerLeft, ToCount
    <3>3. AnswerLeft' < AnswerLeft
      BY <1>3, <2>2 DEF TxByte, NextIndex, AnswerLeft, LastByte, TypeOK
    <3> QED BY <3>1, <3>2, <3>3, LeftNat DEF Nearer
  <2> QED BY <2>1, <2>2
<1> QED BY <1>1, <1>2, <1>3 DEF Interrupt

(* COMM goes on in its loop, with the counters as they were. *)
LEMMA Onward ==
  ASSUME TypeOK, UNCHANGED <<txen, revce_count>>,
         TagLeft' = TagLeft, TimerLeft' = TimerLeft, AnswerLeft' = AnswerLeft,
         Position' > Position
  PROVE  FreedNearer
BY LeftNat DEF FreedNearer, Nearer

LEMMA TagNearer ==
  ASSUME TypeOK, TypeOK', NeverStuck, TagTest \/ TagLoad \/ TagStore \/ TagSeen
  PROVE  FreedNearer
<1> USE ConstantsAssumption DEF TypeOK, Goto, ShUnch, rx, tx
<1>1. CASE TagTest
  <2>1. UNCHANGED <<txen, revce_count>> /\ AnswerLeft' = AnswerLeft
    BY <1>1 DEF TagTest, AnswerLeft, LastByte
  <2>2. TagLeft' = TagLeft /\ TimerLeft' = TimerLeft
    BY <1>1 DEF TagTest, TagLeft, TimerLeft, ToCount
  <2>3. CASE dealwithTag # 0 \/ timeout # 0
    <3>1. Position' > Position
      BY <1>1, <2>3 DEF TagTest, Position, Place, TimerLeft
    <3> QED BY <2>1, <2>2, <3>1, Onward
  <2>4. CASE dealwithTag = 0 /\ timeout = 0
    <3>1. Occupied => txe = ENABLE
      BY <1>1, <2>4 DEF TagTest, NeverStuck, CommWillFree
    <3>2. UNCHANGED <<tx, timeout, dealwithTag>>
      BY <1>1 DEF TagTest
    <3> QED BY <2>1, <2>2, <3>1, <3>2 DEF FreedNearer, Nearer
  <2> QED BY <2>3, <2>4
<1>2. CASE TagLoad
  <2>1. UNCHANGED <<txen, revce_count>> /\ AnswerLeft' = AnswerLeft
    BY <1>2 DEF TagLoad, AnswerLeft, LastByte
  <2>2. TagLeft' = TagLeft /\ TimerLeft' = TimerLeft
    BY <1>2 DEF TagLoad, TagLeft, TimerLeft
  <2>3. Position' > Position
    BY <1>2 DEF TagLoad, Position, Place
  <2> QED BY <2>1, <2>2, <2>3, Onward
<1>3. CASE TagStore
  <2>1. UNCHANGED <<txen, revce_count>> /\ AnswerLeft' = AnswerLeft
    BY <1>3 DEF TagStore, AnswerLeft, LastByte
  <2>2. TagLeft' = TagLeft /\ TimerLeft' = TimerLeft
    BY <1>3 DEF TagStore, TagLeft, TimerLeft, ToCount, Decremented
  <2>3. Position' > Position
    BY <1>3 DEF TagStore, Position, Place
  <2> QED BY <2>1, <2>2, <2>3, Onward
<1>4. CASE TagSeen
  <2>1. UNCHANGED <<txen, revce_count>> /\ AnswerLeft' = AnswerLeft
    BY <1>4 DEF TagSeen, AnswerLeft, LastByte
  <2>2. TimerLeft' = TimerLeft
    BY <1>4 DEF TagSeen, TimerLeft
  <2>3. CASE pc' = "check"
    <3>1. TagLeft' = TagLeft /\ Position' > Position
      BY <1>4, <2>3 DEF TagSeen, TagLeft, Position, Place
    <3> QED BY <2>1, <2>2, <3>1, Onward
  <2>4. CASE pc' = "timerTest"
    <3>1. TagLeft' < TagLeft
      BY <1>4, <2>4 DEF TagSeen, TagLeft
    <3> HIDE DEF TypeOK
    <3> QED BY <2>1, <2>2, <3>1, LeftNat, TagLeftNext DEF FreedNearer, Nearer
  <2> QED BY <1>4, <2>3, <2>4 DEF TagSeen
<1> QED BY <1>1, <1>2, <1>3, <1>4

LEMMA DealwithDataNearer ==
  ASSUME TypeOK, TypeOK',
         \/ CheckAccepts \/ CheckRejects \/ InitSendCom \/ ResponseCmd
         \/ DealOrdinary \/ DealBaudInit \/ DealBaudDone
         \/ DealReset \/ ResetUart \/ SoftReset
  PROVE  FreedNearer
<1> USE ConstantsAssumption DEF TypeOK, Goto, ShUnch, SerialRestart, Uart1Init,
        rx, tx, SEND, RECEIVE
<1>1. CASE CheckRejects \/ DealBaudDone
  BY <1>1 DEF CheckRejects, DealBaudDone, FreedNearer, Occupied
<1>2. CASE CheckAccepts
  <2>1. UNCHANGED <<txen, revce_count>> /\ AnswerLeft' = AnswerLeft
    BY <1>2 DEF CheckAccepts, AnswerLeft, LastByte
  <2>2. TagLeft' = TagLeft /\ TimerLeft' = TimerLeft
    BY <1>2 DEF CheckAccepts, TagLeft, TimerLeft
  <2>3. Position' > Position
    BY <1>2 DEF CheckAccepts, Position, Place
  <2> QED BY <2>1, <2>2, <2>3, Onward
<1>3. CASE InitSendCom
  <2>1. CASE txen = RECEIVE
    BY <1>3, <2>1 DEF InitSendCom, FreedNearer
  <2>2. CASE txen = SEND
    <3>1. UNCHANGED <<txen, revce_count>> /\ AnswerLeft' = AnswerLeft
      BY <1>3, <2>2 DEF InitSendCom, AnswerLeft, LastByte
    <3>2. TagLeft' = TagLeft /\ TimerLeft' = TimerLeft
      BY <1>3 DEF InitSendCom, TagLeft, TimerLeft
    <3>3. Position' > Position
      BY <1>3 DEF InitSendCom, Position, Place
    <3> QED BY <3>1, <3>2, <3>3, Onward
  <2> QED BY <2>1, <2>2
<1>4. CASE ResponseCmd \/ DealOrdinary
  <2>1. UNCHANGED <<txen, revce_count>>
    BY <1>4 DEF ResponseCmd, DealOrdinary
  <2>2. TagLeft' < TagLeft /\ TimerLeft' = TimerLeft
    BY <1>4 DEF ResponseCmd, DealOrdinary, TagLeft, TimerLeft
  <2> HIDE DEF TypeOK
  <2> QED BY <2>1, <2>2, LeftNat, TagLeftNext DEF FreedNearer, Nearer
<1>5. CASE DealBaudInit \/ ResetUart
  <2>1. CASE txen = RECEIVE
    BY <1>5, <2>1 DEF DealBaudInit, ResetUart, FreedNearer
  <2>2. CASE txen = SEND
    <3>1. UNCHANGED <<txen, revce_count>>
      BY <1>5, <2>2 DEF DealBaudInit, ResetUart
    <3>2. TagLeft' = TagLeft /\ TimerLeft' = TimerLeft
      BY <1>5 DEF DealBaudInit, ResetUart, TagLeft, TimerLeft
    <3>3. Position' > Position
      BY <1>5 DEF DealBaudInit, ResetUart, Position, Place
    <3>4. AnswerLeft' = 0
      BY <1>5 DEF DealBaudInit, ResetUart, AnswerLeft, ENABLE, DISABLE
    <3>5. AnswerLeft' < AnswerLeft \/ AnswerLeft' = AnswerLeft
      BY <3>4, LeftNat
    <3> QED BY <3>1, <3>2, <3>3, <3>5 DEF FreedNearer, Nearer
  <2> QED BY <2>1, <2>2
<1>6. CASE DealReset
  <2>1. UNCHANGED <<txen, revce_count>> /\ AnswerLeft' = AnswerLeft
    BY <1>6 DEF DealReset, AnswerLeft, LastByte
  <2>2. TagLeft' = TagLeft /\ TimerLeft' = TimerLeft
    BY <1>6 DEF DealReset, TagLeft, TimerLeft
  <2>3. Position' > Position
    BY <1>6 DEF DealReset, Position, Place
  <2> QED BY <2>1, <2>2, <2>3, Onward
<1>7. CASE SoftReset
  <2>1. TagLeft' = 0 /\ TimerLeft' = 0 /\ AnswerLeft' = 0 /\ Position' = 12
    BY <1>7 DEF SoftReset, TagLeft, TimerLeft, AnswerLeft, Position, Place,
                ENABLE, DISABLE
  <2>2. TagLeft > 0
    BY <1>7 DEF SoftReset, TagLeft
  <2>3. revce_count' = 0 /\ txen' = SEND
    BY <1>7 DEF SoftReset
  <2>4. TagLeft' + TimerLeft' < TagLeft + TimerLeft
    BY <2>1, <2>2, LeftNat
  <2> QED BY <2>3, <2>4 DEF FreedNearer, Nearer
<1> QED BY <1>1, <1>2, <1>3, <1>4, <1>5, <1>6, <1>7

LEMMA BootNearer ==
  ASSUME SilentInv, BootPrints \/ CommStarts
  PROVE  FreedNearer
BY DEF BootPrints, CommStarts, SilentInv, SerialRestart, Goto, rx, FreedNearer,
       Occupied, SEND, RECEIVE

LEMMA TimerNearer ==
  ASSUME TypeOK, TypeOK',
         TimerTest \/ TimerLoad \/ TimerStore \/ TimerSeen \/ Wake
  PROVE  FreedNearer
<1> USE ConstantsAssumption DEF TypeOK, Goto, ShUnch, rx, tx
<1>1. CASE TimerTest
  <2>1. UNCHANGED <<txen, revce_count>> /\ AnswerLeft' = AnswerLeft
    BY <1>1 DEF TimerTest, AnswerLeft, LastByte
  <2>2. TagLeft' = TagLeft /\ TimerLeft' = TimerLeft
    BY <1>1 DEF TimerTest, TagLeft, TimerLeft, ToCount
  <2>3. Position' > Position
    BY <1>1 DEF TimerTest, Position, Place, TimerLeft
  <2> QED BY <2>1, <2>2, <2>3, Onward
<1>2. CASE TimerLoad
  <2>1. UNCHANGED <<txen, revce_count>> /\ AnswerLeft' = AnswerLeft
    BY <1>2 DEF TimerLoad, AnswerLeft, LastByte
  <2>2. TagLeft' = TagLeft /\ TimerLeft' = TimerLeft
    BY <1>2 DEF TimerLoad, TagLeft, TimerLeft
  <2>3. Position' > Position
    BY <1>2 DEF TimerLoad, Position, Place
  <2> QED BY <2>1, <2>2, <2>3, Onward
<1>3. CASE TimerStore
  <2>1. UNCHANGED <<txen, revce_count>> /\ AnswerLeft' = AnswerLeft
    BY <1>3 DEF TimerStore, AnswerLeft, LastByte
  <2>2. TagLeft' = TagLeft /\ TimerLeft' = TimerLeft
    BY <1>3 DEF TimerStore, TagLeft, TimerLeft, ToCount, Decremented
  <2>3. Position' > Position
    BY <1>3 DEF TimerStore, Position, Place
  <2> QED BY <2>1, <2>2, <2>3, Onward
<1>4. CASE TimerSeen
  <2>1. CASE timeout = 0
    BY <1>4, <2>1
    DEF TimerSeen, SerialRestart, FreedNearer, Occupied, SEND, RECEIVE
  <2>2. CASE timeout # 0
    <3>1. UNCHANGED <<txen, revce_count>>
      BY <1>4, <2>2 DEF TimerSeen
    <3>2. /\ TagLeft' = TagLeft
          /\ TimerLeft' = timeout /\ TimerLeft = timeout + 1
      BY <1>4, <2>2 DEF TimerSeen, TagLeft, TimerLeft
    <3> QED BY <3>1, <3>2, LeftNat DEF FreedNearer, Nearer
  <2> QED BY <2>1, <2>2
<1>5. CASE Wake
  <2>1. UNCHANGED <<txen, revce_count>> /\ AnswerLeft' = AnswerLeft
    BY <1>5 DEF Wake, AnswerLeft, LastByte
  <2>2. TagLeft' = TagLeft /\ TimerLeft' = TimerLeft
    BY <1>5 DEF Wake, TagLeft, TimerLeft
  <2>3. Position' > Position
    BY <1>5 DEF Wake, Position, Place
  <2> QED BY <2>1, <2>2, <2>3, Onward
<1> QED BY <1>1, <1>2, <1>3, <1>4, <1>5

(* A port that is never stuck comes nearer to being free. *)
LEMMA ComesFree ==
  Spec /\ []NeverStuck =>
    /\ PortFreedNearer
    /\ [](/\ TagLeft \in Nat /\ TimerLeft \in Nat
          /\ AnswerLeft \in Nat /\ Position \in -1..17)
<1>1. TypeOK /\ TypeOK' /\ SilentInv /\ NeverStuck /\ [Next]_vars
        => [FreedNearer]_vars
  BY InterruptNearer, BootNearer, TagNearer, DealwithDataNearer, TimerNearer
     DEF Next, Comm
<1>2. TypeOK => /\ TagLeft \in Nat /\ TimerLeft \in Nat
                /\ AnswerLeft \in Nat /\ Position \in -1..17
  BY LeftNat
<1>3. [FreedNearer]_vars <=>
        [Occupied /\ Occupied' =>
           \/ txen = RECEIVE /\ txen' = SEND
           \/ txen' = txen /\ revce_count' > revce_count
           \/ UNCHANGED txen /\ revce_count' \in {0, revce_count} /\ Nearer]_vars
  BY DEF FreedNearer
<1> QED
  BY <1>1, <1>2, <1>3, TypeCorrect, SilentInvariance, PTL
     DEF Spec, PortFreedNearer

(* While the port is occupied each step brings it nearer to being free, by *)
(* counts that end, for every u8 width and buffer and with the interrupt   *)
(* anywhere in COMM's loop (modbus.c:46-143; main.c:113-136): freeing it   *)
(* needs no more than that COMM and the transmitter go on.                 *)
THEOREM PortComesFree ==
  ASSUME Turnaround, Counts \subseteq 0..(W - 10)
  PROVE  Spec => /\ PortFreedNearer
                 /\ [](/\ TagLeft \in Nat /\ TimerLeft \in Nat
                       /\ AnswerLeft \in Nat /\ Position \in -1..17)
BY ComesFree, PortNeverStuck, PTL
-----------------------------------------------------------------------------
(* What the interrupt sends.                                               *)

(* The index is that of a byte of some answer, also where a cut-off answer *)
(* has left it.                                                            *)
SendInv ==
  /\ send_count = 0 \/ \E n \in AnswerLens : send_count < n
  /\ txe = ENABLE => sendbyte_num \in AnswerLens

LEMMA SendInvStep == ASSUME TypeOK, SendInv, [Next]_vars PROVE SendInv'
<1> USE DEF SendInv, Goto, ShUnch, SerialRestart, Uart1Init, rx, tx,
            SEND, RECEIVE, ENABLE, DISABLE
<1>1. CASE TxByte
  <2>1. txe = ENABLE /\ sendbyte_num' = sendbyte_num /\ txe' \in {txe, DISABLE}
    BY <1>1 DEF TxByte
  <2>2. sendbyte_num \in AnswerLens
    BY <2>1
  <2>3. CASE LastByte
    BY <1>1, <2>1, <2>2, <2>3 DEF TxByte, NextIndex
  <2>4. CASE ~LastByte
    <3>1. send_count' = send_count + 1 /\ send_count + 1 < sendbyte_num
      BY <1>1, <2>4, ConstantsAssumption DEF TxByte, NextIndex, LastByte, TypeOK
    <3> QED BY <2>1, <2>2, <3>1
  <2> QED BY <2>3, <2>4
<1>2. CASE ResponseCmd
  BY <1>2 DEF ResponseCmd
<1>3. CASE RxByte \/ RxOverflow
  BY <1>3 DEF RxByte, RxOverflow
<1>4. CASE BootPrints \/ CommStarts \/ CheckAccepts \/ CheckRejects \/ InitSendCom
  BY <1>4 DEF BootPrints, CommStarts, CheckAccepts, CheckRejects, InitSendCom
<1>5. CASE TagTest \/ TagLoad \/ TagStore \/ TagSeen
  BY <1>5 DEF TagTest, TagLoad, TagStore, TagSeen
<1>6. CASE DealOrdinary \/ DealBaudInit \/ DealBaudDone \/ DealReset
  BY <1>6 DEF DealOrdinary, DealBaudInit, DealBaudDone, DealReset
<1>7. CASE ResetUart \/ SoftReset
  BY <1>7 DEF ResetUart, SoftReset
<1>8. CASE TimerTest \/ TimerLoad \/ TimerStore \/ TimerSeen \/ Wake
  BY <1>8 DEF TimerTest, TimerLoad, TimerStore, TimerSeen, Wake
<1>9. CASE UNCHANGED vars
  BY <1>9 DEF vars
<1> QED
  BY <1>1, <1>2, <1>3, <1>4, <1>5, <1>6, <1>7, <1>8, <1>9
     DEF Next, Interrupt, Comm

LEMMA SendInvariance == Spec => []SendInv
<1>1. Init => SendInv
  BY DEF Init, SendInv, ENABLE, DISABLE
<1> QED
  BY <1>1, SendInvStep, TypeCorrect, PTL DEF Spec

(* Every byte the interrupt sends is one of a longest answer, wherever the *)
(* interrupt lands, whatever cut an answer off and whatever the master     *)
(* sends (modbus.c:118-120, 161-167, 486).                                 *)
THEOREM SentWithinAnswers == Spec => []SendsWithinAnswers
<1>1. TypeOK /\ SendInv => SendsWithinAnswers
  <2> SUFFICES ASSUME TypeOK, SendInv, txe = ENABLE
               PROVE  \E n \in AnswerLens : send_count < n
    BY DEF SendsWithinAnswers
  <2>1. sendbyte_num \in AnswerLens /\ AnswerLens \subseteq 1..(W - 1)
    BY ConstantsAssumption DEF SendInv
  <2>2. CASE send_count = 0
    BY <2>1, <2>2
  <2> QED BY <2>2 DEF SendInv
<1> QED
  BY <1>1, SendInvariance, TypeCorrect, PTL
-----------------------------------------------------------------------------
(* ModbusSerial implements AnswerPort.                                     *)

(* SizeInv needs no pause after an answer. *)
LEMMA SizeInvStep ==
  ASSUME Counts \subseteq 0..(W - 10), TypeOK, SizeInv, [Next]_vars
  PROVE  SizeInv'
<1> USE ConstantsAssumption
    DEF SizeInv, TypeOK, Goto, ShUnch, SerialRestart, Uart1Init, rx, tx,
        DATABUFLEN_SCAN
<1>1. CASE RxByte
  <2> USE <1>1 DEF RxByte
  <2>1. CASE revce_count = 0 /\ FrameStarts
    BY <2>1 DEF FrameStarts
  <2>2. CASE revce_count = 2 /\ OnlineCheckSeen
    BY <2>2 DEF OnlineCheckSeen
  <2>3. CASE revce_count = 3 /\ RegisterSeen
    BY <2>3 DEF RegisterSeen
  <2>4. CASE revce_count = 6 /\ LengthSeen
    BY <2>4, ConformingSums DEF LengthSeen
  <2>5. CASE /\ revce_count \notin {0, 2, 3, 6}
             /\ CompletesAt(revce_count + 1)
             /\ UNCHANGED rece_size
    BY <2>5 DEF CompletesAt
  <2> QED BY <2>1, <2>2, <2>3, <2>4, <2>5
<1>2. CASE RxOverflow \/ TxByte
  BY <1>2 DEF RxOverflow, TxByte
<1>3. CASE BootPrints \/ CommStarts \/ CheckAccepts \/ CheckRejects \/ InitSendCom
  BY <1>3 DEF BootPrints, CommStarts, CheckAccepts, CheckRejects, InitSendCom
<1>4. CASE ResponseCmd
  BY <1>4 DEF ResponseCmd
<1>5. CASE TagTest \/ TagLoad \/ TagStore \/ TagSeen
  BY <1>5 DEF TagTest, TagLoad, TagStore, TagSeen
<1>6. CASE DealOrdinary \/ DealBaudInit \/ DealBaudDone \/ DealReset
  BY <1>6 DEF DealOrdinary, DealBaudInit, DealBaudDone, DealReset
<1>7. CASE ResetUart \/ SoftReset
  BY <1>7 DEF ResetUart, SoftReset
<1>8. CASE TimerTest \/ TimerLoad \/ TimerStore \/ TimerSeen \/ Wake
  BY <1>8 DEF TimerTest, TimerLoad, TimerStore, TimerSeen, Wake
<1>9. CASE UNCHANGED vars
  BY <1>9 DEF vars
<1> QED
  BY <1>1, <1>2, <1>3, <1>4, <1>5, <1>6, <1>7, <1>8, <1>9
     DEF Next, Interrupt, Comm

(* What the bus still has to hear, and a transmitter that nobody hears.    *)
Left == IF txe = ENABLE /\ txen = SEND THEN ToSend ELSE 0
Spoilt == IF txe = ENABLE THEN txen = RECEIVE ELSE send_count # 0

PortInv == TypeOK /\ SizeInv /\ SilentInv /\ SendInv

LEMMA LeftCounts ==
  ASSUME TypeOK
  PROVE  /\ ToSend \in Nat /\ ToSend > 0
         /\ txe = DISABLE => Left = 0
         /\ txen = RECEIVE => Left = 0
         /\ txe = ENABLE /\ txen = SEND => Left = ToSend /\ Left > 0
<1>1. ToSend \in Nat /\ ToSend > 0
  BY ConstantsAssumption DEF ToSend, TypeOK
<1> QED BY <1>1 DEF Left, SEND, RECEIVE, ENABLE, DISABLE

(* The rest of an answer is a part of one. *)
LEMMA RestIsPart ==
  ASSUME TypeOK, sendbyte_num \in AnswerLens
  PROVE  ToSend \in UNION {1..n : n \in AnswerLens}
<1>1. sendbyte_num \in Nat /\ sendbyte_num >= 1
  BY ConstantsAssumption
<1>2. ToSend \in 1..sendbyte_num
  BY <1>1 DEF ToSend, TypeOK
<1> QED BY <1>2

(* To the bus a restart in mid-answer spoils the transmitter. *)
LEMMA RestartSpoils ==
  ASSUME TypeOK, txen' = RECEIVE, UNCHANGED <<txe, send_count>>
  PROVE  Left' = 0 /\ Spoilt' = (Spoilt \/ Left > 0)
<1>1. Left' = 0
  BY DEF Left, SEND, RECEIVE
<1>2. CASE txe = ENABLE
  <2>1. Spoilt' = TRUE
    BY <1>2 DEF Spoilt
  <2>2. Spoilt \/ Left > 0
    BY <1>2, LeftCounts DEF Spoilt, TypeOK
  <2> QED BY <1>1, <2>1, <2>2
<1>3. CASE txe # ENABLE
  <2>1. ~(Left > 0)
    BY <1>3, LeftCounts DEF TypeOK
  <2> QED BY <1>1, <1>3, <2>1 DEF Spoilt
<1> QED BY <1>2, <1>3

LEMMA RestartOfPort ==
  ASSUME TypeOK, txen' = RECEIVE, revce_count' = 0,
         UNCHANGED <<txe, send_count, rece_size>>, Stage # "booting",
         \/ Stage' = Stage
         \/ Stage \in {"serving", "silent"} /\ Stage' = "idle"
  PROVE  Port!Restart
<1>1. Left' = 0 /\ Spoilt' = (Spoilt \/ Left > 0)
  BY RestartSpoils
<1> QED BY <1>1 DEF Port!Restart, Left, Spoilt, SEND, RECEIVE

(* Setting up the UART silences an answer. *)
LEMMA SilenceOfPort ==
  ASSUME TypeOK, Uart1Init, UNCHANGED <<send_count, revce_count, rece_size>>,
         Stage = "serving", Stage' = "silent"
  PROVE  Port!Silence
<1>1. Left' = 0
  BY DEF Left, Uart1Init, ENABLE, DISABLE
<1>2. Spoilt' = (send_count # 0)
  BY DEF Spoilt, Uart1Init, ENABLE, DISABLE
<1>3. Spoilt' \in {Spoilt \/ Left > 0, FALSE}
  <2>1. CASE txe = ENABLE
    <3>1. Spoilt \/ Left > 0
      BY <2>1, LeftCounts DEF Spoilt, TypeOK
    <3>2. (Spoilt \/ Left > 0) = TRUE
      BY <3>1
    <3> QED BY <1>2, <3>2
  <2>2. CASE txe # ENABLE
    <3>1. ~(Left > 0)
      BY <2>2, LeftCounts DEF TypeOK
    <3> QED BY <1>2, <2>2, <3>1 DEF Spoilt
  <2> QED BY <2>1, <2>2
<1> QED BY <1>1, <1>3 DEF Port!Silence, Left, Spoilt, Uart1Init, SEND

(* Steps that the bus does not see. *)
LEMMA Unseen ==
  ASSUME UNCHANGED <<txen, txe, sendbyte_num, send_count, revce_count, rece_size>>,
         Stage' = Stage
  PROVE  UNCHANGED Port!vars
BY DEF Port!vars, ToSend

LEMMA InterruptOnPort ==
  ASSUME PortInv, PortInv', Interrupt
  PROVE  [Port!Next]_Port!vars
<1> USE DEF PortInv
<1>1. Stage' = Stage
  BY DEF Interrupt, RxByte, RxOverflow, TxByte, Stage
<1>2. CASE RxByte
  <2>1. rece_size' \in Nat
    BY ConstantsAssumption DEF TypeOK
  <2>2. /\ txen = RECEIVE /\ revce_count' = revce_count + 1
        /\ UNCHANGED <<txen, txe, sendbyte_num, send_count>>
    BY <1>2 DEF RxByte, LineSpeaks, tx
  <2>3. Port!Hear
    BY <1>1, <2>1, <2>2 DEF Port!Hear, ToSend, SEND, RECEIVE
  <2> QED BY <2>3 DEF Port!Next
<1>3. CASE RxOverflow
  <2>1. txen = RECEIVE /\ txen' = RECEIVE /\ revce_count' = 0
    BY <1>3 DEF RxOverflow, LineSpeaks
  <2>2. UNCHANGED <<txe, send_count, rece_size>>
    BY <1>3 DEF RxOverflow
  <2>3. Stage # "booting"
    BY <2>1 DEF SilentInv, Stage, SEND, RECEIVE
  <2>4. Port!Restart
    BY <1>1, <2>1, <2>2, <2>3, RestartOfPort
  <2> QED BY <2>4 DEF Port!Next
<1>4. CASE TxByte
  <2>1. txe = ENABLE /\ UNCHANGED <<rece_size, sendbyte_num>>
    BY <1>4 DEF TxByte
  <2>2. CASE LastByte
    <3>1. /\ txe' = DISABLE /\ txen' = RECEIVE /\ revce_count' = 0
          /\ send_count' = 0
      BY <1>4, <2>2 DEF TxByte, NextIndex, SerialRestart
    <3>2. ToSend = 1
      BY <2>2, ConstantsAssumption DEF LastByte, ToSend, TypeOK
    <3>3. Port!SendLast
      BY <1>1, <2>1, <3>1, <3>2
         DEF Port!SendLast, TypeOK, SEND, RECEIVE, ENABLE, DISABLE
    <3> QED BY <3>3 DEF Port!Next
  <2>3. CASE ~LastByte
    <3>1. send_count' = send_count + 1 /\ UNCHANGED <<txe, txen, revce_count>>
      BY <1>4, <2>3 DEF TxByte, NextIndex
    <3>2. ToSend > 1 /\ ToSend' = ToSend - 1
      BY <2>1, <2>3, <3>1, ConstantsAssumption DEF LastByte, ToSend, TypeOK
    <3>3. CASE txen = SEND
      <4>1. Port!Send
        BY <1>1, <2>1, <3>1, <3>2, <3>3 DEF Port!Send
      <4> QED BY <4>1 DEF Port!Next
    <3>4. CASE txen # SEND
      BY <1>1, <2>1, <3>1, <3>4 DEF Port!vars
    <3> QED BY <3>3, <3>4
  <2> QED BY <2>2, <2>3
<1> QED BY <1>2, <1>3, <1>4 DEF Interrupt

LEMMA AnswerOnPort ==
  ASSUME PortInv, PortInv',
         CheckAccepts \/ CheckRejects \/ InitSendCom \/ ResponseCmd
  PROVE  [Port!Next]_Port!vars
<1> USE DEF PortInv, Goto, ShUnch, SerialRestart, rx, tx
<1>1. CASE CheckAccepts
  <2>1. rece_size >= 6
    BY <1>1 DEF CheckAccepts, SizeInv
  <2>2. Port!Accept
    BY <1>1, <2>1 DEF CheckAccepts, Port!Accept, Stage, ToSend
  <2> QED BY <2>2 DEF Port!Next
<1>2. CASE CheckRejects
  <2>1. Stage # "booting" /\ Stage' = Stage
    BY <1>2 DEF CheckRejects, Stage
  <2>2. Port!Restart
    BY <1>2, <2>1, RestartOfPort DEF CheckRejects
  <2> QED BY <2>2 DEF Port!Next
<1>3. CASE InitSendCom
  <2>1. /\ Stage = "accepted" /\ Stage' = "answering" /\ txen' = SEND
        /\ UNCHANGED <<txe, sendbyte_num, send_count, revce_count, rece_size>>
    BY <1>3 DEF InitSendCom, Stage
  <2>2. CASE txe = ENABLE
    <3>1. ToSend \in UNION {1..n : n \in AnswerLens}
      BY <2>2, RestIsPart DEF SendInv
    <3>2. ToSend' = ToSend /\ ToSend # 0
      BY <2>1, LeftCounts DEF ToSend
    <3>3. Port!Drive
      <4>1. CASE txen = SEND
        BY <2>1, <2>2, <3>2, <4>1 DEF Port!Drive, SEND, RECEIVE
      <4>2. CASE txen = RECEIVE
        BY <2>1, <2>2, <3>1, <3>2, <4>2
           DEF Port!Drive, Port!Parts, SEND, RECEIVE
      <4> QED BY <4>1, <4>2 DEF TypeOK
    <3> QED BY <3>3 DEF Port!Next
  <2>3. CASE txe # ENABLE
    <3>1. Port!Drive
      BY <2>1, <2>3 DEF Port!Drive
    <3> QED BY <3>1 DEF Port!Next
  <2> QED BY <2>2, <2>3
<1>4. CASE ResponseCmd
  <2>1. /\ Stage = "answering" /\ Stage' = "serving"
        /\ UNCHANGED <<txen, send_count, revce_count, rece_size>>
    BY <1>4 DEF ResponseCmd, Stage
  <2>2. CASE fn \in Answered
    <3>1. txe' = ENABLE /\ sendbyte_num' \in AnswerLens
      BY <1>4, <2>2 DEF ResponseCmd
    <3>2. ToSend' \in UNION {1..n : n \in AnswerLens}
      <4>1. sendbyte_num' \in Nat /\ sendbyte_num' >= 1
        BY <3>1, ConstantsAssumption
      <4>2. send_count' \in Nat
        BY DEF TypeOK
      <4>3. \A s, n \in Nat : n >= 1 => (IF s < n THEN n - s ELSE 1) \in 1..n
        OBVIOUS
      <4>4. ToSend' \in 1..sendbyte_num'
        BY <4>1, <4>2, <4>3, Zenon DEF ToSend
      <4> QED BY <3>1, <4>4
    <3>3. txe = DISABLE /\ send_count = 0 => ToSend' \in AnswerLens
      BY <2>1, <3>1, ConstantsAssumption DEF ToSend
    <3>4. Port!Begin
      <4>1. CASE txen = RECEIVE
        BY <2>1, <3>1, <4>1 DEF Port!Begin, SEND, RECEIVE
      <4>2. CASE txen = SEND
        <5>1. CASE txe = DISABLE
          BY <2>1, <3>1, <3>2, <3>3, <4>2, <5>1
             DEF Port!Begin, Port!Parts, SEND, RECEIVE, ENABLE, DISABLE
        <5>2. CASE txe = ENABLE
          <6>1. ToSend # 0
            BY LeftCounts
          <6> QED
            BY <2>1, <3>1, <3>2, <4>2, <5>2, <6>1
               DEF Port!Begin, Port!Parts, SEND, RECEIVE
        <5> QED BY <5>1, <5>2 DEF TypeOK
      <4> QED BY <4>1, <4>2 DEF TypeOK
    <3> QED BY <3>4 DEF Port!Next
  <2>3. CASE fn \notin Answered
    <3>1. Port!Begin
      BY <1>4, <2>1, <2>3 DEF ResponseCmd, Port!Begin, ToSend
    <3> QED BY <3>1 DEF Port!Next
  <2> QED BY <2>2, <2>3
<1> QED BY <1>1, <1>2, <1>3, <1>4

LEMMA WriteOnPort ==
  ASSUME PortInv,
         \/ DealOrdinary \/ DealBaudInit \/ DealBaudDone
         \/ DealReset \/ ResetUart \/ SoftReset
  PROVE  [Port!Next]_Port!vars
<1> USE DEF PortInv, Goto, ShUnch, SerialRestart, rx, tx
<1>1. CASE DealOrdinary
  <2>1. Port!Served
    BY <1>1 DEF DealOrdinary, Port!Served, Stage, ToSend
  <2> QED BY <2>1 DEF Port!Next
<1>2. CASE DealBaudInit \/ ResetUart
  <2>1. Stage = "serving" /\ Stage' = "silent"
    BY <1>2 DEF DealBaudInit, ResetUart, Stage
  <2>2. Uart1Init /\ UNCHANGED <<send_count, revce_count, rece_size>>
    BY <1>2 DEF DealBaudInit, ResetUart
  <2> QED BY <2>1, <2>2, SilenceOfPort DEF Port!Next
<1>3. CASE DealBaudDone
  <2>1. Stage \in {"serving", "silent"} /\ Stage' = "idle"
    BY <1>3 DEF DealBaudDone, Stage
  <2>2. /\ txen' = RECEIVE /\ revce_count' = 0
        /\ UNCHANGED <<txe, send_count, rece_size>>
    BY <1>3 DEF DealBaudDone
  <2>3. Port!Restart
    BY <2>1, <2>2, RestartOfPort
  <2> QED BY <2>3 DEF Port!Next
<1>4. CASE DealReset
  <2>1. Stage' = Stage
    BY <1>4 DEF DealReset, Stage
  <2> QED BY <1>4, <2>1, Unseen DEF DealReset
<1>5. CASE SoftReset
  <2>1. txen = SEND /\ txe = DISABLE
    BY <1>5 DEF SoftReset, SilentInv
  <2>2. Port!Reboot
    BY <1>5, <2>1
       DEF SoftReset, Uart1Init, Stage, Port!Reboot, ENABLE, DISABLE, SEND
  <2> QED BY <2>2 DEF Port!Next
<1> QED BY <1>1, <1>2, <1>3, <1>4, <1>5

LEMMA LoopOnPort ==
  ASSUME PortInv,
         \/ BootPrints \/ CommStarts
         \/ TagTest \/ TagLoad \/ TagStore \/ TagSeen
         \/ TimerTest \/ TimerLoad \/ TimerStore \/ TimerSeen \/ Wake
  PROVE  [Port!Next]_Port!vars
<1> USE DEF PortInv, Goto, ShUnch, SerialRestart, rx, tx
<1>1. CASE BootPrints
  <2>1. txe = DISABLE /\ send_count = 0
    BY <1>1 DEF BootPrints, SilentInv
  <2>2. Port!Booted
    BY <1>1, <2>1
       DEF BootPrints, Stage, Port!Booted, SEND, RECEIVE, ENABLE, DISABLE
  <2> QED BY <2>2 DEF Port!Next
<1>2. CASE CommStarts \/ (TimerSeen /\ timeout = 0)
  <2>1. Stage # "booting" /\ Stage' = Stage
    BY <1>2 DEF CommStarts, TimerSeen, Stage
  <2>2. /\ txen' = RECEIVE /\ revce_count' = 0
        /\ UNCHANGED <<txe, send_count, rece_size>>
    BY <1>2 DEF CommStarts, TimerSeen
  <2>3. Port!Restart
    BY <2>1, <2>2, RestartOfPort
  <2> QED BY <2>3 DEF Port!Next
<1>3. CASE TagTest \/ TagLoad \/ TagStore \/ TagSeen
  <2>1. Stage' = Stage
    BY <1>3 DEF TagTest, TagLoad, TagStore, TagSeen, Stage
  <2> QED BY <1>3, <2>1, Unseen DEF TagTest, TagLoad, TagStore, TagSeen
<1>4. CASE TimerTest \/ TimerLoad \/ TimerStore \/ Wake
  <2>1. Stage' = Stage
    BY <1>4 DEF TimerTest, TimerLoad, TimerStore, Wake, Stage
  <2> QED BY <1>4, <2>1, Unseen DEF TimerTest, TimerLoad, TimerStore, Wake
<1>5. CASE TimerSeen /\ timeout # 0
  <2>1. Stage' = Stage
    BY <1>5 DEF TimerSeen, Stage
  <2> QED BY <1>5, <2>1, Unseen DEF TimerSeen
<1> QED BY <1>1, <1>2, <1>3, <1>4, <1>5

(* Wherever the interrupt lands, whatever the master writes and whether or *)
(* not it pauses, the bus sees an AnswerPort: the driver is on for whole   *)
(* frames and for the set-up of the UART only, and an answer goes out from *)
(* its first byte unless an earlier one was cut off.  Byte counts must be  *)
(* those Modbus allows, or a frame may be taken for whole at less than 6   *)
(* bytes (modbus.c:46-143, 161-167, 448-489, 597-611; main.c:113-133).     *)
THEOREM BusSeesAnswers ==
  ASSUME Counts \subseteq 0..(W - 10)
  PROVE  Spec => ImplementsAnswerPort
<1>1. Init => Port!Init
  BY DEF Init, Port!Init, Stage, SEND, RECEIVE, ENABLE, DISABLE
<1>2. Spec => []SizeInv
  <2>1. Init => SizeInv
    BY ConstantsAssumption DEF Init, SizeInv
  <2> QED BY <2>1, SizeInvStep, TypeCorrect, PTL DEF Spec
<1>3. PortInv /\ PortInv' /\ [Next]_vars => [Port!Next]_Port!vars
  <2>1. CASE UNCHANGED vars
    <3>1. Stage' = Stage
      BY <2>1 DEF vars, Stage
    <3> QED BY <2>1, <3>1, Unseen DEF vars, rx, tx
  <2> QED
    BY <2>1, InterruptOnPort, AnswerOnPort, WriteOnPort, LoopOnPort
       DEF Next, Comm
<1>4. PortInv <=> TypeOK /\ SizeInv /\ SilentInv /\ SendInv
  BY DEF PortInv
<1> QED
  BY <1>1, <1>2, <1>3, <1>4, TypeCorrect, SilentInvariance, SendInvariance, PTL
     DEF Spec, ImplementsAnswerPort, Port!Spec
=============================================================================
