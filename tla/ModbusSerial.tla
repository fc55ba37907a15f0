---------------------------- MODULE ModbusSerial ----------------------------
(***************************************************************************)
(* The serial Modbus port: the USART1 interrupt (MODBUS/modbus.c) that     *)
(* assembles a request byte by byte and sends the answer byte by byte, and *)
(* the COMM task (USER/main.c) that every 5 ms counts down dealwithTag and *)
(* the receive timeout, checks the request and starts the answer.          *)
(*                                                                         *)
(* The driver of the RS-485 bus is also switched by uart1_init: in         *)
(* EEP_Dat_Init, at every boot and before every reset that a master asks   *)
(* for, and when the baud rate is written (SYSTEM/usart/usart.c).          *)
(*                                                                         *)
(* The two share revce_count, rece_size, dealwithTag and the timeout       *)
(* without any lock.  Each access COMM makes to a shared counter is a step *)
(* of its own, so the interrupt may land between the load and the store of *)
(* "dealwithTag--" or "serial_receive_timeout_count--".  The interrupt     *)
(* itself runs with interrupts masked: one byte is one step.               *)
(*                                                                         *)
(* A received byte is abstracted to what the code looks at: the class of   *)
(* the function code (byte 1), whether the register is 0x000a (bytes 2,3), *)
(* the byte count of a multiple write (byte 6).  Any byte may follow any   *)
(* other, so line noise and cut frames are included.  Whether device id,   *)
(* plug-and-play gate and CRC accept a frame is left open.                 *)
(*                                                                         *)
(* modbus.protocal is MODBUS throughout.  Writes of the baud rate and the  *)
(* reset come over the serial line only.                                   *)
(***************************************************************************)
EXTENDS Integers

CONSTANTS
  W,                      \* values of a u8: 256 in the firmware
  USART_REC_LEN,          \* size of USART_RX_BUF: 200
  NO_LEN,                 \* "length not known yet": 250
  SERIAL_RECEIVE_TIMEOUT, \* 3 iterations of the COMM loop
  Counts,                 \* byte counts a multiple write may announce
  AnswerLens,             \* lengths an answer may have
  Turnaround              \* TRUE: after an answer the line stays silent
                          \* until COMM has finished an iteration

DATABUFLEN_SCAN == 12
SEND    == "send"
RECEIVE == "receive"
ENABLE  == "enable"
DISABLE == "disable"

ASSUME ConstantsAssumption ==
  /\ W \in Nat /\ USART_REC_LEN \in Nat /\ NO_LEN \in Nat
  /\ DATABUFLEN_SCAN < USART_REC_LEN
  /\ USART_REC_LEN < NO_LEN
  /\ NO_LEN < W
  /\ SERIAL_RECEIVE_TIMEOUT \in 1..(W - 1)
  /\ Counts \subseteq 0..(W - 1)
  /\ AnswerLens \subseteq 1..(W - 1)
  /\ Turnaround \in BOOLEAN

VARIABLES
  revce_count,  \* bytes in USART_RX_BUF
  rece_size,    \* length of the frame being received, as known so far
  fn,           \* class of USART_RX_BUF[1]
  regno,        \* class of the register USART_RX_BUF[2..3]
  timeout,      \* serial_receive_timeout_count
  dealwithTag,
  txen,         \* direction of the RS-485 transceiver
  txe,          \* TXE interrupt
  sendbyte_num,
  send_count,
  pc,           \* where COMM is in its loop
  reg,          \* the counter value COMM has loaded
  gap           \* "settling": an answer ended and COMM has not slept since

rx   == <<revce_count, rece_size, fn, regno>>
tx   == <<txen, txe, sendbyte_num, send_count>>
vars == <<rx, timeout, dealwithTag, tx, pc, reg, gap>>

Functions == {"READ", "WRITE", "MULTIPLE", "CHECKONLINE", "OTHER"}
Registers == {"0x0a", "other"}
Answered  == Functions \ {"OTHER"}

(* boot, start: main before COMM runs.  Then the points of COMM's loop, in *)
(* the order they are reached.                                             *)
Points == {"boot", "start",
           "tagTest", "tagLoad", "tagStore", "tagSeen",
           "check", "sendOn", "respond", "deal", "baud", "reset", "reload",
           "timerTest", "timerLoad", "timerStore", "timerSeen", "sleep"}

-----------------------------------------------------------------------------
(* Shared helpers. *)

SerialRestartHoldsBus ==
  /\ txen' = txen
  /\ revce_count' = 0
  /\ dealwithTag' = 0

SerialRestart ==
  /\ txen' = RECEIVE
  /\ revce_count' = 0
  /\ dealwithTag' = 0

Goto(p) == pc' = p

(* "--" on a u8. *)
DecrementedNoWrap(n) == n - 1
Decremented(n) == IF n = 0 THEN W - 1 ELSE n - 1

(* uart1_init: the UART is reset, which turns its TXE interrupt off, and   *)
(* PA8 goes high: the driver is on, with nothing to send.                  *)
Uart1Init == txen' = SEND /\ txe' = DISABLE

(* The processor has started and EEP_Dat_Init has called uart1_init. *)
Init ==
  /\ revce_count = 0 /\ rece_size = 0 /\ fn = "OTHER" /\ regno = "other"
  /\ timeout = 0
  /\ dealwithTag = 0
  /\ txen = SEND /\ txe = DISABLE /\ sendbyte_num = 0 /\ send_count = 0
  /\ pc = "boot" /\ reg = 0 /\ gap = "free"

-----------------------------------------------------------------------------
(* Boot. *)

(* EEP_Dat_Init ends, and main prints: with each character fputc turns the *)
(* driver on and off again, and after the last one it is off.              *)
BootPrints ==
  /\ pc = "boot" /\ Goto("start")
  /\ txen' = RECEIVE
  /\ UNCHANGED <<rx, timeout, dealwithTag, txe, sendbyte_num, send_count,
                 reg, gap>>

(* COMM starts: modbus_init, then a first delay. *)
CommStarts ==
  /\ pc = "start" /\ Goto("sleep")
  /\ SerialRestart
  /\ timeout' = SERIAL_RECEIVE_TIMEOUT
  /\ UNCHANGED <<rece_size, fn, regno, txe, sendbyte_num, send_count,
                 reg, gap>>

-----------------------------------------------------------------------------
(* USART1 receive interrupt. *)

(* The transceiver listens, and the line may carry a byte now. *)
LineSpeaks ==
  /\ txen = RECEIVE
  /\ Turnaround => gap = "free"

(* Byte 0 of a frame arms the timeout. *)
FrameStartsUnarmed ==
  /\ rece_size' = NO_LEN
  /\ UNCHANGED <<timeout, fn, regno, dealwithTag>>
FrameStarts ==
  /\ rece_size' = NO_LEN
  /\ timeout' = SERIAL_RECEIVE_TIMEOUT
  /\ UNCHANGED <<fn, regno, dealwithTag>>

OnlineCheckSeen ==
  /\ rece_size' = IF fn = "CHECKONLINE" THEN 6 ELSE rece_size
  /\ UNCHANGED <<fn, regno, timeout, dealwithTag>>

RegisterSeen ==
  /\ regno' \in Registers
  /\ IF regno' = "0x0a" /\ fn = "WRITE"
       THEN /\ rece_size' = DATABUFLEN_SCAN
            /\ timeout' = SERIAL_RECEIVE_TIMEOUT
       ELSE UNCHANGED <<rece_size, timeout>>
  /\ UNCHANGED <<fn, dealwithTag>>

(* Byte 6 settles the length; both sums are stored in a u8. *)
LengthSeen ==
  /\ \/ /\ fn \in {"READ", "WRITE"}
        /\ rece_size' = 8
        /\ UNCHANGED timeout
     \/ /\ fn = "MULTIPLE"
        /\ \E count \in Counts :
             /\ rece_size' = (count + 9) % W
             /\ timeout' = (count + 8) % W
     \/ /\ fn \in {"CHECKONLINE", "OTHER"}
        /\ rece_size' = NO_LEN
        /\ UNCHANGED timeout
  /\ UNCHANGED <<fn, regno, dealwithTag>>

(* Any other byte only matters when it completes the frame. *)
CompletesAt(n) ==
  IF n = rece_size
    THEN timeout' = 0 /\ dealwithTag' = 2
    ELSE UNCHANGED <<timeout, dealwithTag>>

RxByte ==
  /\ LineSpeaks
  /\ revce_count < USART_REC_LEN
  /\ revce_count' = revce_count + 1
  /\ \/ revce_count = 0 /\ FrameStarts
     \/ revce_count = 2 /\ OnlineCheckSeen
     \/ revce_count = 3 /\ RegisterSeen
     \/ revce_count = 6 /\ LengthSeen
     \/ /\ revce_count \notin {0, 2, 3, 6}
        /\ IF revce_count = 1 THEN fn' \in Functions ELSE UNCHANGED fn
        /\ CompletesAt(revce_count + 1)
        /\ UNCHANGED <<rece_size, regno>>
  /\ UNCHANGED <<tx, pc, reg, gap>>

(* The buffer is full: the interrupt restarts reception, falls through the *)
(* length tests with revce_count = 0 and leaves the byte in the data       *)
(* register, which raises the interrupt again.                             *)
RxOverflow ==
  /\ LineSpeaks
  /\ revce_count = USART_REC_LEN
  /\ revce_count' = 0
  /\ txen' = RECEIVE
  /\ IF rece_size = 0
       THEN timeout' = 0 /\ dealwithTag' = 2
       ELSE dealwithTag' = 0 /\ UNCHANGED timeout
  /\ UNCHANGED <<rece_size, fn, regno, txe, sendbyte_num, send_count,
                 pc, reg, gap>>

-----------------------------------------------------------------------------
(* USART1 transmit interrupt: one byte, and after the last one the port    *)
(* goes back to receiving.                                                 *)

\* Mutants: the port is given back a byte too early; the end of the answer is
\* tested with ==.
LastByteEarly == send_count + 2 >= sendbyte_num
LastByteExact == send_count + 1 = sendbyte_num

LastByte == send_count + 1 >= sendbyte_num

NextIndex == IF LastByte THEN 0 ELSE send_count + 1

TxByte ==
  /\ txe = ENABLE
  /\ send_count' = NextIndex
  /\ IF LastByte
       THEN /\ txe' = DISABLE
            /\ SerialRestart
            /\ gap' = "settling"
       ELSE UNCHANGED <<txe, txen, revce_count, dealwithTag, gap>>
  /\ UNCHANGED <<rece_size, fn, regno, timeout, sendbyte_num, pc, reg>>

-----------------------------------------------------------------------------
(* COMM: if(dealwithTag) { dealwithTag--; if(dealwithTag == 1) ... }       *)
(* dealwithTag is not volatile: a build may reload it or keep it in a      *)
(* register between the test, the decrement and the comparison.            *)

ShUnch == UNCHANGED <<rx, timeout, tx>>

TagTest ==
  /\ pc = "tagTest"
  /\ Goto(IF dealwithTag # 0 THEN "tagLoad" ELSE "timerTest")
  /\ ShUnch /\ UNCHANGED <<dealwithTag, reg, gap>>

TagLoad ==
  /\ pc = "tagLoad" /\ Goto("tagStore")
  /\ reg' = dealwithTag
  /\ ShUnch /\ UNCHANGED <<dealwithTag, gap>>

TagStore ==
  /\ pc = "tagStore" /\ Goto("tagSeen")
  /\ reg' = Decremented(reg)
  /\ dealwithTag' = reg'
  /\ ShUnch /\ UNCHANGED gap

TagSeen ==
  /\ pc = "tagSeen"
  /\ \E seen \in {reg, dealwithTag} :
       Goto(IF seen = 1 THEN "check" ELSE "timerTest")
  /\ reg' = 0
  /\ ShUnch /\ UNCHANGED <<dealwithTag, gap>>

-----------------------------------------------------------------------------
(* COMM: dealwithData *)

(* checkData accepts only a whole frame with a function it knows; address, *)
(* plug-and-play gate and CRC may still reject it.                         *)
CheckAccepts ==
  /\ pc = "check"
  /\ revce_count = rece_size /\ fn \in Answered
  /\ Goto("sendOn")
  /\ ShUnch /\ UNCHANGED <<dealwithTag, reg, gap>>

CheckRejects ==
  /\ pc = "check"
  /\ Goto("timerTest")
  /\ SerialRestart
  /\ UNCHANGED <<rece_size, fn, regno, timeout, txe, sendbyte_num,
                 send_count, reg, gap>>

InitSendCom ==
  /\ pc = "sendOn" /\ Goto("respond")
  /\ txen' = SEND
  /\ UNCHANGED <<rx, timeout, dealwithTag, txe, sendbyte_num, send_count,
                 reg, gap>>

(* responseCmd(0, ...): every function that is answered enables the TXE     *)
(* interrupt with the length of its answer.                                *)
ResponseCmd ==
  /\ pc = "respond" /\ Goto("deal")
  /\ IF fn \in Answered
       THEN sendbyte_num' \in AnswerLens /\ txe' = ENABLE
       ELSE UNCHANGED <<sendbyte_num, txe>>
  /\ UNCHANGED <<rx, timeout, dealwithTag, txen, send_count, reg, gap>>

(* internalDeal(0, ...): the write itself, seen from the port. *)
DealOrdinary ==
  /\ pc = "deal" /\ Goto("timerTest")
  /\ ShUnch /\ UNCHANGED <<dealwithTag, reg, gap>>

(* A write of the baud rate: uart1_init, the rate goes to EEPROM, and then *)
(* modbus_init.  An unknown rate only gets modbus_init.                    *)
DealBaudInit ==
  /\ pc = "deal" /\ fn = "WRITE" /\ Goto("baud")
  /\ Uart1Init
  /\ UNCHANGED <<rx, timeout, dealwithTag, sendbyte_num, send_count,
                 reg, gap>>

DealBaudDone ==
  /\ \/ pc = "baud"
     \/ pc = "deal" /\ fn = "WRITE"
  /\ Goto("timerTest")
  /\ SerialRestart
  /\ timeout' = SERIAL_RECEIVE_TIMEOUT
  /\ UNCHANGED <<rece_size, fn, regno, txe, sendbyte_num, send_count,
                 reg, gap>>

(* A write of the reset register: the EEPROM is erased, or not, and         *)
(* EEP_Dat_Init stores version and defaults; the answer goes on meanwhile. *)
DealReset ==
  /\ pc = "deal" /\ fn = "WRITE" /\ Goto("reset")
  /\ ShUnch /\ UNCHANGED <<dealwithTag, reg, gap>>

(* EEP_Dat_Init comes to uart1_init and then loads the rest of the EEPROM. *)
ResetUart ==
  /\ pc = "reset" /\ Goto("reload")
  /\ Uart1Init
  /\ UNCHANGED <<rx, timeout, dealwithTag, sendbyte_num, send_count,
                 reg, gap>>

(* SoftReset: the device boots again. *)
SoftReset ==
  /\ pc = "reload" /\ pc' = "boot"
  /\ revce_count' = 0 /\ rece_size' = 0 /\ fn' = "OTHER" /\ regno' = "other"
  /\ timeout' = 0
  /\ dealwithTag' = 0
  /\ Uart1Init /\ sendbyte_num' = 0 /\ send_count' = 0
  /\ reg' = 0 /\ gap' = "free"

-----------------------------------------------------------------------------
(* COMM: if(serial_receive_timeout_count > 0) { ...--; if(... == 0) ... }  *)
(* The counter is volatile: every mention is a memory access.              *)

TimerTest ==
  /\ pc = "timerTest"
  /\ Goto(IF timeout > 0 THEN "timerLoad" ELSE "sleep")
  /\ gap' = IF timeout > 0 THEN gap ELSE "free"
  /\ ShUnch /\ UNCHANGED <<dealwithTag, reg>>

TimerLoad ==
  /\ pc = "timerLoad" /\ Goto("timerStore")
  /\ reg' = timeout
  /\ ShUnch /\ UNCHANGED <<dealwithTag, gap>>

TimerStore ==
  /\ pc = "timerStore" /\ Goto("timerSeen")
  /\ timeout' = Decremented(reg)
  /\ reg' = 0
  /\ UNCHANGED <<rx, dealwithTag, tx, gap>>

TimerSeen ==
  /\ pc = "timerSeen" /\ Goto("sleep")
  /\ IF timeout = 0
       THEN SerialRestart
       ELSE UNCHANGED <<txen, revce_count, dealwithTag>>
  /\ gap' = "free"
  /\ UNCHANGED <<rece_size, fn, regno, timeout, txe, sendbyte_num,
                 send_count, reg>>

(* delay_ms(5) is over. *)
Wake ==
  /\ pc = "sleep" /\ Goto("tagTest")
  /\ ShUnch /\ UNCHANGED <<dealwithTag, reg, gap>>

-----------------------------------------------------------------------------
Interrupt == RxByte \/ RxOverflow \/ TxByte

Comm ==
  \/ BootPrints \/ CommStarts
  \/ TagTest \/ TagLoad \/ TagStore \/ TagSeen
  \/ CheckAccepts \/ CheckRejects \/ InitSendCom \/ ResponseCmd
  \/ DealOrdinary \/ DealBaudInit \/ DealBaudDone
  \/ DealReset \/ ResetUart \/ SoftReset
  \/ TimerTest \/ TimerLoad \/ TimerStore \/ TimerSeen
  \/ Wake

Next == Interrupt \/ Comm

Spec == Init /\ [][Next]_vars

(* main goes on to start the tasks; COMM is one of the highest priority in *)
(* use and never waits without a timeout; an enabled TXE interrupt is raised as soon as the transmitter  *)
(* is free.  Nobody promises that another byte arrives.                    *)
FairSpec == Spec /\ WF_vars(Comm) /\ WF_vars(TxByte)

-----------------------------------------------------------------------------
TypeOK ==
  /\ revce_count \in 0..USART_REC_LEN
  /\ rece_size \in 0..(W - 1)
  /\ fn \in Functions
  /\ regno \in Registers
  /\ timeout \in 0..(W - 1)
  /\ dealwithTag \in 0..(W - 1)
  /\ txen \in {SEND, RECEIVE} /\ txe \in {ENABLE, DISABLE}
  /\ sendbyte_num \in 0..(W - 1)
  /\ send_count \in Nat
  /\ pc \in Points
  /\ reg \in 0..(W - 1)
  /\ gap \in {"free", "settling"}

(* The port is not ready for a fresh frame. *)
Occupied == revce_count > 0 \/ txen = SEND

(* COMM has already decided to free the port, or is about to answer. *)
CommWillFree ==
  \/ pc \in {"boot", "start", "check", "sendOn", "respond", "deal", "baud",
              "reset", "reload"}
  \/ pc = "tagSeen" /\ dealwithTag = 1 /\ reg = 1
  \/ pc = "timerSeen" /\ timeout = 0

(* The port is never stuck: whenever bytes are waiting in the buffer or    *)
(* the driver holds the bus, the receive timeout is running, or a frame is *)
(* waiting for COMM, or an answer is going out, or COMM is about to free   *)
(* the port (modbus.c:54-58, 98-100, 131; main.c:119-133).                 *)
NeverStuck ==
  Occupied => \/ timeout > 0
              \/ dealwithTag > 1
              \/ txe = ENABLE
              \/ CommWillFree

(* "full packet received - turn off serial timeout" (modbus.c:98-99): a    *)
(* full packet that waits for COMM cannot be timed out under its answer.   *)
TimeoutOffForFullPacket ==
  revce_count = rece_size /\ dealwithTag = 2 => timeout = 0

(* uart_send, sendbyte_num and the interrupt's own send_count are shared   *)
(* by all answers.  Whatever became of the one before, cut off by a new    *)
(* baud rate (modbus.c:486) or written over while it was being sent, the   *)
(* interrupt never sends a byte beyond the longest answer (modbus.c:118-120, *)
(* 161-167).                                                               *)
SendsWithinAnswers == txe = ENABLE => \E n \in AnswerLens : send_count < n

(* To the bus the port is an AnswerPort, wherever the interrupt lands and  *)
(* whatever the answered requests write: it drives for whole frames and    *)
(* for the set-up of the UART only, an answer begins at its first byte     *)
(* unless the one before was cut off, and after a last byte the port       *)
(* listens (modbus.c:46-143, 161-167, 448-489, 597-611; main.c:113-133,    *)
(* 313-320).                                                               *)
Stage ==
  CASE pc = "boot"               -> "booting"
    [] pc = "sendOn"             -> "accepted"
    [] pc = "respond"            -> "answering"
    [] pc \in {"deal", "reset"}  -> "serving"
    [] pc \in {"baud", "reload"} -> "silent"
    [] OTHER                     -> "idle"
ToSend == IF send_count < sendbyte_num THEN sendbyte_num - send_count ELSE 1
Port == INSTANCE AnswerPort WITH
  Shortest <- 6,
  Lengths  <- AnswerLens,
  bus    <- IF txen = SEND THEN "drive" ELSE "listen",
  stage  <- Stage,
  heard  <- revce_count,
  size   <- rece_size,
  left   <- IF txe = ENABLE /\ txen = SEND THEN ToSend ELSE 0,
  spoilt <- IF txe = ENABLE THEN txen = RECEIVE ELSE send_count # 0
ImplementsAnswerPort == Port!Spec

(* The port always comes back: received bytes are eventually dealt with or *)
(* dropped and the bus is released.                                        *)
PortFreed == Occupied ~> ~Occupied

(* What COMM has still to count down before it acts, in steps of its two   *)
(* counters: the value it has loaded counts, and 0 counts as what a "--"   *)
(* makes of it.                                                            *)
ToCount(n) == IF n = 0 THEN W ELSE n
TagLeft ==
  CASE pc = "tagLoad"  -> 2 * ToCount(dealwithTag)
    [] pc = "tagStore" -> 2 * ToCount(reg)
    [] pc \in {"tagSeen", "check", "sendOn", "respond"} -> 2 * dealwithTag + 2
    [] pc \in {"deal", "baud", "reset", "reload"} -> 2 * dealwithTag + 1
    [] OTHER -> 2 * dealwithTag
TimerLeft ==
  CASE pc = "timerLoad"  -> ToCount(timeout)
    [] pc = "timerStore" -> ToCount(reg)
    [] pc = "timerSeen"  -> timeout + 1
    [] OTHER -> timeout
AnswerLeft ==
  IF txe = ENABLE /\ ~LastByte THEN sendbyte_num - send_count ELSE 0

(* How far COMM has come in its loop.  With the timeout off the loop ends  *)
(* at its test.                                                            *)
Place ==
  [sleep |-> 0, tagTest |-> 1, tagLoad |-> 2, tagStore |-> 3, tagSeen |-> 4,
   check |-> 5, sendOn |-> 6, respond |-> 7, deal |-> 8, baud |-> 9,
   reset |-> 10, reload |-> 11, boot |-> 12, start |-> 13,
   timerTest |-> 14, timerLoad |-> 15, timerStore |-> 16, timerSeen |-> 17]
Position == IF pc = "timerTest" /\ TimerLeft = 0 THEN -1 ELSE Place[pc]

(* A step that brings COMM or the transmitter nearer to freeing the port;  *)
(* while a byte of the answer is on its way COMM may go round.             *)
Nearer ==
  \/ TagLeft' + TimerLeft' < TagLeft + TimerLeft
  \/ /\ TagLeft' + TimerLeft' = TagLeft + TimerLeft
     /\ \/ AnswerLeft' < AnswerLeft
        \/ AnswerLeft' = AnswerLeft /\ Position' > Position
        \/ txe = ENABLE /\ UNCHANGED <<tx, timeout, dealwithTag>>

(* Nothing keeps the port occupied for ever, wherever the interrupt lands: *)
(* as long as it is, a step takes the bus, adds a byte (there is room for  *)
(* USART_REC_LEN), or brings it nearer to being free, a restart included   *)
(* (modbus.c:46-143; main.c:113-136).                                      *)
PortFreedNearer ==
  [][Occupied /\ Occupied' =>
       \/ txen = RECEIVE /\ txen' = SEND
       \/ txen' = txen /\ revce_count' > revce_count
       \/ UNCHANGED txen /\ revce_count' \in {0, revce_count} /\ Nearer]_vars
=============================================================================
