# Three-phase power meter: TLA+ models and proofs

The firmware of an STM32F103 power meter: three ADE7753 metering chips, a
RS-485 port that speaks Modbus RTU or BACnet MS/TP, an ENC28J60 Ethernet port
with Modbus TCP and a UDP discovery protocol, an AT24C EEPROM for the device
configuration and three pages of the processor's flash for the point
configuration. It runs on FreeRTOS with preemption and time slicing; the build
(`USER/test.uvprojx`) is not optimised, so every mention of a shared variable is a
memory access. There are no locks: the tasks share plain global variables.

## 1. Inventory

| Component | Where | State | Operations | Talks to |
|---|---|---|---|---|
| Serial Modbus port | `MODBUS/modbus.c:37-175`, `3092-3222`; COMM task `USER/main.c:113-136` | `USART_RX_BUF`, `revce_count`, `rece_size`, `serial_receive_timeout_count`, `dealwithTag`, `uart_send`, `sendbyte_num`, `send_count`, `TXEN` | receive byte, transmit byte (interrupt); count down tag and timeout, check, answer, execute (COMM, every 5 ms) | register requests, CRC, BACnet MS/TP (same interrupt) |
| Register requests | `modbus.c:176-327`, `internalDeal` 329-952, `responseCmd` 955-3090 | the `modbus` structure, points, calibration registers | read block, write register, write block, commit of the network settings, baud rate, serial number, reset | COMM (serial) and NET (TCP) both call them; EEPROM, flash marks, UART |
| Flash configuration store | `baclib/store.c`, `HARDWARE/STMFLASH/stmflash.c`; LED task `HARDWARE/LED/led.c:54-171` | RAM points `outputs`, `inputs`, `var`; `write_page_en`; flash pages and their flags; flash lock | load at boot, save marked pages, factory reset | marked by requests and BACnet writes |
| EEPROM | `HARDWARE/24CXX/24cxx.c`, `HARDWARE/IIC/myiic.c` | bytes, write protection, I2C lines | write byte (with two waits), read byte | every task writes it |
| Device configuration | `EEP_Dat_Init` `main.c:245-590`, `modbus.c:393-611` | `modbus.*` and their EEPROM copies, `SNWriteflag`, `IP_Change`, `update` | load or set defaults at boot, write, commit, erase | NET's reset countdown |
| NET task | `main.c:138-240`, `uIP-APP/tapdev.c` | uIP's connections, the reset countdown | poll, time out, reset | TCP server, UDP discovery |
| Modbus TCP server | `uIP-APP/tcp_modbus.c` | `tcp_server_databuf`, `tcp_server_sendbuf`, per-connection text pointer | new data, acknowledged, retransmit | register requests |
| UDP discovery | `uIP-APP/udp_scan.c` | `InformationStr`, `scan_temp` | scan, change address | device configuration |
| Power meter | `HARDWARE/ADE7753/ADE7753.c`, task `main.c:72-111`, `modbus.c:702-765` | `ade7753_regs`, `vrms_cal`, `irms_cal`, `wh_calibration` | read registers, wait for zero crossings, average, calibrate | register requests, EEPROM |
| BACnet objects, MS/TP task | `baclib/bacnet_function.c`, `bip.c`, prebuilt library | object values | read and write properties, send frames | flash marks, UART, configuration |
| Analog inputs, outputs | `IO_control/*.c`, prebuilt library | filters, raw values | convert, filter | points |
| LEDs, relays, RTC, SPI, DMA, timers, Ethernet chip | `HARDWARE/*` | registers | pure I/O | |
| FreeRTOS, uIP, ST library; uC/OS-II, FATFS, USB, LCD | vendored, partly unused | | | |

Task priorities (`main.c:44-70`): COMM, NET and MSTP 3, analog inputs and outputs 2,
power meter and LED 1.

### Hard behaviours, and what makes each component correct

* **Serial port.** The interrupt lands anywhere in COMM's loop; both write the
  same counters. Correct: bytes are always dealt with or dropped and the bus is
  released; an answer is driven to its last byte; answers do not overlap; the
  length of a frame is the one its function prescribes.
* **Flash store.** Power fails between erase, programming and flag; requests
  change the points while they are copied; a factory reset cuts into a save.
  Correct: boot never loads half a page; no marked change is lost; every mark is
  acted on; a factory reset stays.
* **EEPROM and device configuration.** Byte-wise writes that yield, from several
  tasks; resets in the middle; the network settings are a unit, their bytes are
  not. Correct: a restart finds the old or the new settings; what RAM answers is
  what a restart finds; the serial number is written once.
* **Answers.** The CRC accumulator, `uart_send` and `tcp_server_sendbuf` are shared.
  Correct: an answer's bytes belong to its request.
* **Power meter.** Waits for zero crossings; a calibration request and the meter
  task share one flag. Correct: every request is answered by done or failed.

`PROJECT.json` lists each hazard at its line.

## 2. Plan

Modules, most important first. Parameters are CONSTANTS with named assumptions,
one action per operation, no RECURSIVE operator in a module with theorems.

1. `AnswerPort`, `ModbusSerial` (done): what the bus may expect, and port,
   interrupt, COMM and the set-up of the UART at boot and by requests. Proved, with
   the interrupt anywhere: types, never stuck, always nearer to being free, no byte
   beyond an answer, the refinement.
2. `PageStore`, `FlashStore` (done): abstract and detailed flash store. Proved:
   types, committed pages are whole, no marked change is lost, pages are saved in
   turn, the refinement.
3. `EepromBus` (done): the EEPROM between tasks of one priority. Proved: the
   write protection is closed at rest; a task alone stores its bytes.
4. `NetConfig`, `NetConfigWhole` (done): network settings from boot over commit and
   UDP change to the reset, with power failures. Proved: types, that the
   bus is only used as `EepromBus` says and the chip protected at rest, that what is
   served is stored while one task writes, that settings changed over the network
   are whole, and that nothing puts the reset off.
5. `AnswerStream`, `TcpServer` (done): what each connection may expect, and the
   shared send buffer, the callbacks, retransmissions and timeouts. Proved: all its
   invariants, the refinement, that nothing is retried for ever, and that a single
   master gets the same answer again.
6. `PowerMeter`, `MCPowerMeter` (done): measuring, the calibration of voltage and
   current, the calibration handshake. Proved: all its invariants, and that nothing takes the
   answer to a calibration back.

Left, in this order: `RequestBuffer`, `ModbusSerial` with the identity of requests,
for execution that reads the buffer after the answer has left; `ResponseCrc`, the
CRC accumulator that answers over TCP and the serial line share; `SerialNumber`, the
words that may be written once; `IapWriter` and the analog filter, pure
algorithms. Each run answers one question.

Composition: `NetConfig` instantiates `EepromBus` and stores every byte through its
actions, which `UsesTheBus` proves; `NetConfigWhole` extends `NetConfig` with a history;
`RequestBuffer` would extend `ModbusSerial`; the online check that NET answers on the
serial line (`modbus.c:3048`) would join `ModbusSerial` with `TcpServer`.

## 3. What is modelled

### `ModbusSerial`

State: the variables of `modbus.c:22-39` with the frame reduced to its function
class (`fn`), whether its register is 0x000a (`regno`), and the counts; the direction
of the transceiver (`txen`), the TXE interrupt (`txe`); where COMM is in its loop (`pc`)
and what it has loaded (`reg`).

Actions: `RxByte` is the receive branch of the interrupt, one disjunct per test on
`revce_count` (`FrameStarts`, `OnlineCheckSeen`, `RegisterSeen`, `LengthSeen`,
`CompletesAt`); `RxOverflow` the full buffer; `TxByte` the transmit branch. COMM is
`TagTest` ... `Wake`, one step per access to a shared counter: the load and the store of
`dealwithTag--` (`main.c:121`) and `serial_receive_timeout_count--` (`main.c:128`) are
steps of their own. `CheckAccepts`/`CheckRejects`, `InitSendCom`, `ResponseCmd` and the
four `Deal...` actions are `dealwithData`. `SerialRestart` is `serial_restart`.

Abstracted: any byte may follow any other, so noise and cut frames are included;
address, CRC and plug-and-play gate are an open choice in `CheckAccepts`; the wait
for the last bit in the transmit interrupt takes no time. `modbus.protocal` is MODBUS.

`uart1_init` resets the UART, which turns TXE off, and raises PA8: the driver is on with
nothing to send. So the model begins: `Init` is the processor after the `uart1_init` of
`EEP_Dat_Init`; in `BootPrints` main prints, and each character switches the driver on and off,
so that it is off after the last; `CommStarts` is `modbus_init`. A write of the baud rate is
`DealBaudInit` (`uart1_init`) and, when the rate has been stored, `DealBaudDone` (`modbus_init`).
A write of the reset register is `DealReset` (the EEPROM is erased, or not, while the
answer goes on), `ResetUart` (`EEP_Dat_Init` comes to `uart1_init`) and `SoftReset`, which
starts the boot again. Between `ResetUart` and `BootPrints` the driver is on with no frame,
for as long as the EEPROM takes. Both writes also come over TCP, from the other task; that
`uart1_init` under COMM's loop is not in the model.

One constant describes the environment. `Turnaround` says that after an answer
the line is silent until COMM has finished one pass of its loop (5 ms and a
little): the Modbus specification asks a master for a turnaround pause, the code
needs one for `NeverStuck` and `PortFreed`. The interrupt lands anywhere, and any
accepted write may be one of the baud rate or a reset, in every run and every proof.

`AnswerPort` is the promise to the other stations of the bus. The port drives to answer
a frame that was whole when it was accepted, in silence while the write of such a frame
sets up the transmitter again, and in silence at boot. It hears nothing while it drives.
An answer begins at its first byte, goes out byte by byte, and with its last byte the port
listens with an empty buffer. It may let go of the bus in the middle of an answer: a new
baud rate does that, and so does a stale timeout stored over the interrupt's 0. Then the
transmitter is `spoilt`: it goes on unheard, or stops with its index in the middle, and
what it sends next may be the tail of an answer. `ImplementsAnswerPort` instantiates it
with `bus` for `txen`, `heard` and `size` for `revce_count` and `rece_size`, `Stage` for COMM's
place, `left` for what is still to be sent while the port drives with TXE enabled, and
`spoilt` for TXE enabled without the driver, or an index that is not 0 without TXE.

### `PageStore` and `FlashStore`

`FlashStore` has the RAM points, the marks, and for each page its flag and image
in flash, the flash lock, the LED task's place (`phase`, `at`, `led`) and copy (`tempbuf`),
and the place of `reset_to_factory` (`reset`). The LED task's actions are the steps of
`mass_flash_init` and `Flash_Write_Mass`: open, erase, copy, program, commit, close.
Other tasks change RAM (`Write` marks the page, `WriteBlock` does not, as
`write_user_data_by_block` does not) and run the factory reset; `Restart` may happen
between any two steps. A page has two fields, so that a copy or an image can be
half done. `mass_flash_init` takes the pages in another order than
`Flash_Write_Mass` and forgets to unlock the flash for the inputs; both are in the
model, as is the mark of the variables that is cleared after the save.

Assumed of the hardware: one erase and one half-word are atomic towards a power
failure and are ignored while the flash is locked. `pvPortMalloc` succeeds: after
start-up nothing but the store allocates from its 20 KB heap.

`PageStore` is the promise: what a restart finds of a page (`durable`) is the factory
default or an image copied field by field from the same page of RAM. It allows a
page to fall back to the default at any moment, because the code erases before
it programs: a power failure during a save loses the old settings too.
`ImplementsPageStore` instantiates it with
`durable[p] = IF flag[p] = "committed" THEN image[p] ELSE Default`.

### `EepromBus`

`ee` is the chip, `wp` the write protection line, `call[t]` where task `t` is in
`AT24CXX_WriteOneByte`: `Open` is `IIC_WP = 0` and the first sleep, `Send` the byte on the
lines and `IIC_WP = 1`, `Return` the end of the second sleep. `Readings` is
`AT24CXX_ReadOneByte`. Sending is one step: it takes a fifth of a tick and follows a
tick. The chip ignores a byte while `wp` is closed; with `SlowChip` it may also ignore
one, or answer ff to a read, while it programs the byte of another task.

### `NetConfig` and `NetConfigWhole`

State: the settings in RAM (`ram`), the registers in which a master prepares new
ones (`ghost`), the EEPROM of `EepromBus`, what each of `main`, COMM and NET has still to
do (`job`), and NET's `IP_Change`, `count` and place in its loop (`turn`). A job names the
bytes left to store; every byte goes through `StoreByte`, `SendByte` and `ByteStored`,
and the other task runs between any two of them. `ReadGroup` and `LoadGroup` are
`EEP_Dat_Init`, which runs at boot and, after a reset request, in the requesting task, under
the other's feet. The group "version" is what it stores every time it runs: no master
changes it, so a task that runs `EEP_Dat_Init` always has something to store.
The requests are `WriteGhost`, `Commit` (`write_ghost_system = 1`), `WriteMacEnable`,
`WriteMacByte`, `WriteMac`, `MasterReset` and `ChangeAddress` (UDP discovery); `RequestDone`
is what follows the last byte. `CountPass` counts to the reset, `PowerFail` restarts
between any two steps.

Abstracted: a group of settings has two bytes instead of four or six, so that one
can be new and one old; "ip" stands for address, mask and gateway, which every
path treats alike (the octet that `udp_scan.c:208` forgets to test is the second).
`IIC_Init`, with which `EEP_Dat_Init` begins, raises the write protection and the store of
the version lowers it again without a sleep in between; no other task runs there, and the
two are one step. `ip_mode`, `tcp_server` and the `update` flag are left out.

`NetConfigWhole` adds a history variable: of each group the default, what was stored
when it was last asked to change, and what was asked for, to say that no mixture
is served.

### `TcpServer`

State: of each connection what uIP keeps (`len`, `nrtx`) and what the application
keeps (`textlen`), the one buffer `sendbuf` and whether the listening port is still the
one the connections came to (`served`, `tcp_demo.c:25`). An answer stands for its bytes:
it is the request it was built for. `first` and `owed` record what was sent first and
for which request.

`Answered` is the whole callback for new data: execution, the new `textlen` and
`uip_send`, with uIP's rule that while bytes are outstanding a packet is as long as
those. The actions are uIP's events: `Connect`, `ConnectAsking`, `Ask` (a request that
acknowledges), `AskAgain` (one that does not), `Acked`, `Poll`, `Rexmit`, `TimedOut`, `Abort`,
`Close`, `CloseAsking`; `Deliver` is the network. A write may move the port, over TCP or
from COMM (`MovePort`), once between two resets; the code would also let a master move it
back before the reset, after which a connection made before would be served again with
the text pointer of its last answer, and that is outside the model. `Restart` is the reset after a scan or
a change of settings, or a power failure, at any time.

A scan message, or a function nobody answers, sends whatever the buffer holds
(`tcp_modbus.c:39`); a retransmission does so too, with the other connection's
answer. The model does both: `FirstIsOwn` speaks of first sendings to requests that have
an answer, `ResendsSame` of what a retransmission would send. Assumed: an answer fits the
buffer and one segment; and `Nothing`, which says that nothing was sent, is not itself a
segment. Left out: TIME_WAIT and LAST_ACK, in which the application is
not called with data, and the online check of `modbus.c:3048`.

`AnswerStream` is the promise to one connection, whatever the server does for the
others: at most one answer is outstanding, a whole answer to a request of its own or
a notice that answers none, and it stays what it is until the master has it or the
connection ends. `ImplementsAnswerStream` reads it off uIP's state with `Outstanding`:
`first` while bytes of an answer are outstanding, a notice for any other bytes. What is
retransmitted is not part of the promise, for the code does not keep that one.

### `PowerMeter`

State: where the meter task is (`pc`), the sum and count of a measurement, the
published averages (`rms`) and by which slope the values are shown, the calibration
in RAM and EEPROM, and the energy calibration's flag, registers and results. The
task serves phase B only (`main.c:84`). What is computed stands for what it was
computed from.

`Sample` is a pass of `get_vrms` or `get_irms`, whose reading is 0 after a timeout; `Load` and
`Show` split the multiplication, so that a calibration may come in between. `TestFlag`,
`CycleEnds`, `CycleTimesOut`, `ReadFactor`, `ComputeGain`, `ComputeConst` and `Answer` are
`main.c:95-105` with `watt_hour_calibration_cf`. The gain is computed from three registers,
`cf_imp_per_kwh`, `Vtest` and `Itest` (`ADE7753.c:1017`): `ReadFactor` reads them one at a time, in any
order, and a master may write between two of them. Requests come between any two steps:
`Calibrate` sets the slope and starts storing, `StoreByte` stores its next byte,
`AskCalibration`, `WriteFlag` and `WriteParam` write the registers. `PowerFail` restarts the
device from EEPROM between any two steps.

A slope in RAM and EEPROM is known by its first and its last byte, each by the
calibration it is from; a slope with bytes of two is `Torn`. The bytes are stored one by one,
and each may be lost: while this task sleeps in `AT24CXX_WriteOneByte` another task that stores
its settings can close the write protection or keep the chip busy, as `eeprom_lost_byte`
shows. The history `lost` has the channels of whose present calibration the chip ignored a byte.

The history `since` says what an answer is worth: for each register the values it has held
since the calibration was asked for. It is `Nothing` when the code promises no answer to the
last write of the flag: because the write came while a calibration was running, whose answer
overwrites it (`main.c:99`), or because it was not a 1.

Whether a line cycle ends is the chip's affair and open: its mode register is
never written, because `write_ade7753_mode_register` sends a read (`ADE7753.c:333`).
A calibration before the first measurement divides by 0 and stores the slope
`Infinite`. One task calibrates, and stores all bytes before its next request. The
numbers that come out as gains and constants are left out, and the point (value and reading),
which is stored before the slope in the same way and only shown to masters.

`MCPowerMeter` splits the masters of a behaviour into those that calibrate slopes and those
that calibrate energy. The two kinds of requests share no variable but the meter task's
place, to which neither writes; the proofs are about `PowerMeter` with both.

## 4. Runs

| Run | Checks | Shows |
|---|---|---|
| `serial_port` | `TypeOK`, `NeverStuck`, `SendsWithinAnswers`, `PortFreed`, `PortFreedNearer`, `ImplementsAnswerPort` | with the interrupt anywhere in COMM's loop, baud rate and reset written at any time: the port is never stuck, is always freed and comes nearer to it with every step of COMM and the transmitter; the transmitter never runs past an answer, also after one that was cut off; the bus sees an `AnswerPort` |
| `serial_timeout_race` | `TimeoutOffForFullPacket` violated | with the firmware's constants and the pause: COMM's `serial_receive_timeout_count--` stores a stale count over the 0 of the interrupt (`main.c:128`), and a full packet waits with the timeout running (against `modbus.c:98`) |
| `serial_lost_frame` | `NeverStuck` violated | without the pause, `dealwithTag--` loses a frame and the port waits for ever (`main.c:121`, against `modbus.c:54-55`) |
| `flash_store` | `TypeOK`, `CommittedIsWhole`, `UnmarkedIsSaved`, `ImplementsPageStore`, `SavedInTurn` | saves, changes, factory resets and power failures interleaved; a marked page is not overtaken |
| `flash_saved` | `MarkedIsSaved` | every mark is acted on |
| `flash_factory_reset` | `FactoryResetHolds` violated | a marked page survives a factory reset (`store.c:282`, against `store.c:272`) |
| `eeprom_lost_byte` | `WriteStores` violated | of two tasks that write at once one loses its byte (`24cxx.c:66`, against `24cxx.c:41`) |
| `net_stored` | `StoredIsServed`, `NeverTorn` | address and port changed over TCP and UDP, power failing anywhere: RAM is what a restart loads, with the two exceptions below, and no mixture without a power failure |
| `net_resets` | `TypeOK`, `ProtectedAtRest`, `ChangeResets`, `ResetComesNearer` | serial masters and UDP discovery at once, COMM and NET storing bytes in each other's sleeps, on a slow chip: a change always ends in a reset, nothing puts it off, and without a lock the write protection is always closed again |
| `tcp_server` | `TypeOK`, `FirstIsOwn`, `QuietAtRest`, `Settles`, `TimerNearsEnd`, `ImplementsAnswerStream` | masters that wait or do not, retransmissions, timeouts, a moved port: each connection sees an `AnswerStream`, one at rest is quiet, nothing stays outstanding |
| `tcp_resend` | `ResendsSame` violated | with two masters a retransmission carries the other's answer (`tcp_modbus.c:64`, against `uip.h:696-698`) |
| `power_meter` | `TypeOK`, `RmsWithinReadings`, `CalibrationIsStored`, `DoneMeansCalibrated`, `CalibrationAnswered`, `CalibrationShows`, `AnswerComesNearer` | measuring and calibrating with failing mains, load and power: published is within the readings, what is stored is what is in force unless a byte was lost, what is answered was computed since it was asked for |

**Bounds.** `serial_port` scales the u8 range, the buffer and the unknown length to
15, 13 and 14: frames of 6, 8, 11 and 12 bytes complete, longer ones overflow, a
decrement of 0 still wraps to a large value, and every pair of positions of COMM
and of a frame is reached. Answers of one and two bytes are enough to tell the
last byte from another. `serial_timeout_race` uses 256, 200, 250. `flash_store` has two
values and two pages that change (the third still boots and is reset); two
fields show every torn copy and image. `eeprom_lost_byte` has two addresses, so that
two calls may meet at one or at different ones. `net_stored` has address and port, which
between them are stored by a commit, stored by UDP discovery, and loaded with and without
storing the default, and the bytes ff and zero: a group of ff is blank at boot, and an
address with zero in the tested octet is refused by UDP discovery. A MAC address is stored
whole as an address is; that it is not torn is proved, for all groups, and not part of the run.
`net_resets` has version,
MAC and address and one byte, "default": COMM stores MAC, address, and in a reset the version,
and NET stores the address that UDP discovery changes, so that every pair of places in
two calls is reached; losses on the slow chip leave ff, which boot finds and stores again.
A second byte value would only be a second value for the same steps, since none of the
four properties looks at a value. Their countdown is 2 and 3 passes instead of
10: more passes only let NET execute more requests before the reset, and each
request may already meet every state of the countdown. `tcp_server` has two
connections, two transaction numbers, one retransmission instead of 8 and one
request made without waiting (`Hurry`): an answer can be outstanding while the other
connection builds one, be retransmitted, taken over by a later request and time
out. `power_meter` has a filter of 2 instead of 100 readings and readings 2 and 3
beside 0: a measurement can meet failures before, between and after its readings,
and an average that is too low falls below the lowest reading. It has one value beside the
initial one for slopes and registers: a value can be old or new, and a slope torn. Nothing
else is bounded.

**Fairness.** COMM has the highest priority in use and waits only with a timeout;
the transmit interrupt is raised whenever the transmitter is free: weak fairness
of `Comm` and `TxByte`. No fairness for received bytes. The LED task has the lowest
priority, but the tasks above it sleep in every loop: weak fairness of `Led`, and of
the steps of `reset_to_factory`, which has no wait without an end. In `NetConfig`
COMM and NET have one priority and sleep in their loops and in every byte: weak
fairness of each task's own steps, of boot and of NET's loop. No master is ever
obliged to send anything. In `TcpServer` NET's timer runs in the passes of its loop
that find no packet, and the model asks for weak fairness of `Timer`, so a line that
never falls silent for half a second is excluded; no fairness of masters or of
delivery. In `PowerMeter` the meter task has the lowest priority and is fair as the
LED task is; that nonzero readings come in the end, `Progress`, is an assumption
about mains and load, without which the task never leaves `get_vrms`. The end of a line
cycle is not fair: the timeout is. Storing bytes needs no fairness: nothing that must
happen waits for it.

### What the properties do not promise

* `UnmarkedIsSaved` leaves out the variables page: its mark is cleared after the
  save, and a change that arrives during the save is lost. This is a defect the
  model shows; no document or comment promises otherwise, so it is a hazard in
  `PROJECT.json` and not a finding.
* `StoredIsServed` has two exceptions, which the code has. An address of zeros that UDP
  discovery serves and does not store (`Refused`), and a setting of 255 in every byte, which
  is stored but which the next boot takes for blank and replaces by the default
  (`TakenForBlank`, `main.c:370-384`, `457-463`). It speaks of one writing task: with two, a
  byte can be lost.
* `NeverTorn` does not hold with serial masters: NET's countdown to an earlier reset cuts a
  serial commit in two.
* `CalibrationIsStored` says nothing of a calibration of which a byte was lost: RAM and EEPROM
  then differ, at rest, until the next calibration or restart.
* `DoneMeansCalibrated` says nothing of a calibration asked for while one is running: the flag
  becomes 0 without it.
* `RmsWithinReadings` allows 0, which is published until the first measurement is complete;
  that a value never goes back to 0 without a restart is not part of it.
* `CalibrationAnswered` assumes mains and load. Without them the meter task waits for a
  reading for ever and no calibration is answered.
* `ImplementsAnswerPort` allows the driver to be on in silence: at boot until main prints,
  after a write of the reset register for the rest of `EEP_Dat_Init`, and after one of the
  baud rate until it is stored. That is what the code does; it is a hazard for the other
  stations. The serial line is taken to be the only one that writes these registers.
* `NeverStuck` and `PortFreed` need byte counts of at most 246 and the pause (section 5).
* The port is moved at most once between two resets in `TcpServer`.

## 5. Proofs

`ModbusSerialProofs`. `TypeCorrect` needs no assumption but
`ConstantsAssumption`. `Invariance` and `PortNeverStuck` assume `Turnaround` and byte counts of at most
`W - 10` (246 in the firmware). `serial_lost_frame` shows that the first is needed; with a
byte count of 248 the timeout `USART_RX_BUF[6] + 8` wraps to 0 (`modbus.c:85`) and a frame cut
short sticks, but Modbus allows no such count.
`NeverStuck` is not inductive: `IInv` adds that a length below 6 means nothing has
been received yet (`SizeInv`), that `dealwithTag = 1` is either about to be acted on or
belongs to an answer on its way out (`TagInv`), and that between check and answer
the accepted frame can only be lost to a restart, after which the next frame has
armed the timeout (`AnswerInv`, `DealInv`). One lemma per group of actions.

`SentWithinAnswers` proves `SendsWithinAnswers` without an assumption. It needs that the
transmitter's index is never beyond the longest answer, also while TXE is off: an
answer that was cut off leaves it where it was, and the next one begins there.

`BusSeesAnswers` proves that the port implements `AnswerPort`, with the interrupt anywhere,
with or without the pause, whatever requests write; it assumes byte counts of at most
`W - 10`. Its invariant `PortInv` says that a frame whose length is known has at least six bytes
(`SizeInv`), that where boot or a request has set up the UART there is nothing to send
(`SilentInv`), and that index and length of the transmitter are those of an answer
(`SendInv`). `CheckAccepts` is `Accept`,
`InitSendCom` `Drive`, `ResponseCmd` `Begin`, `TxByte` `Send` or `SendLast`, `DealBaudInit` and
`ResetUart` are `Silence`, `SoftReset` is `Reboot`; every `serial_restart` is `Restart`.

`PortComesFree` proves `PortFreedNearer` under the assumptions of `PortNeverStuck`. While
the port is occupied, the driver is switched on at most once, and at most
`USART_REC_LEN` bytes arrive; otherwise `TagLeft + TimerLeft` falls, or the bytes left of
the answer, or COMM goes on to a later point of its loop. The two counters are
measured as COMM holds them, because the interrupt may change them under a loaded value,
and a 0 is measured as what `--` makes of it. `NeverStuck` is needed for the one place where
COMM would go round with both counters at 0: then an answer is on its way.

`FlashStoreProofs`. `CommittedIsWhole` rests on: the page being written is erased
(`ErasedInv`), also when its erase was ignored because the factory reset locked the
flash after erasing everything (`ResetInv`); the flash is unlocked only between open
and close (`LockInv`); what is copied comes from loaded RAM (`RamInv`, `CopyInv`); what is
committed is what was copied (`ProgramInv`). `Implementation` maps each step to one of
`PageStore` or a stutter, with the same invariant. `NoUpdateLost` proves
`UnmarkedIsSaved` with a second invariant, `SaveInv`: flash is unlocked whenever a save
writes it (`UnlockedInv`), and what a save has copied, programmed or committed so far
is what RAM holds, or the page is marked again because a change came after the mark
was cleared (`CaughtInv`). No assumption beyond `ConstantsAssumption`.

`NobodyOvertakes` proves `SavedInTurn`: with `Turns`, the pages the LED task goes through
before it takes a page's mark, and `Rank`, its place with the page it is at, each of
its steps lowers the first or raises the second, whatever is marked meanwhile.

`EepromBusProofs`. `Protected`: whoever opens the protection is about to send, and
sending closes it. `AloneStores` needs that a call of a single task finds the
protection as it left it; `eeprom_lost_byte` shows that one task is needed.

`NetConfigProofs`. `TypeCorrect` holds for all masters: `JobInv` says that a job which
loads or stores has what it needs. `ServedIsStored` assumes `OneWriter`, that all
masters write through one task (serial only, or network only). With two, the lost
byte of `eeprom_lost_byte` breaks it. `StoredIsServed` compares RAM with what boot makes of the
EEPROM (`Loaded`) and speaks of the states at rest only;
`IInv` says what holds in between: only one task is busy (`OneWorker`), the byte on its
way is the next one and has the value its job wants (`CallInv`), a group is either
untouched by the request or stored but for the bytes left (`Fine`, `RunInv`), and at
boot what is loaded is stored and what is being stored is what was read (`BootInv`).
`UsesTheBus` maps every step to one of `EepromBus` or a stutter, and `ChipProtected`
follows; both hold for all masters. `NothingPutsResetOff` proves `ResetComesNearer` for all
masters too: `ToDo` counts the steps NET has left of what it executes (three for a byte
to store, at most eight for a group to load), and once it is at its end NET goes from
polling to counting and the count goes up. `TypeCorrect`'s `JobInv` is what it needs.

`NetConfigWholeProofs`. `SettingsAreWhole` assumes `NetworkAlone`, that masters are on TCP
and UDP: then NET executes the requests and also counts down to the reset, which finds
none half done. With serial masters the countdown cuts a commit in two. The
invariant of `NetConfigProofs` says that at most one group is being stored; `PInv` adds
that RAM, once the bytes left are stored, is what was promised (`WantInv`, `CopyInv`),
that each group in EEPROM loads as promised or is stored but for the bytes left
(`Held`), and the same of an erase and of boot (`EraseInv`, `LoadInv`).

`TcpServerProofs`. `FirstAnswerIsOwn` needs that what is outstanding was first sent in
the callback that built it: while something is outstanding, `Sent` leaves `first` alone,
and it is forgotten with the acknowledgement. `NothingUnasked` is inductive with the types and with what is
outstanding being what the application calls text. `AloneResendsTheSame` adds for
a single master that waits (`Hurry = 0`) that the buffer holds the answer that is
outstanding. No assumption on the number of connections.
`ServesEachAlone` proves `ImplementsAnswerStream` with the same invariant `IInv`: a callback
changes one connection (`MappedStep`), and what it sends when nothing was outstanding is
a whole answer of the connection's own or a notice (`RepliedWhole`). `NothingRetriedForEver`
proves `TimerNearsEnd`: as long as an answer stays outstanding, the timer raises `nrtx`,
and only a request made without waiting, which is counted in `hurried`, sets it back.

`PowerMeterProofs`. `PublishedIsWithin`: the sum of `n` counted readings lies between
`n * Low` and `n * High` (readings of 0 add nothing and count nothing), and the
division by `Filter` brings it back (lemma `Mean`). `CalibrationsAreStored`: EEPROM and RAM
of a channel that has lost no byte differ at most in the bytes that are left to store.
`DoneIsCalibrated` follows the task from the flag to the answer: each factor it has
read, and what it has computed, is a value its register has held since the flag was set.
It assumes nothing of the masters: they may withdraw, repeat and change everything, and
`since` says which answers are promised.
`NothingDelaysTheAnswer` proves `AnswerComesNearer`: a timeout of the chip goes on to the
answer and never back, and no request reaches the task's place or its counts.

Every invariant that a passing run checks is proved, under the assumptions above,
and so are the three refinements. Of five of the six things that must happen in the
end, the part that is no matter of fairness is proved, for every value of the constants:
`PortFreedNearer`, `SavedInTurn`, `ResetComesNearer`, `TimerNearsEnd` and `AnswerComesNearer`
say that each step of those concerned brings the end nearer, by counts that
are bounded or shown to be natural numbers, and that nobody else's step takes it
back. Only model-checked remains that the steps are taken: `PortFreed`, `MarkedIsSaved`,
`ChangeResets`, `Settles`, `CalibrationAnswered` (liveness under fairness and ENABLED are out
of the proof system's reach). For `CalibrationShows` there is no such measure: it holds
only when masters stop calibrating, which is itself something that happens in the end.

## 6. Not modelled

The modules that section 2 leaves; the BACnet MS/TP mode of the serial interrupt;
printf on the RS-485 port; the values of registers and the layout of answers;
frequency, peaks and temperature of the meter chip; drivers that only move bytes;
vendored code. `PROJECT.json` gives the reason for each.

Most of the repository is not this program's: the ST library, FreeRTOS, uC/OS-II,
uIP, FATFS with its font tables, USB and LCD drivers make up more than nine tenths of
its lines, a part of them outside the build. Of the program's own sources, some
eleven thousand lines, half are register tables (`responseCmd` is one `if` of two
thousand lines) and register-level drivers. What remains, the control of the tasks
and of what they share, is what the modules are about.
