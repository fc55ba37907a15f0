--------------------------- MODULE MCModbusSerial ---------------------------
(***************************************************************************)
(* Instances of ModbusSerial.  serial_timeout_race has the firmware's u8,  *)
(* buffer, NO_LEN and byte counts.  serial_port and serial_lost_frame      *)
(* scale the first three down together, to 15, 13 and 14: frames of 6, 8,  *)
(* 11 and 12 bytes still fit the buffer, longer ones overflow it, NO_LEN   *)
(* stays out of reach of a whole frame, and a counter still wraps.         *)
(***************************************************************************)
EXTENDS ModbusSerial

(* Byte counts of multiple writes that fit the buffer, overflow it, and    *)
(* the largest one the Modbus protocol allows (123 registers).             *)
MCCounts == {2, W - 10}
FirmwareCounts == {0, 2, 20, 190, 246}
=============================================================================
