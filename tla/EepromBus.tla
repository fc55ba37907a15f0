------------------------------ MODULE EepromBus ------------------------------
(***************************************************************************)
(* The EEPROM as the tasks share it: AT24CXX_WriteOneByte opens the write  *)
(* protection, sleeps, sends the byte, closes the protection and sleeps    *)
(* again (HARDWARE/24CXX/24cxx.c).  Nothing keeps two tasks from doing so  *)
(* at once: there is one WP line and one chip for all of them.             *)
(*                                                                         *)
(* A byte is sent in one step: it takes a fifth of a tick and starts at    *)
(* the tick that ends the first sleep.  External, of the chip: a byte sent *)
(* while WP is high is ignored; a slow chip may also ignore one sent while *)
(* it programs another, and then reads answer ff.  Even a slow chip is     *)
(* done before the writer's own two sleeps are.                            *)
(***************************************************************************)
CONSTANTS
  Tasks,      \* the tasks that use the EEPROM
  Addresses,
  Contents,   \* what a byte may hold, "ff" when erased
  SlowChip    \* TRUE: programming a byte may take longer than a tick

VARIABLES
  ee,    \* the bytes
  wp,    \* IIC_WP: "open" is 0, "closed" is 1
  call   \* where each task is in AT24CXX_WriteOneByte

busVars == <<ee, wp, call>>

NoCall == [at |-> "none"]
Calls  == {NoCall} \union
          [at : {"opened", "sent"}, addr : Addresses, data : Contents]

BusInit ==
  /\ ee = [a \in Addresses |-> "ff"]
  /\ wp = "closed"
  /\ call = [t \in Tasks |-> NoCall]

-----------------------------------------------------------------------------
(* The chip may still be programming another task's byte. *)
Programming(t) == SlowChip /\ \E u \in Tasks \ {t} : call[u].at = "sent"

(* IIC_WP = 0; delay_ms(1) *)
Open(t, a, d) ==
  /\ call[t] = NoCall
  /\ wp' = "open"
  /\ call' = [call EXCEPT ![t] = [at |-> "opened", addr |-> a, data |-> d]]
  /\ UNCHANGED ee

(* IIC_Start ... IIC_Stop; IIC_WP = 1; delay_ms(2) *)
SendLeavesOpen(t) ==
  /\ call[t].at = "opened"
  /\ \/ wp = "open" /\ ee' = [ee EXCEPT ![call[t].addr] = call[t].data]
     \/ (wp = "closed" \/ Programming(t)) /\ UNCHANGED ee
  /\ call' = [call EXCEPT ![t].at = "sent"]
  /\ UNCHANGED wp
Send(t) ==
  /\ call[t].at = "opened"
  /\ \/ wp = "open" /\ ee' = [ee EXCEPT ![call[t].addr] = call[t].data]
     \/ (wp = "closed" \/ Programming(t)) /\ UNCHANGED ee
  /\ call' = [call EXCEPT ![t].at = "sent"]
  /\ wp' = "closed"

Return(t) ==
  /\ call[t].at = "sent"
  /\ call' = [call EXCEPT ![t] = NoCall]
  /\ UNCHANGED <<ee, wp>>

(* AT24CXX_ReadOneByte(a): the values it may return to t. *)
Readings(t, a) == {ee[a]} \union (IF Programming(t) THEN {"ff"} ELSE {})

(* The processor restarts: the calls are gone, IIC_Init raises WP. *)
BusRestart ==
  /\ call' = [t \in Tasks |-> NoCall]
  /\ wp' = "closed"
  /\ UNCHANGED ee

-----------------------------------------------------------------------------
BusNext ==
  \/ \E t \in Tasks :
       \/ \E a \in Addresses, d \in Contents : Open(t, a, d)
       \/ Send(t)
       \/ Return(t)
  \/ BusRestart

BusSpec == BusInit /\ [][BusNext]_busVars

BusTypeOK ==
  /\ ee \in [Addresses -> Contents]
  /\ wp \in {"open", "closed"}
  /\ call \in [Tasks -> Calls]

(* However the calls interleave, the chip is write-protected whenever no   *)
(* task is about to send a byte (24cxx.c:46, 66): between two writes no    *)
(* noise on the lines can change it.                                       *)
ProtectedAtRest ==
  (\A t \in Tasks : call[t].at # "opened") => wp = "closed"

(* AT24CXX_WriteOneByte writes its byte at its address (24cxx.c:41-43).    *)
WriteStores ==
  [][\A t \in Tasks :
       call[t].at = "opened" /\ call'[t].at = "sent"
         => ee'[call[t].addr] = call[t].data]_busVars
=============================================================================
