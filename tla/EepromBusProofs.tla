--------------------------- MODULE EepromBusProofs ---------------------------
(***************************************************************************)
(* What the EEPROM bus guarantees for any tasks and any chip, and what it  *)
(* guarantees a task that uses it alone.                                   *)
(***************************************************************************)
EXTENDS EepromBus, TLAPS

(* The types hold and the chip is protected between writes, whatever the   *)
(* number of tasks that write (24cxx.c:46, 66).                            *)
THEOREM Protected ==
  ASSUME "ff" \in Contents
  PROVE  BusSpec => [](BusTypeOK /\ ProtectedAtRest)
<1>1. BusInit => BusTypeOK /\ ProtectedAtRest
  BY DEF BusInit, BusTypeOK, ProtectedAtRest, Calls, NoCall
<1>2. BusTypeOK /\ ProtectedAtRest /\ [BusNext]_busVars
        => BusTypeOK' /\ ProtectedAtRest'
  <2> SUFFICES ASSUME BusTypeOK, ProtectedAtRest, [BusNext]_busVars
               PROVE  BusTypeOK' /\ ProtectedAtRest'
    OBVIOUS
  <2> USE DEF BusTypeOK, ProtectedAtRest, Calls, NoCall
  <2>1. CASE \E t \in Tasks, a \in Addresses, d \in Contents : Open(t, a, d)
    BY <2>1 DEF Open
  <2>2. ASSUME NEW t \in Tasks, Send(t) PROVE BusTypeOK' /\ ProtectedAtRest'
    <3>1. call[t] \in Calls /\ call[t].at = "opened"
      BY <2>2 DEF Send
    <3>2. call[t] \in [at : {"opened"}, addr : Addresses, data : Contents]
      BY <3>1
    <3>3. [call[t] EXCEPT !.at = "sent"] \in Calls
      BY <3>2
    <3> QED BY <2>2, <3>2, <3>3 DEF Send
  <2>3. CASE \E t \in Tasks : Return(t)
    BY <2>3 DEF Return
  <2>4. CASE BusRestart
    BY <2>4 DEF BusRestart
  <2>5. CASE UNCHANGED busVars
    BY <2>5 DEF busVars
  <2> QED BY <2>1, <2>2, <2>3, <2>4, <2>5 DEF BusNext
<1> QED BY <1>1, <1>2, PTL DEF BusSpec

(* The write protection is open from Open to Send if nobody else writes.   *)
OpenInv == \A t \in Tasks : call[t].at = "opened" => wp = "open"

(* A byte written by the only task that uses the EEPROM is stored.  The    *)
(* assumption is what no lock in the code ensures: the run                 *)
(* eeprom_lost_byte has two tasks (24cxx.c:41-68).                         *)
THEOREM AloneStores ==
  ASSUME "ff" \in Contents, \A t, u \in Tasks : t = u
  PROVE  BusSpec => WriteStores
<1>1. BusInit => OpenInv
  BY DEF BusInit, OpenInv, NoCall
<1>2. BusTypeOK /\ OpenInv /\ [BusNext]_busVars => OpenInv'
  <2> SUFFICES ASSUME BusTypeOK, OpenInv, [BusNext]_busVars PROVE OpenInv'
    OBVIOUS
  <2> USE DEF BusTypeOK, OpenInv, NoCall
  <2>1. CASE \E t \in Tasks, a \in Addresses, d \in Contents : Open(t, a, d)
    BY <2>1 DEF Open
  <2>2. ASSUME NEW t \in Tasks, Send(t) PROVE OpenInv'
    <3>1. \A u \in Tasks : u = t
      OBVIOUS
    <3>2. call'[t].at = "sent"
      BY <2>2 DEF Send, Calls
    <3> QED BY <3>1, <3>2
  <2>3. CASE \E t \in Tasks : Return(t)
    BY <2>3 DEF Return
  <2>4. CASE BusRestart
    BY <2>4 DEF BusRestart
  <2>5. CASE UNCHANGED busVars
    BY <2>5 DEF busVars
  <2> QED BY <2>1, <2>2, <2>3, <2>4, <2>5 DEF BusNext
<1>3. BusTypeOK /\ OpenInv /\ [BusNext]_busVars
        => [\A t \in Tasks :
              call[t].at = "opened" /\ call'[t].at = "sent"
                => ee'[call[t].addr] = call[t].data]_busVars
  <2> SUFFICES ASSUME BusTypeOK, OpenInv, BusNext,
                      NEW t \in Tasks,
                      call[t].at = "opened", call'[t].at = "sent"
               PROVE  ee'[call[t].addr] = call[t].data
    BY DEF busVars
  <2>1. \A u \in Tasks : u = t
    OBVIOUS
  <2>2. Send(t)
    <3>1. CASE \E a \in Addresses, d \in Contents : Open(t, a, d)
      BY <3>1 DEF Open, NoCall
    <3>2. CASE Return(t)
      BY <3>2 DEF Return
    <3>3. CASE BusRestart
      BY <3>3 DEF BusRestart, NoCall
    <3> QED BY <2>1, <3>1, <3>2, <3>3 DEF BusNext
  <2>3. wp = "open" /\ ~Programming(t)
    BY <2>1 DEF OpenInv, Programming
  <2>4. call[t].addr \in Addresses
    BY DEF BusTypeOK, Calls, NoCall
  <2>5. ee' = [ee EXCEPT ![call[t].addr] = call[t].data]
    BY <2>2, <2>3 DEF Send
  <2> QED BY <2>4, <2>5 DEF BusTypeOK
<1>4. BusSpec => [](BusTypeOK /\ ProtectedAtRest)
  BY Protected
<1> QED BY <1>1, <1>2, <1>3, <1>4, PTL DEF BusSpec, WriteStores
=============================================================================
