SPECIFICATION WholeSpec
CONSTANTS
  Groups = {"ip", "port"}
  Bytes = {"ff", "zero"}
  Masters = {"tcp", "udp"}
  ResetAfter = 2
  PowerFails = TRUE
  SlowChip = TRUE
INVARIANTS StoredIsServed NeverTorn
