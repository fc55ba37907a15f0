SPECIFICATION FairSpec
CONSTANTS
  Groups = {"version", "mac", "ip"}
  Bytes = {"default"}
  Masters = {"serial", "udp"}
  ResetAfter = 3
  PowerFails = TRUE
  SlowChip = TRUE
INVARIANTS TypeOK ProtectedAtRest
PROPERTIES ChangeResets ResetComesNearer
