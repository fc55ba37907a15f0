SPECIFICATION BusSpec
CONSTANTS
  Tasks = {"COMM", "NET"}
  Addresses = {"address", "station"}
  Contents = {"x", "ff"}
  SlowChip = FALSE
PROPERTY WriteStores
