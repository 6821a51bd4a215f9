SPECIFICATION Spec
CONSTANTS
  Ids = {1, 2, 3}
  Values = {a, b}
  Firmwares <- MCFirmwares
  Capacity = 5
  MaxTables = 2
  Media = {"eeprom", "fs"}
  HeapFails = TRUE
  WritesFail = TRUE
  MaxRequests = 3
  MaxFaults = 2
INVARIANTS DbTypeOK SlotsDisjoint ReadsAllowed ReadsGenuine
SYMMETRY Interchangeable
