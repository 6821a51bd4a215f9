SPECIFICATION Spec
CONSTANTS
  Ids = {1, 2, 3}
  Values = {a, b}
  Firmwares <- MCFirmwares
  Capacity = 5
  MaxTables = 2
  Media = {"fs"}
  HeapFails = FALSE
  WritesFail = FALSE
  MaxRequests = 3
  MaxFaults = 1
INVARIANT VersionTold
SYMMETRY Interchangeable
