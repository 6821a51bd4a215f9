CONSTANTS
    NSlots = 3
    MaxTaskId = 6
SPECIFICATION MCSpec
INVARIANTS
    IdTypeOK
    UniqueIds
    SearchSucceeds
PROPERTIES
    ReuseDistance
