CONSTANTS
    low = low
    high = high
    Loop = Loop
    None = None
    Lanes = {low, high}
    Stoppable = {high}
    Prio <- MCPrio
    AgeCap = 6
    MaxSignals = 1
SPECIFICATION Spec
INVARIANTS
    LaneTypeOK
    QueuesAgree
    MutualExclusion
    WaitersServed
    StoppedParked
    SomeoneCanRun
    PassedOverBounded
PROPERTIES
    SdkNotAbandoned
    GoneLeaves
