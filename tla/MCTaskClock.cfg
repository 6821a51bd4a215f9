CONSTANTS
    NSlots = 2
    MaxTaskId = 3
    Durations = {1, 2}
    Attempts <- MCForever
    Signals = {}
    Finalizers = {}
    Execs = {}
    Charges = {0, 1}
    SelfUpdates = FALSE
    ClockMod = 3
    ClockWraps = FALSE
    MaxVruntime = 1
    MaxReal = 2
SPECIFICATION ClockSpec

    
PROPERTIES
    ElapsedGoesFirst
    ExpiredReleased
