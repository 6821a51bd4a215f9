CONSTANTS
    NSlots = 2
    MaxTaskId = 3
    Durations = {1, 3}
    Attempts <- MCForever
    Signals = {}
    Finalizers = {}
    Execs = {}
    Charges = {0, 1}
    SelfUpdates = FALSE
    ClockMod = 4
    ClockWraps = TRUE
    MaxVruntime = 1
    MaxReal = 6
SPECIFICATION ClockSpec
PROPERTIES
    ElapsedGoesFirst
