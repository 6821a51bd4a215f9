CONSTANTS
    NSlots = 2
    MaxTaskId = 3
    Durations = {0}
    Attempts <- MCAttempts
    Signals = {"KILL", "STOP", "CONT"}
    Finalizers = {TRUE}
    Execs = {1}
    Charges = {0}
    SelfUpdates = TRUE
    ClockMod = 1
    ClockWraps = TRUE
    MaxVruntime = 0
SPECIFICATION Spec
INVARIANTS
    TypeOK
    NoTaskStranded
    ExecutivesOwned
PROPERTIES
    ImplementsTaskIds
    SlotHeld
    FinalizerNotLost
    SignalBeforeRun

