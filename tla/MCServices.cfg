CONSTANTS
    NSlots = 3
    MaxTaskId = 4
    Services <- MCServices
    MaxServiceTasks = 2
    MaxListeners = 2
    MaxListenerId = 3
    PublishChoices = {TRUE, FALSE}
    KeepChoices = {FALSE}
    MaxOps = 3
SPECIFICATION Spec
CHECK_DEADLOCK FALSE
INVARIANTS
    ServicesTypeOK
    TrackedAgree
    StoppedStaysQuiet
    CertNotLost
    CronListens
