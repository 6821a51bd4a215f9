\* faults, messages and operations are bounded so that every behaviour settles
CONSTANTS
    Topics <- MCTopics
    MacTopics <- MCMacTopics
    SlotChoices <- MCSlotChoices
    PublishQos <- MCPublishQos
    KeepAlive = 1
    ReadTimeout = 1
    HostTimeout = 1
    QueueSize = 2
    MaxFaults = 2
    MaxInbound = 1
    MaxOps = 2
SPECIFICATION Spec
INVARIANTS
    MqttTypeOK
    SubscriptionsAgree
    
PROPERTIES
    EventuallySubscribed
