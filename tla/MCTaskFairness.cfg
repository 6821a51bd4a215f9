CONSTANTS
    MaxPriority = 99
    Nominal = 1024
    Span = 9
    Boost = 4
    Tasks = {"tuned", "fixed", "chain"}
    OneShots = {"chain"}
    LinksWait = TRUE
    Tuned = {"tuned"}
    Priorities <- MCPriorities
    Nices <- MCNices
    Policies = {"FIFO", "ROUNDROBIN"}
    ExecTimes <- MCExecTimes
SPECIFICATION FairSpec
INVARIANTS
    WeightInStep
    
    
PROPERTIES
    NoStarvation
