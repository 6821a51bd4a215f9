CONSTANTS
    MaxPriority = 99
    Nominal = 1024
    Span = 9
    Boost = 4
    Tasks = {"fixed", "chain"}
    OneShots = {"chain"}
    LinksWait = FALSE
    Tuned = {}
    Priorities <- MCPriorities
    Nices <- MCNices
    Policies = {"FIFO", "ROUNDROBIN"}
    ExecTimes <- MCExecTimes
SPECIFICATION FairSpec
PROPERTIES
    NoStarvation
