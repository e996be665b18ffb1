SPECIFICATION Spec
CONSTANTS
    MaxProcs = 4
    DefaultPrio = 1
    KernelPrio = 3
    MaxPid = 4
    StackCapacity = 9
    QueueSize = 4
    Timeslice = 1
    ThinkBonus = 1
    BoostInterval = 1
    BoostAmount = 2
    MaxBoost = 2
    QueueDepth = 2
    MaxMsgs = 0
    Timeouts = {}
    Calls = {"set_priority"}
    KernelCalls = {"spawn"}
    Filters = {0, 2}
    AgentKinds = {FALSE}
    Priorities = {0, 3}
INVARIANTS
    LoopsMatch
PROPERTIES
    HighestFirst
