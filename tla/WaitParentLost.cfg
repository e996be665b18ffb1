SPECIFICATION Spec
CONSTANTS
    MaxProcs = 3
    DefaultPrio = 1
    KernelPrio = 3
    MaxPid = 3
    StackCapacity = 9
    QueueSize = 3
    Timeslice = 1
    ThinkBonus = 1
    BoostInterval = 0
    BoostAmount = 1
    MaxBoost = 2
    QueueDepth = 2
    MaxMsgs = 0
    Timeouts = {}
    Calls = {"spawn", "exit", "wait"}
    KernelCalls = {"spawn"}
    Filters = {0, 2}
    AgentKinds = {FALSE}
    Priorities = {}
INVARIANTS
    RunnableScheduled
