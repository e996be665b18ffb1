SPECIFICATION Spec
CONSTANTS
    MaxProcs = 3
    DefaultPrio = 1
    KernelPrio = 3
    MaxPid = 3
    StackCapacity = 9
    QueueSize = 3
    Timeslice = 1
    ThinkBonus = 1
    BoostInterval = 0
    BoostAmount = 1
    MaxBoost = 2
    QueueDepth = 1
    MaxMsgs = 1
    Timeouts = {1}
    Calls = {"spawn", "exit", "kill", "yield", "send", "recv"}
    KernelCalls = {"spawn"}
    Filters = {0}
    AgentKinds = {FALSE}
    Priorities = {}
INVARIANTS
    RunnableScheduled
PROPERTIES
    RoundRobin
