SPECIFICATION Spec
CONSTANTS
    MaxProcs = 3
    DefaultPrio = 1
    KernelPrio = 3
    MaxPid = 4
    StackCapacity = 2
    QueueSize = 2
    Timeslice = 1
    ThinkBonus = 1
    BoostInterval = 0
    BoostAmount = 1
    MaxBoost = 2
    QueueDepth = 2
    MaxMsgs = 0
    Timeouts = {}
    Calls = {"spawn", "exit", "kill", "wait", "yield", "bytecode"}
    KernelCalls = {"spawn", "kill"}
    Filters = {0, 2}
    AgentKinds = {TRUE, FALSE}
    Priorities = {}
INVARIANTS
    WellFormed
    Counts
    PidsValid
    CpuAgrees
PROPERTIES
    PidsFresh
