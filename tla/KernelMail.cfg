SPECIFICATION Spec
CONSTANTS
    MaxProcs = 3
    DefaultPrio = 1
    KernelPrio = 3
    MaxPid = 3
    StackCapacity = 9
    QueueSize = 3
    Timeslice = 1
    ThinkBonus = 1
    BoostInterval = 0
    BoostAmount = 1
    MaxBoost = 2
    QueueDepth = 2
    MaxMsgs = 3
    Timeouts = {}
    Calls = {"send", "recv", "set_state"}
    KernelCalls = {"spawn", "broadcast"}
    Filters = {0, 2}
    AgentKinds = {TRUE, FALSE}
    Priorities = {}
INVARIANTS
    InboxOrdered
PROPERTIES
    MailboxDiscipline
    AwakeIsScheduled
