SPECIFICATION FairSpec
CONSTANTS
    AgentMax = 2
    MaxAgents = 2
    Rights = {"IO"}
    SpawnCaps = {{}, {"IO"}}
    ApiCalls = {"spawn", "terminate", "pause", "grant", "revoke", "step", "run", "schedule", "shutdown"}
    Names = {}
    Topics = {}
    PubMax = 1
    OwnMax = 1
    TopicMax = 1
    SubsMax = 2
    PoolSize = 1
    HeapSize = 1
    InboxSize = 2
    MaxDels = 1
    MaxMsgs = 0
    MaxCpu = 2
    MaxIo = 1
    SchedSlice = 1
    RunTicks = {2}
    t1 = t1
    Threads = {t1}
INVARIANTS
    AgentTypeOK
    LimitsKept
PROPERTIES
    PausedFrozen
    FinalStays
    ScheduleReturns
