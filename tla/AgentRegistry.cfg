SPECIFICATION Spec
CONSTANTS
    AgentMax = 3
    MaxAgents = 3
    Rights = {"COMMUNICATE", "SUPERVISOR"}
    SpawnCaps = {{"COMMUNICATE", "SUPERVISOR"}}
    ApiCalls = {"spawn", "terminate", "shutdown", "transfer", "revoke", "inherit", "send", "publish", "subscribe", "broadcast"}
    Names = {"n1", "n2"}
    Topics = {"tp"}
    PubMax = 2
    OwnMax = 2
    TopicMax = 1
    SubsMax = 2
    PoolSize = 1
    HeapSize = 1
    InboxSize = 1
    MaxDels = 1
    MaxMsgs = 2
    MaxCpu = 2
    MaxIo = 1
    SchedSlice = 1
    RunTicks = {}
    t1 = t1
    Threads = {t1}
INVARIANTS
    
    PoolOwned
    RegistryConsistent
PROPERTIES
    RightsMove
