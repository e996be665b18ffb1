SPECIFICATION FairSpec
CONSTANTS
    AgentMax = 3
    MaxAgents = 3
    Rights = {"COMMUNICATE"}
    SpawnCaps = {{"COMMUNICATE"}}
    ApiCalls = {"spawn", "terminate", "send", "reply", "delegate", "recv", "wait"}
    Names = {}
    Topics = {}
    PubMax = 1
    OwnMax = 1
    TopicMax = 1
    SubsMax = 2
    PoolSize = 1
    HeapSize = 1
    InboxSize = 2
    MaxDels = 1
    MaxMsgs = 3
    MaxCpu = 2
    MaxIo = 1
    SchedSlice = 1
    RunTicks = {}
    t1 = t1
    Threads = {t1}

    
PROPERTIES
    MailIsRead
    MailIsPosted
