SPECIFICATION FairSpec
CONSTANTS
    t1 = t1
    t2 = t2
    a1 = a1
    a2 = a2
    Task <- oneTask
    Agent <- oneAgent
    Site <- mcSite
    Channel <- mcChannel
    TaskSite <- mcTaskSite
    TaskChannel <- mcTaskChannel
    CreatedAt <- mcCreatedAt
    AgentSite <- mcAgentSite
    AgentChannels <- mcAgentChannels
    NoAgent = NoAgent
    NoTask = NoTask
    CallbackTask <- noTask
    StreamsPerAgent = 1
    MaxDrops = 1
    MaxCrashes = 0
    MaxSaveFails = 0
    MaxFaults = 2
PROPERTIES
    EveryTaskEnds
