SPECIFICATION Spec
CONSTANTS
    t1 = t1
    t2 = t2
    a1 = a1
    a2 = a2
    Task <- twoTasks
    Agent <- twoAgents
    Site <- mcSite
    Channel <- mcChannel
    TaskSite <- mcTaskSite
    TaskChannel <- mcTaskChannel
    CreatedAt <- mcCreatedAt
    AgentSite <- mcAgentSite
    AgentChannels <- mcAgentChannels
    NoAgent = NoAgent
    NoTask = NoTask
    CallbackTask <- twoTasks
    StreamsPerAgent = 1
    MaxDrops = 1
    MaxCrashes = 1
    MaxSaveFails = 1
    MaxFaults = 1
SYMMETRY mcSymmetry
INVARIANTS
    TypeOK
    NothingStranded
    SentOnce
    ShownIsSo
PROPERTIES
    ImplementsQueue
