SPECIFICATION Spec
CONSTANTS
    t1 = t1
    t2 = t2
    a1 = a1
    a2 = a2
    Task <- mcTask
    Agent <- mcAgent
    Site <- mcSite
    Channel <- mcChannel
    TaskSite <- mcTaskSite
    TaskChannel <- mcTaskChannel
    CreatedAt <- mcCreatedAt
    AgentSite <- mcAgentSite
    AgentChannels <- mcAgentChannels
    NoAgent = NoAgent
    NoTask = NoTask
    SaveMayFail = TRUE
INVARIANTS
    TypeOK
    HolderIsAssignee
    PendingIsFree
    AssignedIsHeld
PROPERTIES
    TasksAreDurable
    LeavesHolderProperly
