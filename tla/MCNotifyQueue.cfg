SPECIFICATION FairSpec
CONSTANTS
    i1 = i1
    i2 = i2
    r1 = r1
    r2 = r2
    h1 = h1
    h2 = h2
    Item <- mcItem
    Robot <- mcRobot
    KeyOf <- ownKeys
    Wants <- mcWants
    Handler <- oneHandler
    ListLimit = 2
    MinInterval = 2
    RetryInterval = 1
    LimitedInterval = 2
    SendTime = 1
    MaxAttempts = 2
    RepeatWhileQueued = FALSE
    MaxFaults = 1
    SavesFail = TRUE
    NoJob = NoJob
INVARIANTS
    TypeOK
    SentOncePerFault
    QueuedIsUnfinished
    ReadyRobotsServed
PROPERTIES
    Paced
    JobsSettle
