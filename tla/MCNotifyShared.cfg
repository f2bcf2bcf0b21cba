SPECIFICATION Spec
CONSTANTS
    i1 = i1
    i2 = i2
    r1 = r1
    r2 = r2
    h1 = h1
    h2 = h2
    Item <- mcItem
    Robot <- mcRobot
    KeyOf <- oneKey
    Wants <- mcWants
    Handler <- oneHandler
    ListLimit = 3
    MinInterval = 2
    RetryInterval = 1
    LimitedInterval = 2
    SendTime = 1
    MaxAttempts = 2
    RepeatWhileQueued = FALSE
    MaxFaults = 0
    SavesFail = FALSE
    NoJob = NoJob
PROPERTIES
    RobotPaced
