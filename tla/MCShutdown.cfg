SPECIFICATION FairSpec
CONSTANTS
    a1 = a1
    a2 = a2
    r1 = r1
    r2 = r2
    Agent <- mcAgent
    Request <- mcRequest
    HttpWait = 15
    GraceWait = 8
    ForceWait = 2
    StopSec = 20
    EndTime = 1
INVARIANTS
    TypeOK
    LimitsAreFair
    ExitFreesTasks
PROPERTIES
    Stops
CHECK_DEADLOCK FALSE
