SPECIFICATION Spec
CONSTANTS
    a1 = a1
    a2 = a2
    w1 = w1
    w2 = w2
    w3 = w3
    t1 = t1
    t2 = t2
    t3 = t3
    d1 = d1
    d2 = d2
    r1 = r1
    r2 = r2
    x = x
    y = y
    src = src
    dst = dst
    Agent <- mcAgent
    Worker <- mcWorker
    HostOf <- mcHostOf
    Task <- mcTask
    Digest <- mcDigest
    Registry <- mcRegistry
    Ref <- mcRef
    User <- mcUser
    Age <- mcAge
    Takes <- mcTakes
    SourceRegistry <- mcSourceRegistry
    TargetRegistry <- mcTargetRegistry
    DigestOf <- mcDigestOf
    Refs <- mcRefs
    SourceUser <- mcSourceUser
    TargetUser <- mcTargetUser
    CleanupLocalImages <- mcCleanup
    MaxLost = 1
    NoTask = NoTask
    NoUser = NoUser
    NoDigest = NoDigest
SYMMETRY mcSymmetry
INVARIANTS
    TypeOK
    WorksOnItsImage
    DoneLeavesNothing
    
PROPERTIES
    UsesItsAccounts
CHECK_DEADLOCK FALSE
