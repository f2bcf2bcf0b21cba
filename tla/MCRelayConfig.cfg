CONSTANTS
    Site = {"s1", "s2"}
    Robot = {"r1", "r2", "r3"}
    Name = {"a", "b", "w", "v"}
    Path = {"/w", "/healthz"}
    Event = {"queued", "pulling", "done", "failed", "callback_failed", "callback_pending"}
    Raw <- allFiles
    MaxRaised = 1
SPECIFICATION Spec
INVARIANTS
    TypeOK
    JobsKeepTheirChannel
    EverySubscriberHasAJob
    EntriesAreConfigured
