SPECIFICATION Spec
CONSTANTS
    b1 = b1
    b2 = b2
    b3 = b3
    b4 = b4
    q1 = q1
    q2 = q2
    q3 = q3
    Webhook <- mcWebhook
    Repository <- mcRepository
    Digest = {"sha256:1"}
    Site <- mcSite
    Routes <- mcRoutes
    Targets <- mcTargets
    DefaultChannel = "default"
    Body <- mcBody
    PayloadOf <- mcPayloadOf
    Kind <- mcKind
    Announced = {"dc1"}
    Request <- mcRequest
SYMMETRY mcSymmetry
INVARIANTS
    TypeOK
    AckedIsDurable
    DuplicateIsDurable
    OnceUnlessMet
PROPERTIES
    AnnouncedDespiteErrors
