SPECIFICATION Spec
CONSTANTS
    Handlers = {h1, h2}
    Helpers = {k1, k2}
    Uids = {u1, u2}
    Creds = {c1, c2}
    None = None
    SessionIdle = 1
    NonceTtl = 1
    MaxSessions = 2
    MaxPerUid = 1
    IdleSecs = 1
    Bounds <- BoundsAll
INVARIANTS ReportedIsDurable RegistryExact OwnSessionsOnly
PROPERTY ImplementsAccess
SYMMETRY Symmetric
CHECK_DEADLOCK FALSE
