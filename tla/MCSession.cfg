\* One account on one device (and the unknown one of confirmEmail), three calls.
CONSTANTS
    Users = {u1}
    Devices = {d1, unknown}
    UnknownDevice = unknown
    Calls = {k1, k2, k3}
    AccessTtl = 1
    StaffTtl = 2
    JtiTtl = 2
    RefreshTtl = 2
    MaxClock = 3
    None = None
SPECIFICATION Spec
SYMMETRY Symmetry
INVARIANTS
    TypeOK
    RightsCatchUp
    LoggedOutReachesNothing
PROPERTY RefreshRevivesNothing
CHECK_DEADLOCK FALSE
