CONSTANTS
    Users = {u1, u2}
    Keys = {k1, k2}
    Ids = {n1, n2}
    Calls = {c1, c2}
    Everyone = Everyone
    Retention = 0
    MaxClock = 2
    NoNotice = NoNotice
    Idle = Idle
    Never = Never
SPECIFICATION NotificationsSpec
SYMMETRY Symmetry
INVARIANTS
    NotificationsTypeOK
    CountIsOfItsTime
PROPERTY OnlyTheDoneGo
CHECK_DEADLOCK FALSE
