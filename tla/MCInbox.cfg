\* Two calls that open, one user, one guest, one message, one markRead.
CONSTANTS
    Opens = {o1, o2}
    Readings = {r1}
    Messages = {m1}
    Users = {u1}
    Guests = {g1}
    MaxClock = 2
    None = None
SPECIFICATION InboxSpec
SYMMETRY Symmetry
INVARIANTS
    InboxTypeOK
    OpenedIsReused
PROPERTY OnlyReadingClears
CHECK_DEADLOCK FALSE
