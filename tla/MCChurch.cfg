\* Four calls, three churches of four levels.
CONSTANTS
    Calls = {d1, d2, d3, d4}
    Users = {u1}
    Ids = {p1, p2, p3}
    Types = {"CONFERENCE", "DIOCESE", "PAROISSE", "CHURCH"}
    Bases = {b1}
    Nil = Nil
SPECIFICATION Spec
SYMMETRY Symmetry
INVARIANTS
    TypeOK
    HierarchyHolds
    HomeOnceFollowed
CHECK_DEADLOCK FALSE
