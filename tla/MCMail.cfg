CONSTANTS
    Mails = {m1, m2}
    Jobs = {j1, j2, j3}
    Rows = {r1, r2}
    Attempts = 2
    MaxCrashes = 1
    NoJob = NoJob
    NoRow = NoRow
SPECIFICATION Spec
SYMMETRY Symmetry
INVARIANTS
    TypeOK
    NoMailLost
    RecordedIsUnsent
CHECK_DEADLOCK FALSE
