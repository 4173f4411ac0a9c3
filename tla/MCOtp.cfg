CONSTANTS
    Slots = {s1, s2, s3}
    Codes = {a, b}
    MaxAttempts = 2
    LockTtl = 2
    CodeTtl = 2
    AttemptTtl = 2
    MaxCrashes = 1
    NoCode = NoCode
SPECIFICATION Spec
SYMMETRY Symmetry
INVARIANTS
    TypeOK
    GuessesBounded
    CounterExpires
CHECK_DEADLOCK FALSE
