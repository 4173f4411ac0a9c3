\* Two overlapping runs of two rounds of up to two tool calls, a deadline of one unit,
\* no admin; no symmetry, which is not sound for liveness.
CONSTANTS
    p1 = p1
    k1 = k1
    Run = {r1, r2}
    Churches = {p1}
    Users = {k1}
    Clergy <- MCClergy
    Admins = {}
    NoChurch = NoChurch
    NoRun = NoRun
    MaxRounds = 2
    MaxCalls = 2
    TotalTime = 1
    CallTime = 1
    MaxClock = 1
SPECIFICATION FairSpec
INVARIANTS
    TypeOK
    SilenceIsTransmitted
    NotifiedCanOpen
PROPERTY EveryRunEnds
CHECK_DEADLOCK FALSE
