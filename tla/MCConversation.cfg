\* Three requests, one agent, one crash; no symmetry, which is not sound for liveness.
CONSTANTS
    Req = {r1, r2, r3}
    Agents = {a1}
    MaxCrashes = 1
SPECIFICATION FairSpec
INVARIANTS
    TypeOK
    PersonMessagesCachedInOrder
    TypingHasAReply
PROPERTY EveryRequestEnds
CHECK_DEADLOCK FALSE
