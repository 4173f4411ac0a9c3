\* Two sockets of one faithful, one of another; no admin.
CONSTANTS
    s1 = s1
    s2 = s2
    s3 = s3
    u1 = u1
    adm = adm
    Sockets <- MCSockets
    Conversations = {c1}
    Actors <- MCActors
    Admins = {}
    ActorOf <- MCActorOf
SPECIFICATION Spec
SYMMETRY Symmetry
INVARIANT PresenceIsConnected
CHECK_DEADLOCK FALSE
