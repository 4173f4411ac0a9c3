\* Two sockets of one faithful, one of an admin, one conversation.
CONSTANTS
    s1 = s1
    s2 = s2
    s3 = s3
    u1 = u1
    adm = adm
    Sockets <- MCSockets
    Conversations = {c1}
    Actors <- MCActors
    Admins <- MCAdmins
    ActorOf <- MCActorOf
SPECIFICATION Spec
SYMMETRY Symmetry
INVARIANTS
    TypeOK
    RoomsAgree
    EveryoneSeesWhoIsOnline
    OnlyParticipantsListen
CHECK_DEADLOCK FALSE
