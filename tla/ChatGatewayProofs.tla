-------------------------- MODULE ChatGatewayProofs --------------------------
(***************************************************************************)
(* Theorems about ChatGateway, for every set of sockets, conversations and *)
(* actors.  A handler that waits holds facts that were true when it looked *)
(* them up; the invariants below say which of them still are.              *)
(***************************************************************************)
EXTENDS ChatGateway, TLAPS

\* A join whose query has answered yes belongs to an actor that takes, or has
\* taken, part: participants may leave during the wait, but leave a trace.
EntrantsWereChecked ==
    \A s \in Sockets, c \in Conversations :
        join[s][c] = "enter" => ActorOf[s] \in members[c] \cup former[c]

\* A socket without an identity has joined nothing: onJoinConversation waits for
\* the authentication before it does anything else.
StrangersAreNowhere ==
    \A s \in Sockets : ~Identified(s) =>
        /\ joined[s] = {}
        /\ \A c \in Conversations : /\ join[s][c] \in {"none", "asked"}
                                    /\ \A a \in Actors : s \notin presence[c][a]

\* A socket yet to be connected has not asked for anything.
NewcomersAreStrangers ==
    \A s \in Sockets : link[s] = "new" =>
        auth[s] = "none" /\ \A c \in Conversations : join[s][c] = "none"

\* The presence map files a socket under its own actor only.
PresenceUnderOwnActor ==
    \A s \in Sockets, c \in Conversations, a \in Actors :
        s \in presence[c][a] => a = ActorOf[s]

USE ActorAssumption

LEMMA InitTyped == Init => TypeOK
BY DEF Init, TypeOK

\* What Enter writes has its type.
LEMMA EnterTyped ==
    ASSUME TypeOK, NEW s \in Sockets, NEW cs \in SUBSET Conversations, Enter(s, cs)
    PROVE  /\ rooms' \in [Conversations -> SUBSET Sockets]
           /\ presence' \in [Conversations -> [Actors -> SUBSET Sockets]]
           /\ joined' \in [Sockets -> SUBSET Conversations]
           /\ seen' \in [Sockets -> [Conversations -> SUBSET Actors]]
BY DEF Enter, BroadcastPresence, Tracked, Online, TypeOK

\* What Enter writes, socket by socket.
LEMMA EnterWrites ==
    ASSUME TypeOK, NEW s \in Sockets, NEW cs \in SUBSET Conversations, Enter(s, cs),
           NEW t \in Sockets, NEW d \in Conversations
    PROVE  /\ d \in joined'[t] <=> (d \in joined[t] \/ (t = s /\ d \in cs))
           /\ t \in rooms'[d] <=> (t \in rooms[d] \/ (t = s /\ d \in cs /\ link[s] = "open"))
           /\ \A a \in Actors : t \in presence'[d][a]
                                   <=> (t \in presence[d][a] \/ (t = s /\ d \in cs /\ a = ActorOf[s]))
BY DEF Enter, Tracked, TypeOK

\* The joins that awaited the authentication of a socket.
LEMMA AskedTurned ==
    ASSUME TypeOK, NEW s \in Sockets, NEW step \in {"none", "member"}, AskedTurn(s, step)
    PROVE  /\ join' \in [Sockets -> [Conversations -> {"none", "asked", "member", "enter"}]]
           /\ \A t \in Sockets, d \in Conversations :
                 join'[t][d] = IF t = s /\ join[s][d] = "asked" THEN step ELSE join[t][d]
BY DEF AskedTurn, Asked, TypeOK

\* The steps of a join before it enters write nothing but where it stands.
JoinWaits(s, c) == JoinAsk(s, c) \/ JoinQuery(s, c) \/ JoinAllowed(s, c) \/ JoinForbidden(s, c)

LEMMA JoinWaitsFrame ==
    ASSUME TypeOK, NEW s \in Sockets, NEW c \in Conversations, JoinWaits(s, c)
    PROVE  /\ \E step \in {"none", "asked", "member", "enter"} : JoinAt(s, c, step)
           /\ UNCHANGED <<link, auth, rooms, presence, joined, seen, members, former>>
<1>1. CASE JoinAsk(s, c)
  BY <1>1 DEF JoinAsk, live, people
<1>2. CASE JoinForbidden(s, c)
  BY <1>2 DEF JoinForbidden, live, people
<1>3. CASE JoinQuery(s, c)
  BY <1>3 DEF JoinQuery, live, people
<1>4. CASE JoinAllowed(s, c)
  BY <1>4 DEF JoinAllowed, live, people
<1> QED BY <1>1, <1>2, <1>3, <1>4 DEF JoinWaits

LEMMA StepTyped == TypeOK /\ [Next]_vars => TypeOK'
<1> SUFFICES ASSUME TypeOK, [Next]_vars PROVE TypeOK' OBVIOUS
<1>1. ASSUME NEW s \in Sockets, SocketStep(s) PROVE TypeOK'
  <2>1. CASE Connect(s)
    BY <2>1 DEF Connect, TypeOK, people
  <2>2. CASE Authenticate(s)
    <3>1. /\ auth' \in [Sockets -> {"none", "pending", "ok", "refused"}]
          /\ UNCHANGED <<link, members, former>>
      BY <2>2 DEF Authenticate, TypeOK, people
    <3>2. join' \in [Sockets -> [Conversations -> {"none", "asked", "member", "enter"}]]
      BY <2>2, AskedTurned DEF Authenticate
    <3>3. CASE Enter(s, Asked(s))
      <4>1. Asked(s) \in SUBSET Conversations BY DEF Asked
      <4> QED BY <3>1, <3>2, <3>3, <4>1, EnterTyped DEF TypeOK
    <3>4. CASE UNCHANGED <<rooms, presence, joined, seen>>
      BY <3>1, <3>2, <3>4 DEF TypeOK
    <3> QED BY <2>2, <3>3, <3>4 DEF Authenticate
  <2>3. CASE Reject(s)
    BY <2>3, AskedTurned DEF Reject, TypeOK, people
  <2>4. CASE Disconnect(s)
    BY <2>4 DEF Disconnect, BroadcastPresence, Untracked, Online, TypeOK, people
  <2>5. ASSUME NEW c \in Conversations, JoinWaits(s, c)
        PROVE  TypeOK'
    <3>1. PICK step \in {"none", "asked", "member", "enter"} :
             join' = [join EXCEPT ![s] = [@ EXCEPT ![c] = step]]
      BY <2>5, JoinWaitsFrame DEF JoinAt
    <3>2. join' \in [Sockets -> [Conversations -> {"none", "asked", "member", "enter"}]]
      BY <3>1 DEF TypeOK
    <3> QED BY <2>5, <3>2, JoinWaitsFrame DEF TypeOK
  <2>6. ASSUME NEW c \in Conversations, JoinAdmin(s, c) \/ JoinEnter(s, c) PROVE TypeOK'
    <3>1. /\ Enter(s, {c})
          /\ join' = join \/ JoinAt(s, c, "none")
          /\ UNCHANGED <<link, auth, members, former>>
      BY <2>6 DEF JoinAdmin, JoinEnter, live, people
    <3>2. join' \in [Sockets -> [Conversations -> {"none", "asked", "member", "enter"}]]
      <4>1. CASE join' = join BY <4>1 DEF TypeOK
      <4>2. CASE join' = [join EXCEPT ![s] = [@ EXCEPT ![c] = "none"]] BY <4>2 DEF TypeOK
      <4> QED BY <3>1, <4>1, <4>2 DEF JoinAt
    <3> QED BY <3>1, <3>2, EnterTyped DEF TypeOK
  <2>7. ASSUME NEW c \in Conversations, Leave(s, c) PROVE TypeOK'
    BY <2>7 DEF Leave, BroadcastPresence, Untracked, Online, TypeOK, live, people
  <2> QED BY <1>1, <2>1, <2>2, <2>3, <2>4, <2>5, <2>6, <2>7 DEF SocketStep, JoinWaits
<1>2. ASSUME NEW c \in Conversations, NEW a \in Actors,
             ParticipantAdded(c, a) \/ ParticipantLeft(c, a)
      PROVE  TypeOK'
  <2>1. members' \in [Conversations -> SUBSET Actors] /\ former' \in [Conversations -> SUBSET Actors]
    <3>1. CASE ParticipantAdded(c, a)
      BY <3>1 DEF ParticipantAdded, TypeOK
    <3>2. CASE ParticipantLeft(c, a)
      BY <3>2 DEF ParticipantLeft, TypeOK
    <3> QED BY <1>2, <3>1, <3>2
  <2> QED BY <1>2, <2>1 DEF ParticipantAdded, ParticipantLeft, TypeOK, live
<1>3. CASE Restart
  BY <1>3 DEF Restart, TypeOK, people
<1>4. CASE UNCHANGED vars
  BY <1>4 DEF vars, live, people, TypeOK
<1> QED BY <1>1, <1>2, <1>3, <1>4 DEF Next

\* The gateway keeps its types: rooms, lists and presence hold sockets,
\* conversations and actors that exist.
THEOREM GatewayTyped == Spec => []TypeOK
BY InitTyped, StepTyped, PTL DEF Spec

-----------------------------------------------------------------------------
(* Who listens *)

LEMMA InitListening == Init => EntrantsWereChecked /\ OnlyParticipantsListen
BY DEF Init, EntrantsWereChecked, OnlyParticipantsListen

LEMMA StepListening ==
    TypeOK /\ EntrantsWereChecked /\ OnlyParticipantsListen /\ [Next]_vars
        => EntrantsWereChecked' /\ OnlyParticipantsListen'
<1> SUFFICES ASSUME TypeOK, EntrantsWereChecked, OnlyParticipantsListen, [Next]_vars
             PROVE  EntrantsWereChecked' /\ OnlyParticipantsListen'
  OBVIOUS
<1> USE DEF EntrantsWereChecked, OnlyParticipantsListen
<1>1. ASSUME NEW s \in Sockets, SocketStep(s)
      PROVE  EntrantsWereChecked' /\ OnlyParticipantsListen'
  <2>1. CASE Connect(s)
    BY <2>1 DEF Connect, people
  <2>6. CASE Reject(s)
    <3>1. UNCHANGED <<rooms, members, former>> BY <2>6 DEF Reject, people
    <3>2. \A t \in Sockets, d \in Conversations : join'[t][d] = "enter" => join[t][d] = "enter"
      BY <2>6, AskedTurned DEF Reject
    <3> QED BY <3>1, <3>2
  <2>7. CASE Authenticate(s)
    <3>1. UNCHANGED <<members, former>> BY <2>7 DEF Authenticate, people
    <3>2. \A t \in Sockets, d \in Conversations : join'[t][d] = "enter" => join[t][d] = "enter"
      BY <2>7, AskedTurned DEF Authenticate
    <3>3. \A d \in Conversations : \A t \in rooms'[d] : t \in rooms[d] \/ ActorOf[t] \in Admins
      <4>1. CASE ActorOf[s] \in Admins /\ Enter(s, Asked(s))
        <5>1. Asked(s) \in SUBSET Conversations BY DEF Asked
        <5>2. rooms' \in [Conversations -> SUBSET Sockets] BY <4>1, <5>1, EnterTyped
        <5> QED BY <4>1, <5>1, <5>2, EnterWrites
      <4>2. CASE UNCHANGED rooms BY <4>2
      <4> QED BY <2>7, <4>1, <4>2 DEF Authenticate
    <3> QED BY <3>1, <3>2, <3>3
  <2>2. CASE Disconnect(s)
    BY <2>2 DEF Disconnect, TypeOK, people
  <2>3. ASSUME NEW c \in Conversations, JoinWaits(s, c)
        PROVE  EntrantsWereChecked' /\ OnlyParticipantsListen'
    <3>1. UNCHANGED <<rooms, members, former>>
      BY <2>3, JoinWaitsFrame
    <3>2. ASSUME NEW t \in Sockets, NEW d \in Conversations, join'[t][d] = "enter"
          PROVE  join[t][d] = "enter" \/ ActorOf[t] \in members[d]
      <4>1. CASE JoinAllowed(s, c)
        BY <4>1, <3>2 DEF JoinAllowed, JoinAt, TypeOK
      <4>2. CASE JoinAsk(s, c) \/ JoinQuery(s, c) \/ JoinForbidden(s, c)
        <5>1. PICK step \in {"none", "asked", "member"} :
                 join' = [join EXCEPT ![s] = [@ EXCEPT ![c] = step]]
          BY <4>2 DEF JoinAsk, JoinQuery, JoinForbidden, JoinAt
        <5> QED BY <5>1, <3>2 DEF TypeOK
      <4> QED BY <2>3, <4>1, <4>2 DEF JoinWaits
    <3> QED BY <3>1, <3>2
  <2>4. ASSUME NEW c \in Conversations, JoinAdmin(s, c) \/ JoinEnter(s, c)
        PROVE  EntrantsWereChecked' /\ OnlyParticipantsListen'
    <3>1. UNCHANGED <<members, former>>
      BY <2>4 DEF JoinAdmin, JoinEnter, people
    <3>2. ActorOf[s] \in Admins \cup members[c] \cup former[c]
      BY <2>4 DEF JoinAdmin, JoinEnter
    <3>3. \A t \in Sockets, d \in Conversations : join'[t][d] = "enter" => join[t][d] = "enter"
      <4>1. join' = join \/ join' = [join EXCEPT ![s] = [@ EXCEPT ![c] = "none"]]
        BY <2>4 DEF JoinAdmin, JoinEnter, JoinAt
      <4>2. CASE join' = join BY <4>2
      <4>3. CASE join' = [join EXCEPT ![s] = [@ EXCEPT ![c] = "none"]] BY <4>3 DEF TypeOK
      <4> QED BY <4>1, <4>2, <4>3
    <3>4. \A d \in Conversations : \A t \in rooms'[d] : t \in rooms[d] \/ (t = s /\ d = c)
      <4>1. Enter(s, {c}) BY <2>4 DEF JoinAdmin, JoinEnter
      <4>2. rooms' \in [Conversations -> SUBSET Sockets] BY <4>1, EnterTyped
      <4> QED BY <4>1, <4>2, EnterWrites
    <3> QED BY <3>1, <3>2, <3>3, <3>4
  <2>5. ASSUME NEW c \in Conversations, Leave(s, c)
        PROVE  EntrantsWereChecked' /\ OnlyParticipantsListen'
    BY <2>5 DEF Leave, TypeOK, live, people
  <2> QED BY <1>1, <2>1, <2>2, <2>3, <2>4, <2>5, <2>6, <2>7 DEF SocketStep, JoinWaits
<1>2. ASSUME NEW c \in Conversations, NEW a \in Actors,
             ParticipantAdded(c, a) \/ ParticipantLeft(c, a)
      PROVE  EntrantsWereChecked' /\ OnlyParticipantsListen'
  <2>1. \A d \in Conversations :
           (members[d] \cup former[d]) \subseteq (members'[d] \cup former'[d])
    BY <1>2 DEF ParticipantAdded, ParticipantLeft, TypeOK
  <2>2. UNCHANGED <<rooms, join>>
    BY <1>2 DEF ParticipantAdded, ParticipantLeft
  <2> QED BY <2>1, <2>2
<1>3. CASE Restart
  BY <1>3 DEF Restart, people
<1>4. CASE UNCHANGED vars
  BY <1>4 DEF vars, live, people
<1> QED BY <1>1, <1>2, <1>3, <1>4 DEF Next

\* Whoever receives the events of a conversation is an admin or takes, or has
\* taken, part in it.
THEOREM ListenersTookPart == Spec => []OnlyParticipantsListen
BY InitTyped, StepTyped, InitListening, StepListening, PTL DEF Spec

-----------------------------------------------------------------------------
(* Who is shown online *)

LEMMA InitAnnounced == Init => EveryoneSeesWhoIsOnline
BY DEF Init, EveryoneSeesWhoIsOnline

LEMMA EnterAnnounced ==
    ASSUME TypeOK, EveryoneSeesWhoIsOnline, NEW s \in Sockets,
           NEW cs \in SUBSET Conversations, Enter(s, cs)
    PROVE  EveryoneSeesWhoIsOnline'
<1> USE DEF EveryoneSeesWhoIsOnline, Online
<1>1. \A d \in Conversations \ cs : rooms'[d] = rooms[d] /\ presence'[d] = presence[d]
  BY DEF Enter, TypeOK
<1>2. ASSUME NEW d \in Conversations, NEW t \in Sockets, t \in rooms'[d]
      PROVE  seen'[t][d] = Online(d)'
  <2>1. seen'[t][d] = IF d \in cs THEN Online(d)' ELSE seen[t][d]
    BY <1>2 DEF Enter, BroadcastPresence
  <2> QED BY <1>1, <1>2, <2>1
<1>3. rooms' \in [Conversations -> SUBSET Sockets] BY EnterTyped
<1> QED BY <1>2, <1>3

LEMMA AuthenticateAnnounced ==
    ASSUME TypeOK, EveryoneSeesWhoIsOnline, NEW s \in Sockets, Authenticate(s)
    PROVE  EveryoneSeesWhoIsOnline'
<1>1. Enter(s, Asked(s)) \/ UNCHANGED <<rooms, presence, seen>> BY DEF Authenticate
<1>2. Asked(s) \in SUBSET Conversations BY DEF Asked
<1>3. CASE Enter(s, Asked(s)) BY <1>2, <1>3, EnterAnnounced
<1>4. CASE UNCHANGED <<rooms, presence, seen>> BY <1>4 DEF EveryoneSeesWhoIsOnline, Online
<1> QED BY <1>1, <1>3, <1>4

\* The presence changes only in the conversations whose rooms are told.
LEMMA StepAnnounced == TypeOK /\ EveryoneSeesWhoIsOnline /\ [Next]_vars => EveryoneSeesWhoIsOnline'
<1> SUFFICES ASSUME TypeOK, EveryoneSeesWhoIsOnline, [Next]_vars PROVE EveryoneSeesWhoIsOnline'
  OBVIOUS
<1> USE DEF EveryoneSeesWhoIsOnline, Online
<1>1. ASSUME NEW s \in Sockets, SocketStep(s) PROVE EveryoneSeesWhoIsOnline'
  <2>1. CASE Connect(s) \/ Reject(s)
    BY <2>1 DEF Connect, Reject
  <2>6. CASE Authenticate(s)
    BY <2>6, AuthenticateAnnounced
  <2>2. CASE Disconnect(s)
    BY <2>2 DEF Disconnect, BroadcastPresence, Untracked, TypeOK
  <2>3. ASSUME NEW c \in Conversations, JoinWaits(s, c)
        PROVE  EveryoneSeesWhoIsOnline'
    BY <2>3, JoinWaitsFrame
  <2>4. ASSUME NEW c \in Conversations, JoinAdmin(s, c) \/ JoinEnter(s, c)
        PROVE  EveryoneSeesWhoIsOnline'
    BY <2>4, EnterAnnounced DEF JoinAdmin, JoinEnter
  <2>5. ASSUME NEW c \in Conversations, Leave(s, c) PROVE EveryoneSeesWhoIsOnline'
    BY <2>5 DEF Leave, BroadcastPresence, Untracked, TypeOK
  <2> QED BY <1>1, <2>1, <2>2, <2>3, <2>4, <2>5, <2>6 DEF SocketStep, JoinWaits
<1>2. ASSUME NEW c \in Conversations, NEW a \in Actors,
             ParticipantAdded(c, a) \/ ParticipantLeft(c, a)
      PROVE  EveryoneSeesWhoIsOnline'
  BY <1>2 DEF ParticipantAdded, ParticipantLeft
<1>3. CASE Restart
  BY <1>3 DEF Restart
<1>4. CASE UNCHANGED vars
  BY <1>4 DEF vars
<1> QED BY <1>1, <1>2, <1>3, <1>4 DEF Next

\* Every socket of a room knows exactly who is online in it.
THEOREM PresenceAnnounced == Spec => []EveryoneSeesWhoIsOnline
BY InitTyped, StepTyped, InitAnnounced, StepAnnounced, PTL DEF Spec
-----------------------------------------------------------------------------
(* Rooms, lists and presence *)

\* RoomsAgree is kept by a step that touches one socket only if that socket is
\* where its identity and its connection say it may be.
Placed == StrangersAreNowhere /\ NewcomersAreStrangers /\ PresenceUnderOwnActor /\ RoomsAgree

LEMMA InitPlaced == Init => Placed
BY DEF Init, Placed, StrangersAreNowhere, NewcomersAreStrangers, PresenceUnderOwnActor, RoomsAgree,
       Identified

\* The one that enters is identified by the end of the step: what it has joined, and
\* the joins that it has in progress, are its own.
LEMMA EnterPlaced ==
    ASSUME TypeOK, Placed, NEW s \in Sockets, NEW cs \in SUBSET Conversations, Enter(s, cs),
           UNCHANGED link, link[s] # "new", Identified(s)',
           \A t \in Sockets \ {s} : auth'[t] = auth[t],
           \A t \in Sockets, d \in Conversations : t # s => join'[t][d] = join[t][d]
    PROVE  Placed'
<1> USE DEF Placed, StrangersAreNowhere, NewcomersAreStrangers, PresenceUnderOwnActor, RoomsAgree,
            Identified
<1>1. StrangersAreNowhere'
  <2> SUFFICES ASSUME NEW t \in Sockets, auth'[t] # "ok"
               PROVE  /\ joined'[t] = {}
                      /\ \A d \in Conversations : /\ join'[t][d] \in {"none", "asked"}
                                                  /\ \A a \in Actors : t \notin presence'[d][a]
    OBVIOUS
  <2>1. t # s /\ auth[t] # "ok" OBVIOUS
  <2>2. joined'[t] = joined[t] BY <2>1 DEF Enter, TypeOK
  <2> QED BY <2>1, <2>2, EnterWrites
<1>2. NewcomersAreStrangers' OBVIOUS
<1>3. PresenceUnderOwnActor' BY EnterWrites
<1>4. \A t \in Sockets : ActorOf[t] \in Actors OBVIOUS
<1>5. RoomsAgree' BY <1>4, EnterWrites
<1> QED BY <1>1, <1>2, <1>3, <1>5

LEMMA StepPlaced == TypeOK /\ Placed /\ [Next]_vars => Placed'
<1> SUFFICES ASSUME TypeOK, Placed, [Next]_vars PROVE Placed' OBVIOUS
<1> USE DEF Placed, StrangersAreNowhere, NewcomersAreStrangers, PresenceUnderOwnActor, RoomsAgree,
            Identified
<1>1. ASSUME NEW s \in Sockets, SocketStep(s) PROVE Placed'
  <2>1. CASE Connect(s)
    BY <2>1 DEF Connect, TypeOK
  <2>2. CASE Authenticate(s)
    <3>1. auth[s] = "pending" /\ link[s] # "new" BY <2>2 DEF Authenticate
    <3>2. UNCHANGED link /\ \A t \in Sockets : auth'[t] = IF t = s THEN "ok" ELSE auth[t]
      BY <2>2 DEF Authenticate, TypeOK
    <3>3. \A t \in Sockets, d \in Conversations : t # s => join'[t][d] = join[t][d]
      BY <2>2, AskedTurned DEF Authenticate
    <3>4. CASE Enter(s, Asked(s))
      <4>1. Asked(s) \in SUBSET Conversations BY DEF Asked
      <4> QED BY <3>1, <3>2, <3>3, <3>4, <4>1, EnterPlaced
    <3>5. CASE UNCHANGED <<rooms, presence, joined>>
      BY <3>1, <3>2, <3>3, <3>5
    <3> QED BY <2>2, <3>4, <3>5 DEF Authenticate
  <2>3. CASE Reject(s)
    <3>1. auth[s] = "pending" BY <2>3 DEF Reject
    <3>2. /\ UNCHANGED <<rooms, presence, joined>>
          /\ \A t \in Sockets : /\ auth'[t] = IF t = s THEN "refused" ELSE auth[t]
                                /\ link'[t] = IF t = s THEN "closed" ELSE link[t]
      BY <2>3 DEF Reject, TypeOK
    <3>3. \A t \in Sockets, d \in Conversations :
             join'[t][d] = IF t = s /\ join[s][d] = "asked" THEN "none" ELSE join[t][d]
      BY <2>3, AskedTurned DEF Reject
    <3>4. StrangersAreNowhere' /\ PresenceUnderOwnActor' BY <3>1, <3>2, <3>3
    <3>5. NewcomersAreStrangers' BY <3>1, <3>2, <3>3
    <3>6. RoomsAgree' BY <3>1, <3>2
    <3> QED BY <3>4, <3>5, <3>6
  <2>4. CASE Disconnect(s)
    <3>1. /\ link' = [link EXCEPT ![s] = "closed"]
          /\ UNCHANGED <<auth, joined, join>>
          /\ \A d \in Conversations : rooms'[d] = rooms[d] \ {s}
      BY <2>4 DEF Disconnect
    <3>2. ASSUME NEW d \in Conversations, NEW a \in Actors, NEW t \in Sockets
          PROVE  /\ t \in presence'[d][a] => t \in presence[d][a]
                 /\ t # s /\ t \in presence[d][a] => t \in presence'[d][a]
      BY <2>4 DEF Disconnect, Untracked, TypeOK
    <3>3. link[s] = "open" BY <2>4 DEF Disconnect
    <3>4. \A t \in Sockets : ActorOf[t] \in Actors OBVIOUS
    <3>5. \A t \in Sockets : link'[t] = IF t = s THEN "closed" ELSE link[t]
      BY <3>1 DEF TypeOK
    <3>6. StrangersAreNowhere' BY <3>1, <3>2
    <3>7. NewcomersAreStrangers' BY <3>1, <3>5
    <3>8. PresenceUnderOwnActor' BY <3>2
    <3>9. RoomsAgree' BY <3>1, <3>2, <3>4, <3>5
    <3> QED BY <3>6, <3>7, <3>8, <3>9
  <2>5. ASSUME NEW c \in Conversations, JoinWaits(s, c) PROVE Placed'
    <3>1. UNCHANGED <<link, auth, rooms, presence, joined>>
      BY <2>5, JoinWaitsFrame
    <3>2. PICK step \in {"none", "asked", "member", "enter"} :
             join' = [join EXCEPT ![s] = [@ EXCEPT ![c] = step]]
      BY <2>5, JoinWaitsFrame DEF JoinAt
    <3>3. link[s] # "new" /\ (step \in {"none", "asked"} \/ Identified(s))
      <4>1. CASE JoinAsk(s, c)
        BY <4>1, <3>2 DEF JoinAsk, JoinAt, TypeOK
      <4>2. CASE JoinForbidden(s, c)
        BY <4>2, <3>2 DEF JoinForbidden, JoinAt, TypeOK
      <4>3. CASE JoinQuery(s, c) \/ JoinAllowed(s, c)
        BY <4>3 DEF JoinQuery, JoinAllowed, TypeOK
      <4> QED BY <2>5, <4>1, <4>2, <4>3 DEF JoinWaits
    <3>4. \A t \in Sockets, d \in Conversations :
             join'[t][d] = IF t = s /\ d = c THEN step ELSE join[t][d]
      BY <3>2 DEF TypeOK
    <3> QED BY <3>1, <3>3, <3>4
  <2>6. ASSUME NEW c \in Conversations, JoinAdmin(s, c) \/ JoinEnter(s, c) PROVE Placed'
    <3>1. Enter(s, {c}) /\ auth[s] = "ok" /\ UNCHANGED <<link, auth>>
      BY <2>6 DEF JoinAdmin, JoinEnter, live, TypeOK
    <3>2. link[s] # "new" BY <3>1
    <3>3. \A t \in Sockets, d \in Conversations : t # s => join'[t][d] = join[t][d]
      BY <2>6 DEF JoinAdmin, JoinEnter, JoinAt, TypeOK
    <3> QED BY <3>1, <3>2, <3>3, EnterPlaced
  <2>7. ASSUME NEW c \in Conversations, Leave(s, c) PROVE Placed'
    <3>1. link[s] = "open" /\ UNCHANGED <<link, auth, join>>
      BY <2>7 DEF Leave, live
    <3>2. \A t \in Sockets, d \in Conversations :
             t \in rooms'[d] <=> (t \in rooms[d] /\ ~(t = s /\ d = c))
      BY <2>7 DEF Leave, TypeOK
    <3>3. \A t \in Sockets, d \in Conversations :
             d \in joined'[t] <=> (d \in joined[t] /\ ~(t = s /\ d = c))
      BY <2>7 DEF Leave, TypeOK
    <3>4. \A t \in Sockets, d \in Conversations, a \in Actors :
             t \in presence'[d][a]
                <=> (t \in presence[d][a] /\ ~(t = s /\ d = c /\ a = ActorOf[s]))
      BY <2>7 DEF Leave, Untracked, TypeOK
    <3>5. joined' \in [Sockets -> SUBSET Conversations]
      BY <2>7 DEF Leave, TypeOK
    <3>6. StrangersAreNowhere' BY <3>1, <3>3, <3>4, <3>5
    <3>7. NewcomersAreStrangers' BY <3>1
    <3>8. PresenceUnderOwnActor' BY <3>4
    <3>9. \A t \in Sockets : ActorOf[t] \in Actors OBVIOUS
    <3>10. RoomsAgree' BY <3>1, <3>2, <3>3, <3>4, <3>9
    <3> QED BY <3>6, <3>7, <3>8, <3>10
  <2> QED BY <1>1, <2>1, <2>2, <2>3, <2>4, <2>5, <2>6, <2>7 DEF SocketStep, JoinWaits
<1>2. ASSUME NEW c \in Conversations, NEW a \in Actors,
             ParticipantAdded(c, a) \/ ParticipantLeft(c, a)
      PROVE  Placed'
  BY <1>2 DEF ParticipantAdded, ParticipantLeft, live
<1>3. CASE Restart
  BY <1>3 DEF Restart, TypeOK
<1>4. CASE UNCHANGED vars
  BY <1>4 DEF vars, live
<1> QED BY <1>1, <1>2, <1>3, <1>4 DEF Next

\* The Socket.io rooms, the list of each connected socket and the presence map
\* agree, whatever joins and leaves are in progress.
THEOREM RoomsAgreeAlways == Spec => []RoomsAgree
<1>1. Placed => RoomsAgree BY DEF Placed
<1> QED BY <1>1, InitTyped, StepTyped, InitPlaced, StepPlaced, PTL DEF Spec

\* A step that closes a connection takes the socket out of every presence.
LEMMA StepClears ==
    TypeOK /\ Placed /\ [Next]_vars =>
        \A s \in Sockets : link[s] = "open" /\ link'[s] = "closed" =>
            \A c \in Conversations, a \in Actors : s \notin presence'[c][a]
<1> SUFFICES ASSUME TypeOK, Placed, [Next]_vars, NEW s \in Sockets,
                    link[s] = "open", link'[s] = "closed",
                    NEW c \in Conversations, NEW a \in Actors
             PROVE  s \notin presence'[c][a]
  OBVIOUS
<1>1. Reject(s) \/ Disconnect(s) \/ Restart
  <2>1. ASSUME NEW t \in Sockets, SocketStep(t) PROVE Reject(s) \/ Disconnect(s)
    <3>1. CASE Connect(t) BY <3>1 DEF Connect, TypeOK
    <3>2. CASE Authenticate(t) BY <3>2 DEF Authenticate
    <3>3. CASE Reject(t) BY <3>3 DEF Reject, TypeOK
    <3>4. CASE Disconnect(t) BY <3>4 DEF Disconnect, TypeOK
    <3>5. ASSUME NEW d \in Conversations, JoinWaits(t, d) PROVE FALSE
      BY <3>5, JoinWaitsFrame
    <3>6. ASSUME NEW d \in Conversations, JoinAdmin(t, d) \/ JoinEnter(t, d) \/ Leave(t, d)
          PROVE  FALSE
      BY <3>6 DEF JoinAdmin, JoinEnter, Leave, live
    <3> QED BY <2>1, <3>1, <3>2, <3>3, <3>4, <3>5, <3>6 DEF SocketStep, JoinWaits
  <2>2. ASSUME NEW d \in Conversations, NEW b \in Actors,
               ParticipantAdded(d, b) \/ ParticipantLeft(d, b)
        PROVE  FALSE
    BY <2>2 DEF ParticipantAdded, ParticipantLeft, live
  <2> QED BY <2>1, <2>2 DEF Next, vars
<1>2. CASE Reject(s)
  BY <1>2 DEF Reject, Placed, StrangersAreNowhere, Identified
<1>3. CASE Disconnect(s)
  <2>1. presence'[c] = IF c \in joined[s] THEN Untracked(s, c) ELSE presence[c]
    BY <1>3 DEF Disconnect
  <2>2. ActorOf[s] \in Actors OBVIOUS
  <2> QED BY <2>1, <2>2 DEF Untracked, Placed, RoomsAgree, PresenceUnderOwnActor, TypeOK
<1>4. CASE Restart
  BY <1>4 DEF Restart
<1> QED BY <1>1, <1>2, <1>3, <1>4

\* A disconnection leaves no trace of the socket in the presence of any room.
THEOREM DisconnectionClears == Spec => PresenceClearedOnDisconnect
BY InitTyped, StepTyped, InitPlaced, StepPlaced, StepClears, PTL
   DEF Spec, PresenceClearedOnDisconnect
=============================================================================
