----------------------------- MODULE ChatGateway -----------------------------
(***************************************************************************)
(* The Socket.io gateway of the chat (ChatGateway): authentication of a    *)
(* connection, the rooms of the conversations, and who is shown online.    *)
(*                                                                         *)
(* Node runs one handler at a time, from one await that really waits to    *)
(* the next; an action is such a stretch.  A socket is never reused: a     *)
(* client that reconnects gets a new element of Sockets.  A socket has at  *)
(* most one join of a given conversation in progress.                      *)
(*                                                                         *)
(* The typing indicator, relayed without any change of state, is left out. *)
(***************************************************************************)
EXTENDS Integers

CONSTANTS Sockets, Conversations, Actors,
          Admins,     \* actors whose token has the role admin or engineer
          ActorOf     \* the identity each socket presents

ASSUME ActorAssumption == Admins \subseteq Actors /\ ActorOf \in [Sockets -> Actors]

VARIABLES
    link,      \* the connection of each socket
    auth,      \* the promise in `authenticating`; socket.data is set once "ok"
    rooms,     \* conversation -> sockets in its Socket.io room
    presence,  \* conversation -> actor -> sockets tracked for it
    joined,    \* data.conversations of each socket
    join,      \* where onJoinConversation stands, for each socket and conversation
    seen,      \* online actors in the last presence:update each socket received
    members,   \* active participants of each conversation (left_at IS NULL)
    former     \* participants that have left

vars == <<link, auth, rooms, presence, joined, join, seen, members, former>>
live == <<link, auth>>
people == <<members, former>>

Online(c) == {a \in Actors : presence[c][a] # {}}

TypeOK ==
    /\ link \in [Sockets -> {"new", "open", "closed"}]
    /\ auth \in [Sockets -> {"none", "pending", "ok", "refused"}]
    /\ rooms \in [Conversations -> SUBSET Sockets]
    /\ presence \in [Conversations -> [Actors -> SUBSET Sockets]]
    /\ joined \in [Sockets -> SUBSET Conversations]
    /\ join \in [Sockets -> [Conversations -> {"none", "asked", "member", "enter"}]]
    /\ seen \in [Sockets -> [Conversations -> SUBSET Actors]]
    /\ members \in [Conversations -> SUBSET Actors]
    /\ former \in [Conversations -> SUBSET Actors]

Init ==
    /\ link = [s \in Sockets |-> "new"]
    /\ auth = [s \in Sockets |-> "none"]
    /\ rooms = [c \in Conversations |-> {}]
    /\ presence = [c \in Conversations |-> [a \in Actors |-> {}]]
    /\ joined = [s \in Sockets |-> {}]
    /\ join = [s \in Sockets |-> [c \in Conversations |-> "none"]]
    /\ seen = [s \in Sockets |-> [c \in Conversations |-> {}]]
    /\ members = [c \in Conversations |-> {}]
    /\ former = [c \in Conversations |-> {}]

Identified(s) == auth[s] = "ok"
Untracked(s, c) == [presence[c] EXCEPT ![ActorOf[s]] = @ \ {s}]
Tracked(s, c) == [presence[c] EXCEPT ![ActorOf[s]] = @ \cup {s}]

\* broadcastPresence: every socket then in the room receives who is online.
BroadcastPresence(cs) ==
    seen' = [s \in Sockets |-> [c \in Conversations |->
                IF c \in cs /\ s \in rooms'[c] THEN Online(c)' ELSE seen[s][c]]]

JoinAt(s, c, step) == join' = [join EXCEPT ![s][c] = step]

\* Mutant: the conversations joined are not recorded in socket.data.
EnterUnrecorded(s, cs) ==
    /\ rooms' = [c \in Conversations |->
                    IF c \in cs /\ link[s] = "open" THEN rooms[c] \cup {s} ELSE rooms[c]]
    /\ presence' = [c \in Conversations |-> IF c \in cs THEN Tracked(s, c) ELSE presence[c]]
    /\ BroadcastPresence(cs)
    /\ UNCHANGED joined

\* Mutant: the identity is recorded where the conversation should be.
EnterSwapped(s, cs) ==
    /\ rooms' = [c \in Conversations |->
                    IF c \in cs /\ link[s] = "open" THEN rooms[c] \cup {s} ELSE rooms[c]]
    /\ joined' = [joined EXCEPT ![s] = @ \cup {ActorOf[s]}]
    /\ presence' = [c \in Conversations |-> IF c \in cs THEN Tracked(s, c) ELSE presence[c]]
    /\ BroadcastPresence(cs)

\* Mutant: the others are not told.
EnterSilently(s, cs) ==
    /\ rooms' = [c \in Conversations |->
                    IF c \in cs /\ link[s] = "open" THEN rooms[c] \cup {s} ELSE rooms[c]]
    /\ joined' = [joined EXCEPT ![s] = @ \cup cs]
    /\ presence' = [c \in Conversations |-> IF c \in cs THEN Tracked(s, c) ELSE presence[c]]
    /\ UNCHANGED seen

\* The end of onJoinConversation.  socket.join does nothing on a closed socket
\* (Socket.io 4.8); the rest of the handler runs all the same.
Enter(s, cs) ==
    /\ rooms' = [c \in Conversations |->
                    IF c \in cs /\ link[s] = "open" THEN rooms[c] \cup {s} ELSE rooms[c]]
    /\ joined' = [joined EXCEPT ![s] = @ \cup cs]
    /\ presence' = [c \in Conversations |-> IF c \in cs THEN Tracked(s, c) ELSE presence[c]]
    /\ BroadcastPresence(cs)

-----------------------------------------------------------------------------
(* handleConnection, handleDisconnect *)

Connect(s) ==
    /\ link[s] = "new"
    /\ link' = [link EXCEPT ![s] = "open"]
    /\ auth' = [auth EXCEPT ![s] = "pending"]
    /\ UNCHANGED <<rooms, presence, joined, join, seen, people>>

Asked(s) == {c \in Conversations : join[s][c] = "asked"}
AskedTurn(s, step) ==
    join' = [join EXCEPT ![s] = [c \in Conversations |-> IF c \in Asked(s) THEN step ELSE @[c]]]

\* The blacklist answered: socket.data is set, were the socket closed meanwhile, and
\* the joins that awaited it go on at once: those of an admin to their end, the
\* others to their query.
Authenticate(s) ==
    /\ auth[s] = "pending"
    /\ auth' = [auth EXCEPT ![s] = "ok"]
    /\ \/ ActorOf[s] \in Admins /\ AskedTurn(s, "none") /\ Enter(s, Asked(s))
       \/ /\ ActorOf[s] \notin Admins /\ AskedTurn(s, "member")
          /\ UNCHANGED <<rooms, presence, joined, seen>>
    /\ UNCHANGED <<link, people>>

\* A bad key, token or guest id, a revoked session, or an error of Redis.  The joins
\* that awaited it find no identity and end.
Reject(s) ==
    /\ auth[s] = "pending"
    /\ auth' = [auth EXCEPT ![s] = "refused"]
    /\ link' = [link EXCEPT ![s] = "closed"]
    /\ AskedTurn(s, "none")
    /\ UNCHANGED <<rooms, presence, joined, seen, people>>

\* Socket.io has left the rooms when handleDisconnect runs; a socket without an
\* identity yet has nothing to clean.
Disconnect(s) ==
    /\ link[s] = "open"
    /\ link' = [link EXCEPT ![s] = "closed"]
    /\ rooms' = [c \in Conversations |-> rooms[c] \ {s}]
    /\ presence' = [c \in Conversations |->
                       IF c \in joined[s] THEN Untracked(s, c) ELSE presence[c]]
    /\ BroadcastPresence(joined[s])
    /\ UNCHANGED <<auth, joined, join, people>>

-----------------------------------------------------------------------------
(* onJoinConversation *)

\* The handler awaits the authentication in progress.
JoinAsk(s, c) ==
    /\ link[s] = "open"
    /\ auth[s] = "pending"
    /\ join[s][c] = "none"
    /\ JoinAt(s, c, "asked")
    /\ UNCHANGED <<live, rooms, presence, joined, seen, people>>

\* An admin enters without a query: nothing comes between the event and the end.
JoinAdmin(s, c) ==
    /\ link[s] = "open"
    /\ Identified(s)
    /\ ActorOf[s] \in Admins
    /\ Enter(s, {c})
    /\ UNCHANGED <<live, join, people>>

JoinQuery(s, c) ==
    /\ link[s] = "open"
    /\ Identified(s)
    /\ ActorOf[s] \notin Admins
    /\ join[s][c] = "none"
    /\ JoinAt(s, c, "member")
    /\ UNCHANGED <<live, rooms, presence, joined, seen, people>>

\* Mutant: whoever asks is let in.
JoinAllowedToAll(s, c) ==
    /\ join[s][c] = "member"
    /\ JoinAt(s, c, "enter")
    /\ UNCHANGED <<live, rooms, presence, joined, seen, people>>

\* isActiveParticipant, as the database answers it.
JoinAllowed(s, c) ==
    /\ join[s][c] = "member"
    /\ ActorOf[s] \in members[c]
    /\ JoinAt(s, c, "enter")
    /\ UNCHANGED <<live, rooms, presence, joined, seen, people>>

\* Not an active participant, or the query failed.
JoinForbidden(s, c) ==
    /\ join[s][c] = "member"
    /\ JoinAt(s, c, "none")
    /\ UNCHANGED <<live, rooms, presence, joined, seen, people>>

\* The answer has come back to the handler.
JoinEnter(s, c) ==
    /\ join[s][c] = "enter"
    /\ JoinAt(s, c, "none")
    /\ Enter(s, {c})
    /\ UNCHANGED <<live, people>>

\* onLeaveConversation: no wait, and no look at a join in progress.
Leave(s, c) ==
    /\ link[s] = "open"
    /\ rooms' = [rooms EXCEPT ![c] = @ \ {s}]
    /\ joined' = IF Identified(s) THEN [joined EXCEPT ![s] = @ \ {c}] ELSE joined
    /\ presence' = IF Identified(s) THEN [presence EXCEPT ![c] = Untracked(s, c)] ELSE presence
    /\ BroadcastPresence({c})
    /\ UNCHANGED <<live, join, people>>

-----------------------------------------------------------------------------
(* ChatService changes who takes part; the rooms are not told *)

ParticipantAdded(c, a) ==
    /\ a \notin members[c]
    /\ members' = [members EXCEPT ![c] = @ \cup {a}]
    /\ UNCHANGED <<live, rooms, presence, joined, join, seen, former>>

ParticipantLeft(c, a) ==
    /\ a \in members[c]
    /\ members' = [members EXCEPT ![c] = @ \ {a}]
    /\ former' = [former EXCEPT ![c] = @ \cup {a}]
    /\ UNCHANGED <<live, rooms, presence, joined, join, seen>>

\* The process restarts: what is in memory is lost, every socket is closed.
Restart ==
    /\ link' = [s \in Sockets |-> IF link[s] = "open" THEN "closed" ELSE link[s]]
    /\ auth' = [s \in Sockets |-> IF link[s] = "new" THEN "none" ELSE "refused"]
    /\ rooms' = [c \in Conversations |-> {}]
    /\ presence' = [c \in Conversations |-> [a \in Actors |-> {}]]
    /\ joined' = [s \in Sockets |-> {}]
    /\ join' = [s \in Sockets |-> [c \in Conversations |-> "none"]]
    /\ UNCHANGED <<seen, people>>

SocketStep(s) ==
    \/ Connect(s) \/ Authenticate(s) \/ Reject(s) \/ Disconnect(s)
    \/ \E c \in Conversations :
          \/ JoinAsk(s, c) \/ JoinAdmin(s, c) \/ JoinQuery(s, c)
          \/ JoinAllowed(s, c) \/ JoinForbidden(s, c) \/ JoinEnter(s, c)
          \/ Leave(s, c)

Next ==
    \/ \E s \in Sockets : SocketStep(s)
    \/ \E c \in Conversations, a \in Actors : ParticipantAdded(c, a) \/ ParticipantLeft(c, a)
    \/ Restart

Spec == Init /\ [][Next]_vars

-----------------------------------------------------------------------------
(* Properties *)

\* The three views of what a connected socket has joined agree: the Socket.io
\* room, its own list of conversations (used to clean up and to relay typing)
\* and the presence map, whatever joins and leaves are in progress.
RoomsAgree ==
    \A s \in Sockets, c \in Conversations :
        /\ s \in rooms[c] => link[s] = "open"
        /\ link[s] = "open" => /\ s \in rooms[c] <=> c \in joined[s]
                               /\ s \in rooms[c] <=> s \in presence[c][ActorOf[s]]

\* Every socket in a room was told exactly who is online in it now: no join,
\* leave or disconnection goes unannounced, none is announced to the wrong room.
EveryoneSeesWhoIsOnline ==
    \A c \in Conversations : \A s \in rooms[c] : seen[s][c] = Online(c)

\* Who receives the events of a conversation is an admin or takes, or has taken,
\* part in it: a join in progress cannot outrun the check.
OnlyParticipantsListen ==
    \A c \in Conversations : \A s \in rooms[c] :
        ActorOf[s] \in Admins \cup members[c] \cup former[c]

\* A disconnection leaves no trace of the socket in the presence of any room.
PresenceClearedOnDisconnect ==
    [][\A s \in Sockets : link[s] = "open" /\ link'[s] = "closed" =>
         \A c \in Conversations, a \in Actors : s \notin presence'[c][a]]_vars

-----------------------------------------------------------------------------
(* What a comment says, and the code does not do *)

\* The presence map: the socket ids connected, for each actor (its comment).
PresenceIsConnected ==
    \A c \in Conversations, a \in Actors : \A s \in presence[c][a] : link[s] = "open"
=============================================================================
