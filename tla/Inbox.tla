-------------------------------- MODULE Inbox --------------------------------
(***************************************************************************)
(* Opening a conversation by its subject, the seats that come with it, and *)
(* what is unread in it (ChatService.createOrOpen, openGuestConversation,  *)
(* markRead, getUnreadCount, deleteMessage).  Conversation models what     *)
(* happens inside one conversation.                                        *)
(*                                                                         *)
(* Nothing is transactional except a send and a deletion.  A thread is     *)
(* named by the call that inserted it, and so is a seat (a row of          *)
(* chat_participants), for an actor may get several.  Time is in           *)
(* half-seconds: created_at keeps fractions, last_read_at rounds them.     *)
(* The messages of the assistant and of the system have no sender and are  *)
(* not in Messages: the comparison with NULL leaves them out of the counts *)
(* and of the read marks.                                                  *)
(***************************************************************************)
EXTENDS Integers, FiniteSets

CONSTANTS
    Opens,        \* calls of createOrOpen and openGuestConversation
    Readings,     \* calls of markRead
    Messages,
    Users, Guests,
    MaxClock,
    None

ASSUME InboxAssumption == MaxClock \in Nat /\ Users \cap Guests = {}

Actors == Users \cup Guests
\* Nobody else's subject is a widget; "matter" stands for any other subject.
Subjects == ({"bot-widget"} \X Users) \cup ({"guest-widget"} \X Guests) \cup {<<"matter", None>>}

VARIABLES
    clock,
    chat,      \* subject of the thread each call inserted, and whether it was greeted
    seat,        \* rows of participants: a function on the keys that exist
    open,        \* what each call asks, and what it answers
    stand,       \* where it stands
    message,     \* rows of messages, not committed at first
    reading,     \* calls of markRead that have found their row
    deleting     \* messages their sender is deleting, as they were read

inboxVars == <<clock, chat, seat, open, stand, message, reading, deleting>>
openVars == <<chat, open, stand>>
readVars == <<message, reading, deleting>>

\* Thread, actor, the call that inserted the row, and as what: an initiator who is
\* also in the list of the DTO gets two rows.
Keys == Opens \X Actors \X Opens \X {"owner", "listed"}
Times == 0 .. MaxClock
Thread == [subject : Subjects \cup {None}, greeted : BOOLEAN]
Open == [actor : Actors, subject : Subjects \cup {None}, guest : BOOLEAN, with : SUBSET Users,
         late : BOOLEAN, found : Opens \cup {None}]
Seat == [active : BOOLEAN, read : Int, looked : Int]    \* -1: NULL
Message == [thread : Opens, from : Actors, at : Times, committed : BOOLEAN, read : BOOLEAN,
            deleted : BOOLEAN]
Reading == [key : Keys, at : Times, step : {"cursor", "stamp", "done"}]

\* NULL is none of the things it stands in for.
ASSUME NothingAssumption ==
    None \notin Opens \cup Subjects \cup Thread \cup Open \cup Message \cup Reading

InboxTypeOK ==
    /\ clock \in Times
    /\ chat \in [Opens -> Thread \cup {None}]
    /\ DOMAIN seat \subseteq Keys /\ \A k \in DOMAIN seat : seat[k] \in Seat
    /\ open \in [Opens -> Open \cup {None}]
    /\ stand \in [Opens -> {"idle", "find", "ensure", "insert", "seat", "others", "greet", "done",
                            "refused", "lost"}]
    /\ message \in [Messages -> Message \cup {None}]
    /\ reading \in [Readings -> Reading \cup {None}]
    /\ deleting \in [Messages -> Message \cup {None}]

InboxInit ==
    /\ clock = 0
    /\ chat = [c \in Opens |-> None]
    /\ seat = [k \in {} |-> None]
    /\ open = [c \in Opens |-> None]
    /\ stand = [c \in Opens |-> "idle"]
    /\ message = [m \in Messages |-> None]
    /\ reading = [r \in Readings |-> None]
    /\ deleting = [m \in Messages |-> None]

OpenGoto(c, s) == stand' = [stand EXCEPT ![c] = s]

\* Threads about a subject; without a subject there is nothing to look for.
About(s) == {t \in Opens : chat[t] # None /\ s # None /\ chat[t].subject = s}
SeatsOf(t, a) == {k \in DOMAIN seat : k[1] = t /\ k[2] = a}
ActiveSeats(t, a) == {k \in SeatsOf(t, a) : seat[k].active}

NewSeat == [active |-> TRUE, read |-> -1, looked |-> -1]
WithSeats(keys) ==
    [k \in DOMAIN seat \cup keys |-> IF k \in DOMAIN seat THEN seat[k] ELSE NewSeat]

-----------------------------------------------------------------------------
(* createOrOpen, openGuestConversation *)

\* The thread of the assistant is opened by its user only, who takes nobody along.
Begin(c, a, s, others) ==
    /\ stand[c] = "idle"
    /\ s # None /\ s[1] = "bot-widget" => s[2] = a /\ others = {}
    /\ open' = [open EXCEPT ![c] = [actor |-> a, subject |-> s, guest |-> FALSE, with |-> others,
                                    late |-> About(s) # {}, found |-> None]]
    /\ OpenGoto(c, IF s = None THEN "insert" ELSE "find")
    /\ UNCHANGED <<clock, chat, seat, readVars>>

BeginGuest(c, g) ==
    /\ stand[c] = "idle"
    /\ open' = [open EXCEPT ![c] = [actor |-> g, subject |-> <<"guest-widget", g>>, guest |-> TRUE,
                                    with |-> {}, late |-> About(<<"guest-widget", g>>) # {},
                                    found |-> None]]
    /\ OpenGoto(c, "find")
    /\ UNCHANGED <<clock, chat, seat, readVars>>

\* Mutant: the seat is ensured in a thread that was not looked up.
FindExistingUnkept(c) ==
    /\ stand[c] = "find"
    /\ About(open[c].subject) # {}
    /\ OpenGoto(c, IF open[c].guest THEN "done" ELSE "ensure")
    /\ UNCHANGED <<clock, chat, seat, open, readVars>>

\* findOne: any of the threads, if there are several; a guest gets it as it is.
FindExisting(c) ==
    /\ stand[c] = "find"
    /\ \E t \in About(open[c].subject) : open' = [open EXCEPT ![c].found = t]
    /\ OpenGoto(c, IF open[c].guest THEN "done" ELSE "ensure")
    /\ UNCHANGED <<clock, chat, seat, readVars>>

FindNone(c) ==
    /\ stand[c] = "find"
    /\ About(open[c].subject) = {}
    /\ OpenGoto(c, "insert")
    /\ UNCHANGED <<clock, chat, seat, open, readVars>>

\* Mutant: a thread that exists is returned without a seat in it.
EnsureNothing(c) ==
    /\ stand[c] = "ensure"
    /\ OpenGoto(c, "done")
    /\ UNCHANGED <<clock, chat, seat, open, readVars>>

\* ensureParticipant: its find and its insert, between which another may insert too.
Ensure(c) ==
    /\ stand[c] = "ensure"
    /\ OpenGoto(c, IF ActiveSeats(open[c].found, open[c].actor) # {} THEN "done" ELSE "seat")
    /\ UNCHANGED <<clock, chat, seat, open, readVars>>

\* The subject has an index, not a unique one.
Insert(c) ==
    /\ stand[c] = "insert"
    /\ chat' = [chat EXCEPT ![c] = [subject |-> open[c].subject, greeted |-> FALSE]]
    /\ open' = [open EXCEPT ![c].found = c]
    /\ OpenGoto(c, "seat")
    /\ UNCHANGED <<clock, seat, readVars>>

SaveSeat(c) ==
    /\ stand[c] = "seat"
    /\ seat' = WithSeats({<<open[c].found, open[c].actor, c, "owner">>})
    /\ OpenGoto(c, IF open[c].found # c THEN "done"
               ELSE IF open[c].with # {} THEN "others"
               ELSE IF open[c].guest \/ open[c].subject \in {"bot-widget"} \X Users THEN "greet"
               ELSE "done")
    /\ UNCHANGED <<clock, chat, open, readVars>>

\* Those of the DTO, one insert each, until one of them is unknown.
SaveOthers(c) ==
    /\ stand[c] = "others"
    /\ \E known \in SUBSET open[c].with :
          /\ seat' = WithSeats({<<c, u, c, "listed">> : u \in known})
          /\ OpenGoto(c, IF known = open[c].with THEN "done" ELSE "refused")
    /\ UNCHANGED <<clock, chat, open, readVars>>

Greet(c) ==
    /\ stand[c] = "greet"
    /\ chat' = [chat EXCEPT ![c].greeted = TRUE]
    /\ OpenGoto(c, "done")
    /\ UNCHANGED <<clock, seat, open, readVars>>

\* The process or the database goes down between two statements.
Lost(c) ==
    /\ stand[c] \notin {"idle", "done", "refused", "lost"}
    /\ OpenGoto(c, "lost")
    /\ UNCHANGED <<clock, chat, seat, open, readVars>>

\* handoff closes the row of the actor it relieves.
Leave(k) ==
    /\ k \in DOMAIN seat
    /\ seat[k].active
    /\ seat' = [seat EXCEPT ![k].active = FALSE]
    /\ UNCHANGED <<clock, openVars, readVars>>

-----------------------------------------------------------------------------
(* Messages of persons *)

\* sendMessage: created_at is the time of the insert, in a transaction.
Send(m, t, a) ==
    /\ message[m] = None
    /\ chat[t] # None
    /\ a \in Guests => ActiveSeats(t, a) # {}
    /\ message' = [message EXCEPT ![m] = [thread |-> t, from |-> a, at |-> clock, read |-> FALSE,
                                          committed |-> FALSE, deleted |-> FALSE]]
    /\ UNCHANGED <<clock, seat, openVars, reading, deleting>>

Commit(m) ==
    /\ message[m] # None
    /\ ~message[m].committed
    /\ message' = [message EXCEPT ![m].committed = TRUE]
    /\ UNCHANGED <<clock, seat, openVars, reading, deleting>>

Visible(t) == {m \in Messages : message[m] # None /\ message[m].committed /\ message[m].thread = t}

\* deleteMessage, for users only: the message is read first.
DeleteFind(m) ==
    /\ message[m] # None
    /\ message[m].from \in Users
    /\ message[m].committed
    /\ ~message[m].deleted
    /\ deleting[m] = None
    /\ deleting' = [deleting EXCEPT ![m] = message[m]]
    /\ UNCHANGED <<clock, seat, openVars, message, reading>>

\* save() writes the columns that differ from the row, readAt as it was read among
\* them, and none that is undefined: the body stays.
DeleteSave(m) ==
    /\ deleting[m] # None
    /\ message' = [message EXCEPT ![m] = [deleting[m] EXCEPT !.deleted = TRUE]]
    /\ deleting' = [deleting EXCEPT ![m] = None]
    /\ UNCHANGED <<clock, seat, openVars, reading>>

-----------------------------------------------------------------------------
(* markRead, getUnreadCount *)

\* findOne: any active row of the actor; then the time is taken.
ReadFind(r, t, a) ==
    /\ reading[r] = None
    /\ \E k \in ActiveSeats(t, a) :
          reading' = [reading EXCEPT ![r] = [key |-> k, at |-> clock, step |-> "cursor"]]
    /\ UNCHANGED <<clock, seat, openVars, message, deleting>>

\* A DATETIME column rounds to the second.
Rounded(time) == 2 * ((time + 1) \div 2)

\* Mutant: the cursor is set to the time of the update.
ReadCursorLate(r) ==
    /\ reading[r] # None
    /\ reading[r].step = "cursor"
    /\ seat' = [seat EXCEPT ![reading[r].key].read = Rounded(clock),
                            ![reading[r].key].looked = reading[r].at]
    /\ reading' = [reading EXCEPT ![r].step = "stamp"]
    /\ UNCHANGED <<clock, openVars, message, deleting>>

ReadCursor(r) ==
    /\ reading[r] # None
    /\ reading[r].step = "cursor"
    /\ seat' = [seat EXCEPT ![reading[r].key].read = Rounded(reading[r].at),
                            ![reading[r].key].looked = reading[r].at]
    /\ reading' = [reading EXCEPT ![r].step = "stamp"]
    /\ UNCHANGED <<clock, openVars, message, deleting>>

ReadStamp(r) ==
    /\ reading[r] # None
    /\ reading[r].step = "stamp"
    /\ message' = [m \in Messages |->
          IF m \in Visible(reading[r].key[1]) /\ message[m].from # reading[r].key[2]
          THEN [message[m] EXCEPT !.read = TRUE] ELSE message[m]]
    /\ reading' = [reading EXCEPT ![r].step = "done"]
    /\ UNCHANGED <<clock, seat, openVars, deleting>>

\* What getUnreadCount counts for a row.
Unread(k) ==
    {m \in Visible(k[1]) : message[m].from # k[2] /\ message[m].at > seat[k].read}

Tick ==
    /\ clock < MaxClock
    /\ clock' = clock + 1
    /\ UNCHANGED <<seat, openVars, readVars>>

OpenStep(c) ==
    \/ \E a \in Users, s \in Subjects \cup {None}, others \in SUBSET Users : Begin(c, a, s, others)
    \/ \E g \in Guests : BeginGuest(c, g)
    \/ FindExisting(c) \/ FindNone(c) \/ Ensure(c)
    \/ Insert(c) \/ SaveSeat(c) \/ SaveOthers(c) \/ Greet(c) \/ Lost(c)

MessageStep(m) ==
    \/ \E t \in Opens, a \in Actors : Send(m, t, a)
    \/ Commit(m) \/ DeleteFind(m) \/ DeleteSave(m)

ReadStep(r) ==
    \/ \E t \in Opens, u \in Users : ReadFind(r, t, u)
    \/ ReadCursor(r) \/ ReadStamp(r)

InboxNext ==
    \/ \E c \in Opens : OpenStep(c)
    \/ \E k \in DOMAIN seat : Leave(k)
    \/ \E m \in Messages : MessageStep(m)
    \/ \E r \in Readings : ReadStep(r)
    \/ Tick

InboxSpec == InboxInit /\ [][InboxNext]_inboxVars

-----------------------------------------------------------------------------
(* Properties *)

\* createOrOpen: whoever it answers has a seat in the thread answered, even if the
\* call that inserted the thread stopped before giving one; and a call that begins
\* when the subject has a thread answers such a thread, never a second one.
OpenedIsReused ==
    \A c \in Opens : stand[c] = "done" /\ ~open[c].guest =>
        /\ SeatsOf(open[c].found, open[c].actor) # {}
        /\ open[c].late => open[c].found # c

\* getUnreadCount: a message leaves the unread ones of a participant only when that
\* participant marks the thread read, and only if it was created no later than half
\* a second after: no send, commit, deletion or reading by another clears it.
OnlyReadingClears ==
    [][\A k \in DOMAIN seat : \A m \in Unread(k) :
          \/ m \in Unread(k)'
          \/ \E r \in Readings :
                /\ reading[r] # None /\ reading[r].key = k
                /\ reading[r].step = "cursor" /\ reading'[r].step = "stamp"
                /\ message[m].at <= reading[r].at + 1]_inboxVars
=============================================================================
