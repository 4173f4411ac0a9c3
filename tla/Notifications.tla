--------------------------- MODULE Notifications ---------------------------
(***************************************************************************)
(* Notifications to one user and to all (notifications/): creation with    *)
(* its deduplication and its push, the reader's list and count, reading    *)
(* and removing, and the nightly purge.                                    *)
(*                                                                         *)
(* A call is a request or the cron; its statements interleave with those   *)
(* of the others.  Times are ticks; the identifier of a row is never used  *)
(* again, its deduplication key is once the row is gone.  What a count     *)
(* could have found while it ran is kept beside the calls, by Watch.       *)
(***************************************************************************)
EXTENDS Naturals, FiniteSets

CONSTANTS
    Users, Keys, Ids, Calls,
    Everyone,      \* the recipient of a broadcast, userId null
    Retention,     \* ticks a notification that was read is kept
    MaxClock,      \* bound on the time
    NoNotice, Idle, Never

ASSUME NotificationsAssumption == Retention \in Nat /\ MaxClock \in Nat

VARIABLES
    clock,
    notice,        \* notifications
    stateRead,     \* notification_states with a read_at
    dismissed,     \* notification_states with a dismissed_at
    used,          \* identifiers given out
    call,
    seen           \* history: what each count could have found since it began

notificationsVars == <<clock, notice, stateRead, dismissed, used, call, seen>>

Times == 0 .. MaxClock
Notice == [key : Keys, to : Users \cup {Everyone}, readAt : Times \cup {Never},
        expiresAt : Times \cup {Never}]
Call == [op : {"push", "read", "remove", "markAll", "readAll"}, user : Users \cup {Everyone},
         ids : SUBSET Ids]
        \cup [op : {"expired", "retained"}, since : Times]
        \cup [op : {"count", "counted"}, user : Users, ids : SUBSET Ids, since : Times]
Seen == [was : SUBSET Ids, still : SUBSET Ids]
Nothing == [was |-> {}, still |-> {}]

\* NULL is no user, no time and no row.
ASSUME NullsAssumption ==
    Everyone \notin Users /\ Never \notin Times /\ NoNotice \notin Notice /\ Idle \notin Call

NotificationsTypeOK ==
    /\ clock \in Times
    /\ notice \in [Ids -> Notice \cup {NoNotice}]
    /\ stateRead \cup dismissed \subseteq {ui \in Users \X Ids : notice[ui[2]] # NoNotice}
    /\ used \subseteq Ids
    /\ call \in [Calls -> Call \cup {Idle}]
    /\ seen \in [Calls -> Seen]

NotificationsInit ==
    /\ clock = 0
    /\ notice = [i \in Ids |-> NoNotice]
    /\ stateRead = {} /\ dismissed = {} /\ used = {}
    /\ call = [c \in Calls |-> Idle]
    /\ seen = [c \in Calls |-> Nothing]

Present == {i \in Ids : notice[i] # NoNotice}
Past(t) == t # Never /\ t < clock
Expired(i) == notice[i].expiresAt # Never /\ notice[i].expiresAt <= clock
Runs(c, op) == call[c] # Idle /\ call[c].op = op
Ends(c) == call' = [call EXCEPT ![c] = Idle]
Turns(c, op, u, ids) == call' = [call EXCEPT ![c] = [op |-> op, user |-> u, ids |-> ids]]

\* Mutant: the states outlive their row.
DeleteAlone(ids) ==
    /\ notice' = [i \in Ids |-> IF i \in ids THEN NoNotice ELSE notice[i]]
    /\ UNCHANGED <<stateRead, dismissed>>

\* The states of a row go with it, ON DELETE CASCADE.
Delete(ids) ==
    /\ notice' = [i \in Ids |-> IF i \in ids THEN NoNotice ELSE notice[i]]
    /\ stateRead' = {ui \in stateRead : ui[2] \notin ids}
    /\ dismissed' = {ui \in dismissed : ui[2] \notin ids}

-----------------------------------------------------------------------------
(* Creation *)

\* notify and persist: INSERT IGNORE, and nothing more for a duplicate.
Notify(c, k, to, expiry) ==
    /\ call[c] = Idle
    /\ \A i \in Present : notice[i].key # k
    /\ \E i \in Ids \ used :
          /\ notice' = [notice EXCEPT ![i] = [key |-> k, to |-> to, readAt |-> Never,
                                        expiresAt |-> expiry]]
          /\ used' = used \cup {i}
          /\ Turns(c, "push", to, {i})
    /\ UNCHANGED <<clock, stateRead, dismissed>>

\* The channels of the recipient, whose failures are swallowed; what they send is
\* not kept.
Push(c) ==
    /\ Runs(c, "push") /\ Ends(c)
    /\ UNCHANGED <<clock, notice, stateRead, dismissed, used>>

-----------------------------------------------------------------------------
(* What a user sees *)

Visible(u, i) == notice[i].to = u \/ (notice[i].to = Everyone /\ <<u, i>> \notin dismissed)

IsRead(u, i) == IF notice[i].to = Everyone THEN <<u, i>> \in stateRead ELSE notice[i].readAt # Never

\* findForUser
Listed(u) == {i \in Present : Visible(u, i) /\ ~Expired(i)}

Unread(u) == {i \in Present : Visible(u, i) /\ ~IsRead(u, i)}

\* getUnreadCount takes the time and counts the notifications to the user, expired
\* or not ...
CountTargeted(c, u) ==
    /\ call[c] = Idle
    /\ call' = [call EXCEPT ![c] = [op |-> "count", user |-> u, since |-> clock,
                    ids |-> {i \in Present : notice[i].to = u /\ notice[i].readAt = Never}]]
    /\ UNCHANGED <<clock, notice, stateRead, dismissed, used>>

\* Mutant: what was dismissed is counted.
DismissedBroadcastsToo(c) ==
    {i \in Present : /\ notice[i].to = Everyone
                     /\ <<call[c].user, i>> \notin stateRead
                     /\ notice[i].expiresAt # Never => notice[i].expiresAt > call[c].since}

UnreadBroadcasts(c) ==
    {i \in Present : /\ notice[i].to = Everyone
                     /\ <<call[c].user, i>> \notin stateRead \cup dismissed
                     /\ notice[i].expiresAt # Never => notice[i].expiresAt > call[c].since}

\* ... then, in a second query, the broadcasts that had not expired at that time.
CountBroadcasts(c) ==
    /\ Runs(c, "count")
    /\ call' = [call EXCEPT ![c] = [op |-> "counted", user |-> @.user, since |-> @.since,
                                    ids |-> @.ids \cup UnreadBroadcasts(c)]]
    /\ UNCHANGED <<clock, notice, stateRead, dismissed, used>>

CountAnswers(c) ==
    /\ Runs(c, "counted") /\ Ends(c)
    /\ UNCHANGED <<clock, notice, stateRead, dismissed, used>>

-----------------------------------------------------------------------------
(* Reading and removing *)

\* markRead and removeOrDismiss look the row up, and end for one of another user.
Find(c, op, u, i) ==
    /\ call[c] = Idle
    /\ i \in Present /\ notice[i].to \in {u, Everyone}
    /\ Turns(c, op, u, {i})
    /\ UNCHANGED <<clock, notice, stateRead, dismissed, used>>

\* The upsert leaves the columns it does not name, and is refused by the foreign
\* key when the row is gone.
UpsertRead(u, i) ==
    /\ stateRead' = IF i \in Present THEN stateRead \cup {<<u, i>>} ELSE stateRead
    /\ UNCHANGED dismissed

ReadOne(c, i) ==
    /\ Runs(c, "read") /\ i \in call[c].ids /\ Ends(c)
    /\ IF i \in Present /\ notice[i].to # Everyone
       THEN notice' = [notice EXCEPT ![i].readAt = clock] /\ UNCHANGED <<stateRead, dismissed>>
       ELSE UpsertRead(call[c].user, i) /\ UNCHANGED notice
    /\ UNCHANGED <<clock, used>>

\* removeOrDismiss: a DELETE, or a dismissal for one reader of a broadcast.
Remove(c, i) ==
    /\ Runs(c, "remove") /\ i \in call[c].ids /\ Ends(c)
    /\ IF i \notin Present THEN UNCHANGED <<notice, stateRead, dismissed>>
       ELSE IF notice[i].to # Everyone THEN Delete({i})
       ELSE dismissed' = dismissed \cup {<<call[c].user, i>>} /\ UNCHANGED <<notice, stateRead>>
    /\ UNCHANGED <<clock, used>>

\* markAllRead: one UPDATE ...
ReadAll(c, u) ==
    /\ call[c] = Idle
    /\ notice' = [i \in Ids |-> IF i \in Present /\ notice[i].to = u /\ notice[i].readAt = Never
                             THEN [notice[i] EXCEPT !.readAt = clock] ELSE notice[i]]
    /\ Turns(c, "markAll", u, {})
    /\ UNCHANGED <<clock, stateRead, dismissed, used>>

\* ... then the broadcasts are looked up, expired or not ...
ReadAllFinds(c) ==
    /\ Runs(c, "markAll")
    /\ Turns(c, "readAll", call[c].user, {i \in Present : notice[i].to = Everyone})
    /\ UNCHANGED <<clock, notice, stateRead, dismissed, used>>

\* ... and each gets its upsert.
ReadAllOne(c, i) ==
    /\ Runs(c, "readAll") /\ i \in call[c].ids
    /\ call' = [call EXCEPT ![c].ids = @ \ {i}]
    /\ UpsertRead(call[c].user, i)
    /\ UNCHANGED <<clock, notice, used>>

ReadAllEnds(c) ==
    /\ Runs(c, "readAll") /\ call[c].ids = {} /\ Ends(c)
    /\ UNCHANGED <<clock, notice, stateRead, dismissed, used>>

-----------------------------------------------------------------------------
(* The purge *)

PurgeStarts(c) ==
    /\ call[c] = Idle
    /\ call' = [call EXCEPT ![c] = [op |-> "expired", since |-> clock]]
    /\ UNCHANGED <<clock, notice, stateRead, dismissed, used>>

\* Mutant: what was read goes at once.
PurgeableAtOnce(c) ==
    {i \in Present : IF call[c].op = "expired"
                     THEN notice[i].expiresAt # Never /\ notice[i].expiresAt < call[c].since
                     ELSE notice[i].readAt # Never /\ notice[i].readAt <= call[c].since}

Purgeable(c) ==
    {i \in Present : IF call[c].op = "expired"
                     THEN notice[i].expiresAt # Never /\ notice[i].expiresAt < call[c].since
                     ELSE notice[i].readAt # Never /\ notice[i].readAt + Retention < call[c].since}

\* deleteInBatches: DELETE ... LIMIT, here of one row, until nothing is left.
PurgeBatch(c) ==
    /\ \/ Runs(c, "expired") \/ Runs(c, "retained")
    /\ IF Purgeable(c) # {}
       THEN \E i \in Purgeable(c) : Delete({i}) /\ UNCHANGED call
       ELSE /\ UNCHANGED <<notice, stateRead, dismissed>>
            /\ IF Runs(c, "expired") THEN call' = [call EXCEPT ![c].op = "retained"] ELSE Ends(c)
    /\ UNCHANGED <<clock, used>>

Tick ==
    /\ clock < MaxClock
    /\ clock' = clock + 1
    /\ UNCHANGED <<notice, stateRead, dismissed, used, call>>

NotificationsSteps ==
    \/ \E c \in Calls :
          \/ \E k \in Keys, to \in Users \cup {Everyone}, t \in {Never, clock + 1} :
                (t \in Times \cup {Never}) /\ Notify(c, k, to, t)
          \/ \E u \in Users, i \in Ids : Find(c, "read", u, i) \/ Find(c, "remove", u, i)
          \/ \E u \in Users : ReadAll(c, u) \/ CountTargeted(c, u)
          \/ \E i \in Ids : ReadOne(c, i) \/ Remove(c, i) \/ ReadAllOne(c, i)
          \/ Push(c) \/ ReadAllFinds(c) \/ ReadAllEnds(c) \/ PurgeStarts(c) \/ PurgeBatch(c)
          \/ CountBroadcasts(c) \/ CountAnswers(c)
    \/ Tick

Counts(c) == Runs(c, "count") \/ Runs(c, "counted")
UnreadFor(c) == Unread(call[c].user)
ShownTo(c) == UnreadFor(c) \cap Listed(call[c].user)

\* A count has seen what was unread at some time since it began, and what the list
\* has shown unread all that time.
Watch ==
    seen' = [c \in Calls |->
        IF ~Counts(c)' THEN Nothing
        ELSE IF ~Counts(c) THEN [was |-> UnreadFor(c)', still |-> ShownTo(c)']
        ELSE [was |-> seen[c].was \cup UnreadFor(c)', still |-> seen[c].still \cap ShownTo(c)']]

NotificationsNext == NotificationsSteps /\ Watch

NotificationsSpec == NotificationsInit /\ [][NotificationsNext]_notificationsVars

-----------------------------------------------------------------------------
(* Properties *)

\* A badge is of its time, though its two queries are not of one instant: while
\* reading, dismissing, removing and purging go on between them, it counts nothing
\* that the user had read, dismissed or lost before the count began, and misses
\* nothing that the list has shown unread ever since.
CountIsOfItsTime ==
    \A c \in Calls : Runs(c, "counted") =>
        call[c].ids \subseteq seen[c].was /\ seen[c].still \subseteq call[c].ids

\* Nobody loses a notification they could still read: it goes by its recipient's
\* own hand, past its expiry, or once read and kept for the retention; a broadcast
\* by no user's hand.
OnlyTheDoneGo ==
    [][\A i \in Present : notice'[i] = NoNotice =>
          \/ Past(notice[i].expiresAt)
          \/ notice[i].readAt # Never /\ notice[i].readAt + Retention < clock
          \/ \E c \in Calls : /\ Runs(c, "remove") /\ i \in call[c].ids
                              /\ call[c].user = notice[i].to]_notificationsVars
=============================================================================
