------------------------------ MODULE Session ------------------------------
(***************************************************************************)
(* Accounts, their sessions and the tokens signed for them (AuthService,   *)
(* SessionService, the status and role part of UserService), over the      *)
(* guards and routes of Access.                                            *)
(*                                                                         *)
(* An access token carries a copy of the status and roles of its account   *)
(* and is never looked up: what is changed in the database is felt when    *)
(* the token expires.  A refresh token is known by the hash in the session *)
(* row of its device, which every refresh replaces.                        *)
(*                                                                         *)
(* A call signs at most one pair of tokens, named after it.  An action is  *)
(* one statement with the code up to the next.  Passwords, PINs and codes  *)
(* are data here (Otp models the codes): a call whose secret is wrong never*)
(* starts.  Bounds: Calls, MaxClock; a call outlives at most one tick.     *)
(***************************************************************************)
EXTENDS Access, FiniteSets

CONSTANTS
    Users, Devices, Calls,
    UnknownDevice,   \* what confirmEmail's empty audit is parsed to
    AccessTtl,       \* lifetime of an access token of a user
    StaffTtl,        \* and of an admin, manager or engineer
    JtiTtl,          \* how long the blacklist remembers
    RefreshTtl, MaxClock,
    None

\* The blacklist remembers for the longest life of an access token.
ASSUME SessionAssumption ==
    /\ UnknownDevice \in Devices
    /\ {AccessTtl, StaffTtl, JtiTtl, RefreshTtl, MaxClock} \subseteq Nat
    /\ AccessTtl <= JtiTtl /\ StaffTtl <= JtiTtl

VARIABLES
    account,   \* of each user: status, roles, since when
    session,   \* of each user and device: whose refresh token, until when
    pair,      \* the tokens each call has signed
    revoked,   \* until when the jti of a pair is blacklisted
    call,      \* what each call does, and what it has read
    stand,     \* where each call stands
    clock

vars == <<account, session, pair, revoked, call, stand, clock>>

Staff == {"admin", "manager", "engineer"}
RoleSets == {{"user"}, {"admin"}}
Places == Users \X Devices

Account == [status : UserStatus \cup {"none"}, roles : RoleSets, since : Nat]
Rights == [status : UserStatus, roles : RoleSets]
Pair == [user : Users, device : Devices, rights : Rights, at : Nat]
Call == [kind : {"login", "confirm", "refresh", "logout", "status", "delete"}, user : Users,
         device : Devices, token : Calls \cup {None}, rights : Rights \cup {None}, began : Nat]

\* NULL is no row.
ASSUME NoneAssumption == None \notin Calls \cup Rights \cup Pair \cup Call

TypeOK ==
    /\ account \in [Users -> Account]
    /\ session \in [Places -> [of : Calls, expires : Nat] \cup {None}]
    /\ pair \in [Calls -> Pair \cup {None}]
    /\ revoked \in [Calls -> Nat]
    /\ call \in [Calls -> Call \cup {None}]
    /\ stand \in [Calls -> {"idle", "confirm", "load", "save", "rotate", "clean", "cleanAll",
                            "drop", "done", "refused"}]
    /\ clock \in 0 .. MaxClock

Init ==
    /\ account \in [Users -> {[status |-> s, roles |-> {"user"}, since |-> 0] :
                                 s \in {"none", "active"}}]
    /\ session = [x \in Places |-> None]
    /\ pair = [c \in Calls |-> None]
    /\ revoked = [c \in Calls |-> 0]
    /\ call = [c \in Calls |-> None]
    /\ stand = [c \in Calls |-> "idle"]
    /\ clock = 0

-----------------------------------------------------------------------------
(* Tokens *)

Exists(u) == account[u].status # "none"
SetAccount(u, status, roles) ==
    account' = [account EXCEPT ![u] = [status |-> status, roles |-> roles, since |-> clock]]

RightsOf(u) == [status |-> account[u].status, roles |-> account[u].roles]
NewRights(status) == [status |-> status, roles |-> {"user"}]

Ttl(roles) == IF roles \cap Staff # {} THEN StaffTtl ELSE AccessTtl

\* What the middleware reads from the access token of a pair, and the blacklist says of it.
Credential(p) ==
    [present |-> TRUE, status |-> pair[p].rights.status, roles |-> pair[p].rights.roles,
     expired |-> clock >= pair[p].at + Ttl(pair[p].rights.roles), revoked |-> clock < revoked[p]]

\* The caller holds the access token of the pair p; its API key is that of the mobile client.
Called(p, policy) == pair[p] # None /\ Granted(policy, "mobile", Credential(p))

Begin(c, kind, u, d, token, rights, next) ==
    /\ stand[c] = "idle"
    /\ call' = [call EXCEPT ![c] = [kind |-> kind, user |-> u, device |-> d, token |-> token,
                                    rights |-> rights, began |-> clock]]
    /\ stand' = [stand EXCEPT ![c] = next]

Goto(c, next) == stand' = [stand EXCEPT ![c] = next]

\* The rights that c read of the account, and a pair signed with them.
Reads(c, next) ==
    /\ call' = [call EXCEPT ![c].rights = RightsOf(call[c].user)]
    /\ Goto(c, next)

Signs(c) ==
    pair' = [pair EXCEPT ![c] = [user |-> call[c].user, device |-> call[c].device,
                                 rights |-> call[c].rights, at |-> clock]]

Row(c) == [of |-> c, expires |-> clock + RefreshTtl]
Of(c) == <<call[c].user, call[c].device>>

-----------------------------------------------------------------------------
(* Opening a session *)

\* register: the account is unverified; the address was free.
Register(c, u, d) ==
    /\ ~Exists(u) /\ account[u].since = 0
    /\ SetAccount(u, "unverified", {"user"})
    /\ Begin(c, "login", u, d, None, NewRights("unverified"), "save")
    /\ UNCHANGED <<session, pair, revoked, clock>>

\* login: the status is read and not looked at.
Login(c, u, d) ==
    /\ Exists(u)
    /\ Begin(c, "login", u, d, None, RightsOf(u), "save")
    /\ UNCHANGED <<account, session, pair, revoked, clock>>

\* loginWithPin: refused when blocked or deleted; the PIN is verified after that.
LoginWithPin(c, u, d) ==
    /\ Exists(u) /\ account[u].status \notin {"blocked", "deleted"}
    /\ Begin(c, "login", u, d, None, RightsOf(u), "save")
    /\ UNCHANGED <<account, session, pair, revoked, clock>>

\* findOrCreateGoogleUser: an account found is taken as it is, a new one is active.
LoginWithGoogle(c, u, d) ==
    /\ Exists(u) \/ account[u].since = 0
    /\ IF Exists(u)
       THEN /\ Begin(c, "login", u, d, None, RightsOf(u), "save")
            /\ UNCHANGED account
       ELSE /\ SetAccount(u, "active", {"user"})
            /\ Begin(c, "login", u, d, None, NewRights("active"), "save")
    /\ UNCHANGED <<session, pair, revoked, clock>>

\* buildAuthResponse: the tokens are signed, then the session of the device is upserted.
SaveSession(c) ==
    /\ stand[c] = "save"
    /\ IF Exists(call[c].user)
       THEN /\ Signs(c)
            /\ session' = [session EXCEPT ![Of(c)] = Row(c)]
            /\ Goto(c, "done")
       ELSE Goto(c, "refused") /\ UNCHANGED <<session, pair>>
    /\ UNCHANGED <<account, revoked, call, clock>>

\* confirmEmail: the code was right; the caller's token may be unverified.
ConfirmEmail(c, p) ==
    /\ Called(p, AllowStatus({"unverified"}))
    /\ Begin(c, "confirm", pair[p].user, UnknownDevice, p, None, "confirm")
    /\ UNCHANGED <<account, session, pair, revoked, clock>>

\* The update has no condition on the status it replaces.
ConfirmWrite(c) ==
    /\ stand[c] = "confirm"
    /\ IF Exists(call[c].user)
       THEN SetAccount(call[c].user, "active", account[call[c].user].roles) /\ Goto(c, "load")
       ELSE Goto(c, "refused") /\ UNCHANGED account
    /\ UNCHANGED <<session, pair, revoked, call, clock>>

ConfirmLoad(c) ==
    /\ stand[c] = "load" /\ call[c].kind = "confirm"
    /\ IF Exists(call[c].user) THEN Reads(c, "save") ELSE Goto(c, "refused") /\ UNCHANGED call
    /\ UNCHANGED <<account, session, pair, revoked, clock>>

-----------------------------------------------------------------------------
(* AuthService.refresh *)

\* findByRefreshToken: the hash in the row is that of the token, and not expired.
RefreshFind(c, p) ==
    /\ pair[p] # None
    /\ LET x == <<pair[p].user, pair[p].device>>
       IN  /\ session[x] # None /\ session[x].of = p /\ clock < session[x].expires
           /\ Begin(c, "refresh", x[1], x[2], p, None, "load")
    /\ UNCHANGED <<account, session, pair, revoked, clock>>

\* Mutant: the new tokens are signed with the rights of the old one.
RefreshLoadKept(c) ==
    /\ stand[c] = "load" /\ call[c].kind = "refresh"
    /\ call' = [call EXCEPT ![c].rights = pair[call[c].token].rights]
    /\ Goto(c, IF Exists(call[c].user) THEN "rotate" ELSE "refused")
    /\ UNCHANGED <<account, session, pair, revoked, clock>>

\* Mutant: the account is not looked for.
RefreshLoadUnchecked(c) ==
    /\ stand[c] = "load" /\ call[c].kind = "refresh"
    /\ Reads(c, "rotate")
    /\ UNCHANGED <<account, session, pair, revoked, clock>>

\* The account is read again: the new tokens carry its rights of now.
RefreshLoad(c) ==
    /\ stand[c] = "load" /\ call[c].kind = "refresh"
    /\ IF Exists(call[c].user) THEN Reads(c, "rotate") ELSE Goto(c, "refused") /\ UNCHANGED call
    /\ UNCHANGED <<account, session, pair, revoked, clock>>

\* Mutant: the rotation inserts the row when it is gone.
RotateUpserts(c) ==
    /\ stand[c] = "rotate"
    /\ Signs(c)
    /\ session' = IF Exists(call[c].user) THEN [session EXCEPT ![Of(c)] = Row(c)] ELSE session
    /\ Goto(c, "done")
    /\ UNCHANGED <<account, revoked, call, clock>>

\* rotateSession updates the row of the device if there is one, whatever its hash is by now.
Rotate(c) ==
    /\ stand[c] = "rotate"
    /\ Signs(c)
    /\ session' = IF session[Of(c)] # None THEN [session EXCEPT ![Of(c)] = Row(c)] ELSE session
    /\ Goto(c, "done")
    /\ UNCHANGED <<account, revoked, call, clock>>

-----------------------------------------------------------------------------
(* Closing sessions *)

\* Mutant: the jti is remembered for the life of a user's token only.
LogoutShort(c, p, all) ==
    /\ Called(p, SignedIn)
    /\ revoked' = [revoked EXCEPT ![p] = clock + AccessTtl]
    /\ Begin(c, "logout", pair[p].user, pair[p].device, p, None,
             IF all THEN "cleanAll" ELSE "clean")
    /\ UNCHANGED <<account, session, pair, clock>>

\* logout and logoutAll: the jti of the caller's token first, then the rows.
Logout(c, p, all) ==
    /\ Called(p, SignedIn)
    /\ revoked' = [revoked EXCEPT ![p] = clock + JtiTtl]
    /\ Begin(c, "logout", pair[p].user, pair[p].device, p, None,
             IF all THEN "cleanAll" ELSE "clean")
    /\ UNCHANGED <<account, session, pair, clock>>

WithoutSessions(gone) == [x \in Places |-> IF x \in gone THEN None ELSE session[x]]

\* deleteSession, deleteAllSessions.
Clean(c) ==
    /\ stand[c] \in {"clean", "cleanAll"}
    /\ session' = WithoutSessions(IF stand[c] = "clean" THEN {Of(c)}
                                  ELSE {call[c].user} \X Devices)
    /\ Goto(c, IF call[c].kind = "delete" THEN "drop" ELSE "done")
    /\ UNCHANGED <<account, pair, revoked, call, clock>>

\* UserService.updateStatus: a status that shuts out is followed by deleteAllSessions.
UpdateStatus(c, u, status) ==
    /\ Exists(u)
    /\ SetAccount(u, status, account[u].roles)
    /\ Begin(c, "status", u, UnknownDevice, None, None,
             IF status \in {"blocked", "deleted"} THEN "cleanAll" ELSE "done")
    /\ UNCHANGED <<session, pair, revoked, clock>>

\* softDeleteMe.
SoftDeleteMe(c, p) ==
    /\ Called(p, SignedIn)
    /\ Exists(pair[p].user)
    /\ SetAccount(pair[p].user, "deleted", account[pair[p].user].roles)
    /\ Begin(c, "status", pair[p].user, UnknownDevice, p, None, "cleanAll")
    /\ UNCHANGED <<session, pair, revoked, clock>>

\* hardDelete: the sessions, then the account, whose rows CASCADE.
HardDelete(c, u) ==
    /\ Exists(u)
    /\ Begin(c, "delete", u, UnknownDevice, None, None, "cleanAll")
    /\ UNCHANGED <<account, session, pair, revoked, clock>>

DropAccount(c) ==
    /\ stand[c] = "drop"
    /\ SetAccount(call[c].user, "none", {"user"})
    /\ session' = WithoutSessions({call[c].user} \X Devices)
    /\ Goto(c, "done")
    /\ UNCHANGED <<pair, revoked, call, clock>>

\* updateRoles.
UpdateRoles(u, roles) ==
    /\ Exists(u) /\ roles # account[u].roles
    /\ SetAccount(u, account[u].status, roles)
    /\ UNCHANGED <<session, pair, revoked, call, stand, clock>>

\* revokeSession and revokeUserSession.
RevokeSession(x) ==
    /\ session[x] # None
    /\ session' = WithoutSessions({x})
    /\ UNCHANGED <<account, pair, revoked, call, stand, clock>>

\* revokeAllUserSessions; and a password reset, whose new password is data.
RevokeAllSessions(u) ==
    /\ \E d \in Devices : session[<<u, d>>] # None
    /\ session' = WithoutSessions({u} \X Devices)
    /\ UNCHANGED <<account, pair, revoked, call, stand, clock>>

\* The cron of every night.
CleanExpiredSessions ==
    /\ \E x \in Places : session[x] # None /\ session[x].expires < clock
    /\ session' = WithoutSessions({x \in Places : session[x] # None /\ session[x].expires < clock})
    /\ UNCHANGED <<account, pair, revoked, call, stand, clock>>

InFlight(c) == stand[c] \notin {"idle", "done", "refused"}

\* A call that began before the last tick ends before the next.
Tick ==
    /\ clock < MaxClock
    /\ \A c \in Calls : InFlight(c) => call[c].began = clock
    /\ clock' = clock + 1
    /\ UNCHANGED <<account, session, pair, revoked, call, stand>>

Opening(c) ==
    \/ \E u \in Users, d \in Devices \ {UnknownDevice} :
          Register(c, u, d) \/ Login(c, u, d) \/ LoginWithPin(c, u, d) \/ LoginWithGoogle(c, u, d)
    \/ \E p \in Calls : ConfirmEmail(c, p) \/ RefreshFind(c, p)
    \/ SaveSession(c) \/ ConfirmWrite(c) \/ ConfirmLoad(c) \/ RefreshLoad(c) \/ Rotate(c)

Closing(c) ==
    \/ \E p \in Calls : SoftDeleteMe(c, p) \/ \E all \in BOOLEAN : Logout(c, p, all)
    \/ \E u \in Users : HardDelete(c, u) \/ \E s \in UserStatus : UpdateStatus(c, u, s)
    \/ Clean(c) \/ DropAccount(c)

Next ==
    \/ \E c \in Calls : Opening(c) \/ Closing(c)
    \/ \E u \in Users : RevokeAllSessions(u) \/ \E roles \in RoleSets : UpdateRoles(u, roles)
    \/ \E x \in Places : RevokeSession(x)
    \/ CleanExpiredSessions
    \/ Tick

Spec == Init /\ [][Next]_vars

-----------------------------------------------------------------------------
(* Properties *)

Policies == {r.policy : r \in AllRoutes}
Reaches(p) == {r \in Policies : ~r.public /\ Called(p, r)}

\* What a token signed now for the account would reach.
Entitled(u) ==
    {r \in Policies : ~r.public /\ Exists(u) /\
        Granted(r, "mobile", [present |-> TRUE, expired |-> FALSE, revoked |-> FALSE,
                              status |-> account[u].status, roles |-> account[u].roles])}

\* Blocking, deleting or demoting an account is felt on every route of every
\* controller once the longest life of an access token has passed (and the tick
\* that a call may take), although no guard reads the database: no refresh, login
\* or confirmation renews the old rights.
RightsCatchUp ==
    \A p \in Calls : pair[p] # None =>
        LET a == account[pair[p].user]
        IN  clock > a.since + Ttl(pair[p].rights.roles) => Reaches(p) \subseteq Entitled(pair[p].user)

LoggedOut == {call[c].token : c \in {c \in Calls : call[c] # None /\ call[c].kind = "logout"}}

\* The access token that logged out reaches nothing any more: it expires before
\* the blacklist forgets it, whoever signed in or was promoted meanwhile.
LoggedOutReachesNothing == \A p \in LoggedOut : Reaches(p) = {}

\* A session that was closed (logout, revocation, blocking, reset, deletion) is
\* opened again only by a login or a confirmation, never by a refresh that had
\* found it before.
RefreshRevivesNothing ==
    [][\A x \in Places : session[x] = None /\ session'[x] # None =>
          call[session'[x].of].kind # "refresh"]_vars

=============================================================================
