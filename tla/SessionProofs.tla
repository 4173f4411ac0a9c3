--------------------------- MODULE SessionProofs ---------------------------
(***************************************************************************)
(* Theorems about Session, for every set of users, devices and calls, any  *)
(* lifetimes of the tokens, and the policies of all the routes of Access.  *)
(***************************************************************************)
EXTENDS Session, TLAPS

\* Where a call of each kind may stand, and what it has read by then.
CallShape ==
    \A c \in Calls :
        /\ stand[c] = "idle" <=> call[c] = None
        /\ stand[c] \in {"save", "rotate"} => call[c].rights \in Rights
        /\ stand[c] = "save" => call[c].kind \in {"login", "confirm"}
        /\ stand[c] = "rotate" => call[c].kind = "refresh"

\* A pair is signed once, by a call that is over then, and not in the future.
SignedOnce == \A p \in Calls : pair[p] # None => stand[p] = "done" /\ pair[p].at <= clock

\* A call outlives at most one tick.
Prompt == \A c \in Calls : InFlight(c) => call[c].began <= clock /\ clock <= call[c].began + 1

\* Rights that a call read are those of the account, unless it changed since the
\* call began; rights in a pair, unless it changed a tick before the signature.
ReadRights ==
    \A c \in Calls : stand[c] \in {"save", "rotate"} =>
        LET u == call[c].user
        IN  call[c].began > account[u].since => Exists(u) /\ call[c].rights = RightsOf(u)

SignedRights ==
    \A p \in Calls : pair[p] # None =>
        LET u == pair[p].user
        IN  pair[p].at > account[u].since + 1 => Exists(u) /\ pair[p].rights = RightsOf(u)

\* The blacklist holds the token that logged out until it has expired.
Blacklisted ==
    \A c \in Calls : call[c] # None /\ call[c].kind = "logout" =>
        /\ call[c].token \in Calls /\ pair[call[c].token] # None
        /\ revoked[call[c].token] >= pair[call[c].token].at + JtiTtl

IInv ==
    TypeOK /\ CallShape /\ SignedOnce /\ Prompt /\ ReadRights /\ SignedRights /\ Blacklisted

USE SessionAssumption, NoneAssumption

LEMMA InitIInv == Init => IInv
<1> SUFFICES ASSUME Init PROVE IInv OBVIOUS
<1>1. TypeOK BY DEF Init, TypeOK, Account, RoleSets, UserStatus, Places
<1>2. CallShape /\ SignedOnce /\ Prompt /\ ReadRights /\ SignedRights /\ Blacklisted
  BY DEF Init, CallShape, SignedOnce, Prompt, InFlight, ReadRights, SignedRights, Blacklisted
<1> QED BY <1>1, <1>2 DEF IInv

-----------------------------------------------------------------------------
(* The guards of Access *)

\* A policy that is not public lets in no token that is expired or revoked.
LEMMA GuardsAskForLife ==
    ASSUME NEW policy, ~policy.public, NEW key, NEW t, Granted(policy, key, t)
    PROVE  t.present /\ ~t.expired /\ ~t.revoked
BY DEF Granted, TokenAccepted

\* Of a living token they read the status and the roles only.
LEMMA GuardsReadRights ==
    ASSUME NEW policy, ~policy.public, NEW key, NEW t, Granted(policy, key, t),
           NEW s, s.present, ~s.expired, ~s.revoked, s.status = t.status, s.roles = t.roles
    PROVE  Granted(policy, key, s)
BY DEF Granted, KeyAccepted, ClientAccepted, TokenAccepted, StatusAccepted, RoleAccepted

-----------------------------------------------------------------------------
(* What the steps have in common *)

\* An account that changes says when.
Dated ==
    /\ account' \in [Users -> Account]
    /\ \A u \in Users : account'[u] # account[u] => account'[u].since = clock

LEMMA AccountKept == ASSUME TypeOK, UNCHANGED account PROVE Dated
BY DEF TypeOK, Dated

LEMMA SetAccountDated ==
    ASSUME TypeOK, NEW u \in Users, NEW status \in UserStatus \cup {"none"}, NEW roles \in RoleSets,
           SetAccount(u, status, roles)
    PROVE  Dated /\ account'[u] = [status |-> status, roles |-> roles, since |-> clock]
<1>1. clock \in Nat BY DEF TypeOK
<1>2. [status |-> status, roles |-> roles, since |-> clock] \in Account BY <1>1 DEF Account
<1> QED BY <1>2 DEF SetAccount, Dated, TypeOK

\* A change of the accounts leaves what was read and what was signed as true as
\* it was.
LEMMA RightsKept ==
    ASSUME IInv, Dated
    PROVE  /\ \A c \in Calls, u \in Users :
                 /\ stand[c] \in {"save", "rotate"} /\ u = call[c].user
                 /\ call[c].began > account'[u].since
                 => Exists(u)' /\ call[c].rights = RightsOf(u)'
           /\ \A p \in Calls, u \in Users :
                 /\ pair[p] # None /\ u = pair[p].user
                 /\ pair[p].at > account'[u].since + 1
                 => Exists(u)' /\ pair[p].rights = RightsOf(u)'
<1>1. TypeOK /\ CallShape /\ SignedOnce /\ Prompt /\ ReadRights /\ SignedRights BY DEF IInv
<1>2. clock \in Nat BY <1>1 DEF TypeOK
<1>3. ASSUME NEW c \in Calls, stand[c] \in {"save", "rotate"}, NEW u \in Users, u = call[c].user,
             call[c].began > account'[u].since
      PROVE  Exists(u)' /\ call[c].rights = RightsOf(u)'
  <2>1. call[c] \in Call /\ u \in Users BY <1>1, <1>3 DEF TypeOK, CallShape, Call
  <2>2. call[c].began \in Nat /\ call[c].began <= clock
    BY <1>1, <1>3, <2>1 DEF Prompt, InFlight, Call
  <2>3. account'[u] = account[u] BY <1>2, <1>3, <2>1, <2>2 DEF Dated
  <2> QED BY <1>1, <1>3, <2>3 DEF ReadRights, Exists, RightsOf
<1>4. ASSUME NEW p \in Calls, pair[p] # None, NEW u \in Users, u = pair[p].user,
             pair[p].at > account'[u].since + 1
      PROVE  Exists(u)' /\ pair[p].rights = RightsOf(u)'
  <2>1. pair[p] \in Pair /\ u \in Users BY <1>1, <1>4 DEF TypeOK, Pair
  <2>2. pair[p].at \in Nat /\ pair[p].at <= clock BY <1>1, <1>4, <2>1 DEF SignedOnce, Pair
  <2>3. account'[u] = account[u] BY <1>2, <1>4, <2>1, <2>2 DEF Dated
  <2> QED BY <1>1, <1>4, <2>3 DEF SignedRights, Exists, RightsOf
<1> QED BY <1>3, <1>4

\* The rows of the sessions are typed whatever is taken away.
LEMMA WithoutTyped ==
    ASSUME TypeOK, NEW gone
    PROVE  WithoutSessions(gone) \in [Places -> [of : Calls, expires : Nat] \cup {None}]
BY DEF TypeOK, WithoutSessions

\* Calls and pairs are about users.
LEMMA OfUsers ==
    ASSUME TypeOK
    PROVE  /\ \A c \in Calls : call[c] # None => call[c].user \in Users
           /\ \A p \in Calls : pair[p] # None => pair[p].user \in Users
BY DEF TypeOK, Call, Pair

-----------------------------------------------------------------------------
(* A call begins *)

LEMMA CallBegins ==
    ASSUME IInv, NEW c \in Calls, NEW kind, NEW u, NEW d, NEW token, NEW rights,
           NEW next \in {"save", "confirm", "load", "clean", "cleanAll", "done"},
           Begin(c, kind, u, d, token, rights, next),
           [kind |-> kind, user |-> u, device |-> d, token |-> token, rights |-> rights,
            began |-> clock] \in Call,
           Dated, UNCHANGED <<session, pair, clock>>,
           revoked' \in [Calls -> Nat],
           \A p \in Calls : pair[p] # None =>
              revoked'[p] >= revoked[p] \/ revoked'[p] >= pair[p].at + JtiTtl,
           next = "save" =>
              /\ kind = "login" /\ rights \in Rights
              /\ clock > account'[u].since => Exists(u)' /\ rights = RightsOf(u)',
           kind = "logout" => /\ token \in Calls /\ pair[token] # None
                              /\ revoked'[token] >= pair[token].at + JtiTtl
    PROVE  IInv'
<1>1. TypeOK /\ CallShape /\ SignedOnce /\ Prompt /\ ReadRights /\ SignedRights /\ Blacklisted
  BY DEF IInv
<1> DEFINE new == [kind |-> kind, user |-> u, device |-> d, token |-> token, rights |-> rights,
                   began |-> clock]
<1>2. /\ stand[c] = "idle" /\ pair[c] = None /\ clock \in Nat
      /\ \A e \in Calls : /\ call'[e] = IF e = c THEN new ELSE call[e]
                          /\ stand'[e] = IF e = c THEN next ELSE stand[e]
  BY <1>1 DEF Begin, TypeOK, SignedOnce
<1>3. TypeOK' BY <1>1 DEF TypeOK, Begin, Dated
<1>4. CallShape' BY <1>1, <1>2 DEF CallShape
<1>5. SignedOnce' BY <1>1, <1>2 DEF SignedOnce
<1>6. Prompt' BY <1>1, <1>2 DEF Prompt, InFlight
<1>7. ReadRights'
  <2> SUFFICES ASSUME NEW e \in Calls, stand'[e] \in {"save", "rotate"}, NEW v, v = call'[e].user,
                      call'[e].began > account'[v].since
               PROVE  Exists(v)' /\ call'[e].rights = RightsOf(v)'
    BY DEF ReadRights
  <2>1. CASE e = c BY <1>2, <2>1
  <2>2. CASE e # c BY <1>1, <1>2, <2>2, OfUsers, RightsKept DEF CallShape
  <2> QED BY <2>1, <2>2
<1>8. SignedRights'
  <2> SUFFICES ASSUME NEW p \in Calls, pair[p] # None, NEW v, v = pair[p].user,
                      pair[p].at > account'[v].since + 1
               PROVE  Exists(v)' /\ pair[p].rights = RightsOf(v)'
    BY DEF SignedRights
  <2> QED BY OfUsers, RightsKept DEF IInv, CallShape
<1>9. Blacklisted'
  <2> SUFFICES ASSUME NEW e \in Calls, call'[e] # None, call'[e].kind = "logout",
                      NEW p, p = call'[e].token
               PROVE  p \in Calls /\ pair[p] # None /\ revoked'[p] >= pair[p].at + JtiTtl
    BY DEF Blacklisted
  <2>1. CASE e = c BY <1>2, <2>1
  <2>2. CASE e # c
    <3>1. p \in Calls /\ pair[p] # None /\ revoked[p] >= pair[p].at + JtiTtl
      BY <1>1, <1>2, <2>2 DEF Blacklisted
    <3>2. pair[p].at \in Nat /\ revoked[p] \in Nat /\ revoked'[p] \in Nat
      BY <1>1, <3>1 DEF TypeOK, Pair
    <3> QED BY <3>1, <3>2
  <2> QED BY <2>1, <2>2
<1> QED BY <1>3, <1>4, <1>5, <1>6, <1>7, <1>8, <1>9 DEF IInv

\* The rights of an account that is there.
LEMMA RightsTyped ==
    ASSUME TypeOK, NEW u \in Users, Exists(u)
    PROVE  RightsOf(u) \in Rights
BY DEF TypeOK, Exists, RightsOf, Rights, Account

LEMMA OpeningsKeep ==
    ASSUME IInv, NEW c \in Calls, NEW u \in Users, NEW d \in Devices,
           Register(c, u, d) \/ Login(c, u, d) \/ LoginWithPin(c, u, d) \/ LoginWithGoogle(c, u, d)
    PROVE  IInv'
<1>1. TypeOK /\ clock \in Nat BY DEF IInv, TypeOK
<1>2. /\ revoked' \in [Calls -> Nat] /\ UNCHANGED <<session, pair, clock>>
      /\ \A p \in Calls : revoked'[p] >= revoked[p]
  BY <1>1 DEF TypeOK, Register, Login, LoginWithPin, LoginWithGoogle
<1>3. ASSUME NEW status \in {"active", "unverified"}, SetAccount(u, status, {"user"}),
             Begin(c, "login", u, d, None, NewRights(status), "save")
      PROVE  IInv'
  <2>1. NewRights(status) \in Rights BY DEF NewRights, Rights, UserStatus, RoleSets
  <2>2. /\ Dated
        /\ account'[u] = [status |-> status, roles |-> {"user"}, since |-> clock]
    BY <1>1, <1>3, SetAccountDated DEF UserStatus, RoleSets
  <2>3. [kind |-> "login", user |-> u, device |-> d, token |-> None, rights |-> NewRights(status),
         began |-> clock] \in Call
    BY <1>1, <2>1 DEF Call
  <2>4. ~(clock > account'[u].since) BY <1>1, <2>2
  <2> QED BY <1>2, <1>3, <2>1, <2>2, <2>3, <2>4, CallBegins
<1>4. ASSUME UNCHANGED account, Exists(u), Begin(c, "login", u, d, None, RightsOf(u), "save")
      PROVE  IInv'
  <2>1. RightsOf(u) \in Rights BY <1>1, <1>4, RightsTyped
  <2>2. Dated BY <1>1, <1>4, AccountKept
  <2>3. [kind |-> "login", user |-> u, device |-> d, token |-> None, rights |-> RightsOf(u),
         began |-> clock] \in Call
    BY <1>1, <2>1 DEF Call
  <2>4. Exists(u)' /\ RightsOf(u) = RightsOf(u)' BY <1>4 DEF Exists, RightsOf
  <2> QED BY <1>2, <1>4, <2>1, <2>2, <2>3, <2>4, CallBegins
<1>5. CASE Register(c, u, d) BY <1>3, <1>5 DEF Register
<1>6. CASE Login(c, u, d) BY <1>4, <1>6 DEF Login
<1>7. CASE LoginWithPin(c, u, d) BY <1>4, <1>7 DEF LoginWithPin
<1>8. CASE LoginWithGoogle(c, u, d) BY <1>3, <1>4, <1>8 DEF LoginWithGoogle
<1> QED BY <1>5, <1>6, <1>7, <1>8

\* A call that reads no rights when it begins.
LEMMA CallBeginsBlank ==
    ASSUME IInv, NEW c \in Calls, NEW kind \in {"confirm", "refresh", "status", "delete"},
           NEW u \in Users, NEW d \in Devices, NEW token \in Calls \cup {None},
           NEW next \in {"confirm", "load", "clean", "cleanAll", "done"},
           Begin(c, kind, u, d, token, None, next), Dated, UNCHANGED <<session, pair, revoked, clock>>
    PROVE  IInv'
<1>1. TypeOK /\ clock \in Nat BY DEF IInv, TypeOK
<1>2. [kind |-> kind, user |-> u, device |-> d, token |-> token, rights |-> None,
       began |-> clock] \in Call
  BY <1>1 DEF Call
<1>3. revoked' \in [Calls -> Nat] /\ \A p \in Calls : revoked'[p] >= revoked[p]
  BY <1>1 DEF TypeOK
<1> QED BY <1>2, <1>3, CallBegins

LEMMA PairTyped == ASSUME TypeOK, NEW p \in Calls, pair[p] # None PROVE pair[p] \in Pair
BY DEF TypeOK

LEMMA BlankOnesKeep ==
    ASSUME IInv, NEW c \in Calls,
           \/ \E p \in Calls : ConfirmEmail(c, p) \/ RefreshFind(c, p) \/ SoftDeleteMe(c, p)
           \/ \E u \in Users : HardDelete(c, u) \/ \E s \in UserStatus : UpdateStatus(c, u, s)
    PROVE  IInv'
<1>1. TypeOK BY DEF IInv
<1>2. ASSUME NEW p \in Calls, ConfirmEmail(c, p) \/ RefreshFind(c, p) \/ SoftDeleteMe(c, p)
      PROVE  IInv'
  <2>1. pair[p] \in Pair /\ pair[p].user \in Users /\ pair[p].device \in Devices
    BY <1>1, <1>2, PairTyped DEF ConfirmEmail, RefreshFind, SoftDeleteMe, Called, Pair
  <2>2. CASE ConfirmEmail(c, p)
    BY <1>1, <2>1, <2>2, AccountKept, CallBeginsBlank DEF ConfirmEmail
  <2>3. CASE RefreshFind(c, p)
    BY <1>1, <2>1, <2>3, AccountKept, CallBeginsBlank DEF RefreshFind
  <2>4. CASE SoftDeleteMe(c, p)
    <3>1. account[pair[p].user].roles \in RoleSets BY <1>1, <2>1 DEF TypeOK, Account
    <3>2. Dated BY <1>1, <2>1, <2>4, <3>1, SetAccountDated DEF SoftDeleteMe, UserStatus
    <3> QED BY <2>1, <2>4, <3>2, CallBeginsBlank DEF SoftDeleteMe
  <2> QED BY <1>2, <2>2, <2>3, <2>4
<1>3. ASSUME NEW u \in Users, HardDelete(c, u) PROVE IInv'
  BY <1>1, <1>3, AccountKept, CallBeginsBlank DEF HardDelete
<1>4. ASSUME NEW u \in Users, NEW s \in UserStatus, UpdateStatus(c, u, s) PROVE IInv'
  <2>1. account[u].roles \in RoleSets BY <1>1 DEF TypeOK, Account
  <2>2. Dated BY <1>1, <1>4, <2>1, SetAccountDated DEF UpdateStatus
  <2> QED BY <1>4, <2>2, CallBeginsBlank DEF UpdateStatus
<1> QED BY <1>2, <1>3, <1>4

LEMMA LogoutKeeps ==
    ASSUME IInv, NEW c \in Calls, NEW p \in Calls, NEW all \in BOOLEAN, Logout(c, p, all)
    PROVE  IInv'
<1>1. TypeOK /\ SignedOnce BY DEF IInv
<1>2. pair[p] # None /\ pair[p] \in Pair BY <1>1, PairTyped DEF Logout, Called
<1>3. pair[p].user \in Users /\ pair[p].device \in Devices /\ pair[p].at \in Nat
  BY <1>2 DEF Pair
<1>4. clock \in Nat /\ pair[p].at <= clock BY <1>1, <1>2 DEF TypeOK, SignedOnce
<1>5. clock + JtiTtl \in Nat /\ clock + JtiTtl >= pair[p].at + JtiTtl BY <1>3, <1>4
<1>6. /\ revoked' \in [Calls -> Nat] /\ revoked'[p] = clock + JtiTtl
      /\ \A q \in Calls : q # p => revoked'[q] = revoked[q]
      /\ \A q \in Calls : revoked[q] \in Nat
  BY <1>1, <1>5 DEF TypeOK, Logout
<1>7. \A q \in Calls : pair[q] # None =>
         revoked'[q] >= revoked[q] \/ revoked'[q] >= pair[q].at + JtiTtl
  BY <1>5, <1>6
<1>8. [kind |-> "logout", user |-> pair[p].user, device |-> pair[p].device, token |-> p,
       rights |-> None, began |-> clock] \in Call
  BY <1>3, <1>4 DEF Call
<1>9. Dated BY <1>1, AccountKept DEF Logout
<1>10. PICK next \in {"clean", "cleanAll"} :
          Begin(c, "logout", pair[p].user, pair[p].device, p, None, next)
  BY DEF Logout
<1>11. UNCHANGED <<session, pair, clock>> BY DEF Logout
<1> QED BY <1>2, <1>5, <1>6, <1>7, <1>8, <1>9, <1>10, <1>11, CallBegins

-----------------------------------------------------------------------------
(* A call goes on *)

\* The variables of c are read or kept, its pair is signed or not.
LEMMA CallGoesOn ==
    ASSUME IInv, NEW c \in Calls, InFlight(c),
           NEW next \in {"load", "save", "rotate", "drop", "done", "refused"}, Goto(c, next),
           NEW new \in Call, call' = [call EXCEPT ![c] = new],
           new.kind = call[c].kind, new.token = call[c].token, new.user = call[c].user,
           new.began = call[c].began,
           Dated, session' \in [Places -> [of : Calls, expires : Nat] \cup {None}],
           UNCHANGED <<revoked, clock>>,
           pair' = pair \/ (Signs(c) /\ stand[c] \in {"save", "rotate"} /\ next = "done"),
           next = "save" => new.kind \in {"login", "confirm"},
           next = "rotate" => new.kind = "refresh",
           next \in {"save", "rotate"} =>
              new.rights \in Rights /\ Exists(new.user)' /\ new.rights = RightsOf(new.user)'
    PROVE  IInv'
<1>1. TypeOK /\ CallShape /\ SignedOnce /\ Prompt /\ ReadRights /\ SignedRights /\ Blacklisted
  BY DEF IInv
<1>2. /\ call[c] # None /\ call[c] \in Call /\ pair[c] = None /\ clock \in Nat
      /\ \A e \in Calls : /\ call'[e] = IF e = c THEN new ELSE call[e]
                          /\ stand'[e] = IF e = c THEN next ELSE stand[e]
  BY <1>1 DEF InFlight, Goto, TypeOK, CallShape, SignedOnce
<1>3. /\ \A e \in Calls : e # c => pair'[e] = pair[e]
      /\ pair' \in [Calls -> Pair \cup {None}]
      /\ pair'[c] # None => /\ stand[c] \in {"save", "rotate"} /\ next = "done"
                            /\ pair'[c].user = call[c].user /\ pair'[c].rights = call[c].rights
                            /\ pair'[c].at = clock
  <2>1. CASE pair' = pair BY <1>1, <1>2, <2>1 DEF TypeOK
  <2>2. CASE Signs(c) /\ stand[c] \in {"save", "rotate"} /\ next = "done"
    <3>1. call[c].rights \in Rights /\ call[c].user \in Users /\ call[c].device \in Devices
      BY <1>1, <1>2, <2>2 DEF CallShape, Call
    <3>2. [user |-> call[c].user, device |-> call[c].device, rights |-> call[c].rights,
           at |-> clock] \in Pair
      BY <1>2, <3>1 DEF Pair
    <3> QED BY <1>1, <2>2, <3>2 DEF TypeOK, Signs
  <2> QED BY <2>1, <2>2
<1>4. TypeOK' BY <1>1, <1>3 DEF TypeOK, Goto, Dated
<1>5. CallShape' BY <1>1, <1>2 DEF CallShape
<1>6. SignedOnce' BY <1>1, <1>2, <1>3 DEF SignedOnce
<1>7. Prompt' BY <1>1, <1>2 DEF Prompt, InFlight
<1>8. ReadRights'
  <2> SUFFICES ASSUME NEW e \in Calls, stand'[e] \in {"save", "rotate"}, NEW v, v = call'[e].user,
                      call'[e].began > account'[v].since
               PROVE  Exists(v)' /\ call'[e].rights = RightsOf(v)'
    BY DEF ReadRights
  <2>1. CASE e = c BY <1>2, <2>1 DEF Exists, RightsOf
  <2>2. CASE e # c BY <1>1, <1>2, <2>2, OfUsers, RightsKept DEF CallShape
  <2> QED BY <2>1, <2>2
<1>9. SignedRights'
  <2> SUFFICES ASSUME NEW p \in Calls, pair'[p] # None, NEW v, v = pair'[p].user,
                      pair'[p].at > account'[v].since + 1
               PROVE  Exists(v)' /\ pair'[p].rights = RightsOf(v)'
    BY DEF SignedRights
  <2>1. CASE p # c BY <1>1, <1>3, <2>1, OfUsers, RightsKept
  <2>2. CASE p = c
    <3>1. v = call[c].user /\ clock > account'[v].since + 1 /\ stand[c] \in {"save", "rotate"}
      BY <1>3, <2>2
    <3>2. clock <= call[c].began + 1 /\ call[c].began \in Nat
      BY <1>1, <1>2 DEF Prompt, Call
    <3>3. v \in Users /\ account'[v].since \in Nat BY <1>2, <3>1 DEF Dated, Account, Call
    <3>4. call[c].began > account'[v].since BY <1>2, <3>1, <3>2, <3>3
    <3> QED BY <1>3, <2>2, <3>1, <3>3, <3>4, RightsKept
  <2> QED BY <2>1, <2>2
<1>10. Blacklisted'
  <2> SUFFICES ASSUME NEW e \in Calls, call'[e] # None, call'[e].kind = "logout",
                      NEW p, p = call'[e].token
               PROVE  p \in Calls /\ pair'[p] # None /\ revoked'[p] >= pair'[p].at + JtiTtl
    BY DEF Blacklisted
  <2>1. call[e] # None /\ call[e].kind = "logout" /\ p = call[e].token BY <1>2
  <2>2. p \in Calls /\ pair[p] # None /\ revoked[p] >= pair[p].at + JtiTtl
    BY <1>1, <2>1 DEF Blacklisted
  <2> QED BY <1>2, <1>3, <2>2
<1> QED BY <1>4, <1>5, <1>6, <1>7, <1>8, <1>9, <1>10 DEF IInv

\* A call that keeps what it has read.
LEMMA CallGoesOnBlind ==
    ASSUME IInv, NEW c \in Calls, InFlight(c), NEW next \in {"load", "drop", "done", "refused"},
           Goto(c, next), UNCHANGED <<call, revoked, clock>>,
           Dated, session' \in [Places -> [of : Calls, expires : Nat] \cup {None}],
           pair' = pair \/ (Signs(c) /\ stand[c] \in {"save", "rotate"} /\ next = "done")
    PROVE  IInv'
<1>1. call[c] \in Call /\ call' = [call EXCEPT ![c] = call[c]]
  BY DEF IInv, TypeOK, CallShape, InFlight
<1> QED BY <1>1, CallGoesOn

LEMMA SavesKeep == ASSUME IInv, NEW c \in Calls, SaveSession(c) \/ Rotate(c) PROVE IInv'
<1>1. TypeOK /\ clock + RefreshTtl \in Nat BY DEF IInv, TypeOK
<1>2. InFlight(c) /\ stand[c] \in {"save", "rotate"} BY DEF SaveSession, Rotate, InFlight
<1>3. session' \in [Places -> [of : Calls, expires : Nat] \cup {None}]
  <2>1. Row(c) \in [of : Calls, expires : Nat] BY <1>1 DEF Row
  <2> QED BY <1>1, <2>1 DEF TypeOK, SaveSession, Rotate
<1>4. Dated BY <1>1, AccountKept DEF SaveSession, Rotate
<1>5. UNCHANGED <<call, revoked, clock>> BY DEF SaveSession, Rotate
<1>6. \/ Goto(c, "done") /\ Signs(c)
      \/ Goto(c, "refused") /\ pair' = pair
  BY DEF SaveSession, Rotate
<1> QED BY <1>2, <1>3, <1>4, <1>5, <1>6, CallGoesOnBlind

LEMMA ConfirmWriteKeeps == ASSUME IInv, NEW c \in Calls, ConfirmWrite(c) PROVE IInv'
<1>1. TypeOK /\ InFlight(c) BY DEF IInv, ConfirmWrite, InFlight
<1>2. call[c].user \in Users BY <1>1 DEF IInv, TypeOK, CallShape, InFlight, Call
<1>3. Dated
  <2>1. account[call[c].user].roles \in RoleSets BY <1>1, <1>2 DEF TypeOK, Account
  <2>2. CASE UNCHANGED account BY <1>1, <2>2, AccountKept
  <2>3. CASE SetAccount(call[c].user, "active", account[call[c].user].roles)
    BY <1>1, <1>2, <2>1, <2>3, SetAccountDated DEF UserStatus
  <2> QED BY <2>2, <2>3 DEF ConfirmWrite
<1>4. session' \in [Places -> [of : Calls, expires : Nat] \cup {None}]
  BY <1>1 DEF TypeOK, ConfirmWrite
<1>5. UNCHANGED <<pair, call, revoked, clock>> /\ (Goto(c, "load") \/ Goto(c, "refused"))
  BY DEF ConfirmWrite
<1> QED BY <1>1, <1>3, <1>4, <1>5, CallGoesOnBlind

LEMMA LoadsKeep == ASSUME IInv, NEW c \in Calls, ConfirmLoad(c) \/ RefreshLoad(c) PROVE IInv'
<1>1. TypeOK /\ InFlight(c) BY DEF IInv, ConfirmLoad, RefreshLoad, InFlight
<1>2. call[c] \in Call /\ call[c].user \in Users
  BY <1>1 DEF IInv, TypeOK, CallShape, InFlight, Call
<1>3. Dated BY <1>1, AccountKept DEF ConfirmLoad, RefreshLoad
<1>4. /\ session' \in [Places -> [of : Calls, expires : Nat] \cup {None}]
      /\ UNCHANGED <<account, pair, revoked, clock>>
  BY <1>1 DEF TypeOK, ConfirmLoad, RefreshLoad
<1>5. CASE Exists(call[c].user)
  <2>1. RightsOf(call[c].user) \in Rights BY <1>1, <1>2, <1>5, RightsTyped
  <2>2. PICK new \in Call :
          /\ new = [call[c] EXCEPT !.rights = RightsOf(call[c].user)]
          /\ new.kind = call[c].kind /\ new.token = call[c].token
          /\ new.user = call[c].user /\ new.began = call[c].began
          /\ new.rights = RightsOf(call[c].user)
    <3>1. [call[c] EXCEPT !.rights = RightsOf(call[c].user)] \in Call BY <1>2, <2>1 DEF Call
    <3> QED BY <1>2, <3>1 DEF Call
  <2>3. PICK next \in {"save", "rotate"} :
          /\ Reads(c, next)
          /\ next = "save" => call[c].kind \in {"login", "confirm"}
          /\ next = "rotate" => call[c].kind = "refresh"
    BY <1>5 DEF ConfirmLoad, RefreshLoad
  <2>4. Goto(c, next) /\ call' = [call EXCEPT ![c] = new] BY <2>2, <2>3 DEF Reads
  <2>5. Exists(new.user)' /\ new.rights = RightsOf(new.user)'
    BY <1>4, <1>5, <2>2 DEF Exists, RightsOf
  <2> QED BY <1>1, <1>3, <1>4, <2>1, <2>2, <2>3, <2>4, <2>5, CallGoesOn
<1>6. CASE ~Exists(call[c].user)
  BY <1>1, <1>3, <1>4, <1>6, CallGoesOnBlind DEF ConfirmLoad, RefreshLoad
<1> QED BY <1>5, <1>6

LEMMA ClosingsKeep == ASSUME IInv, NEW c \in Calls, Clean(c) \/ DropAccount(c) PROVE IInv'
<1>1. TypeOK /\ InFlight(c) BY DEF IInv, Clean, DropAccount, InFlight
<1>2. call[c].user \in Users BY <1>1 DEF IInv, TypeOK, CallShape, InFlight, Call
<1>3. Dated
  <2>1. CASE Clean(c) BY <1>1, <2>1, AccountKept DEF Clean
  <2>2. CASE DropAccount(c)
    BY <1>1, <1>2, <2>2, SetAccountDated DEF DropAccount, RoleSets
  <2> QED BY <2>1, <2>2
<1>4. session' \in [Places -> [of : Calls, expires : Nat] \cup {None}]
  BY <1>1, WithoutTyped DEF Clean, DropAccount
<1>5. /\ UNCHANGED <<pair, call, revoked, clock>>
      /\ Goto(c, "drop") \/ Goto(c, "done")
  BY DEF Clean, DropAccount
<1> QED BY <1>1, <1>3, <1>4, <1>5, CallGoesOnBlind

-----------------------------------------------------------------------------
(* The steps that are no call, and the clock *)

LEMMA OthersKeep ==
    ASSUME IInv, Dated, session' \in [Places -> [of : Calls, expires : Nat] \cup {None}],
           UNCHANGED <<pair, revoked, call, stand, clock>>
    PROVE  IInv'
<1>1. TypeOK /\ CallShape /\ SignedOnce /\ Prompt /\ ReadRights /\ SignedRights /\ Blacklisted
  BY DEF IInv
<1>2. TypeOK' BY <1>1 DEF TypeOK, Dated
<1>3. CallShape' /\ SignedOnce' /\ Prompt' /\ Blacklisted'
  BY <1>1 DEF CallShape, SignedOnce, Prompt, InFlight, Blacklisted
<1>4. ReadRights'
  <2> SUFFICES ASSUME NEW e \in Calls, stand[e] \in {"save", "rotate"}, NEW v, v = call[e].user,
                      call[e].began > account'[v].since
               PROVE  Exists(v)' /\ call[e].rights = RightsOf(v)'
    BY DEF ReadRights
  <2> QED BY OfUsers, RightsKept DEF IInv, CallShape
<1>5. SignedRights'
  <2> SUFFICES ASSUME NEW p \in Calls, pair[p] # None, NEW v, v = pair[p].user,
                      pair[p].at > account'[v].since + 1
               PROVE  Exists(v)' /\ pair[p].rights = RightsOf(v)'
    BY DEF SignedRights
  <2> QED BY OfUsers, RightsKept DEF IInv, CallShape
<1> QED BY <1>2, <1>3, <1>4, <1>5 DEF IInv

LEMMA TickKeeps == ASSUME IInv, Tick PROVE IInv'
<1>1. TypeOK /\ CallShape /\ SignedOnce /\ Prompt /\ ReadRights /\ SignedRights /\ Blacklisted
  BY DEF IInv
<1>2. clock \in Nat /\ clock' = clock + 1 /\ clock' \in 0 .. MaxClock
  BY <1>1 DEF TypeOK, Tick
<1>3. UNCHANGED <<account, session, pair, revoked, call, stand>> BY DEF Tick
<1>4. TypeOK' BY <1>1, <1>2, <1>3 DEF TypeOK
<1>5. SignedOnce'
  <2>1. \A p \in Calls : pair[p] # None => pair[p].at \in Nat BY <1>1 DEF TypeOK, Pair
  <2> QED BY <1>1, <1>2, <1>3, <2>1 DEF SignedOnce
<1>6. Prompt' BY <1>2, <1>3 DEF Prompt, InFlight, Tick
<1>7. CallShape' /\ ReadRights' /\ SignedRights' /\ Blacklisted'
  BY <1>1, <1>3 DEF CallShape, ReadRights, SignedRights, Blacklisted, Exists, RightsOf
<1> QED BY <1>4, <1>5, <1>6, <1>7 DEF IInv

LEMMA StepIInv == IInv /\ [Next]_vars => IInv'
<1> SUFFICES ASSUME IInv, [Next]_vars PROVE IInv' OBVIOUS
<1>1. TypeOK BY DEF IInv
<1>2. CASE UNCHANGED vars
  BY <1>1, <1>2, AccountKept, OthersKeep DEF vars, TypeOK
<1>3. ASSUME NEW c \in Calls, Opening(c) PROVE IInv'
  BY <1>3, OpeningsKeep, BlankOnesKeep, SavesKeep, ConfirmWriteKeeps, LoadsKeep DEF Opening
<1>4. ASSUME NEW c \in Calls, Closing(c) PROVE IInv'
  BY <1>4, BlankOnesKeep, LogoutKeeps, ClosingsKeep DEF Closing
<1>5. ASSUME NEW u \in Users, NEW roles \in RoleSets, UpdateRoles(u, roles) PROVE IInv'
  <2>1. account[u].status \in UserStatus \cup {"none"} BY <1>1 DEF TypeOK, Account
  <2>2. Dated BY <1>1, <1>5, <2>1, SetAccountDated DEF UpdateRoles
  <2> QED BY <1>1, <1>5, <2>2, OthersKeep DEF UpdateRoles, TypeOK
<1>6. CASE \/ \E u \in Users : RevokeAllSessions(u)
           \/ \E x \in Places : RevokeSession(x)
           \/ CleanExpiredSessions
  BY <1>1, <1>6, AccountKept, WithoutTyped, OthersKeep
     DEF RevokeAllSessions, RevokeSession, CleanExpiredSessions
<1>7. CASE Tick BY <1>7, TickKeeps
<1> QED BY <1>2, <1>3, <1>4, <1>5, <1>6, <1>7 DEF Next

LEMMA SpecIInv == Spec => []IInv
BY InitIInv, StepIInv, PTL DEF Spec

-----------------------------------------------------------------------------
(* What a token reaches *)

LEMMA TtlBounds == ASSUME NEW roles PROVE Ttl(roles) \in Nat /\ Ttl(roles) <= JtiTtl
BY DEF Ttl

\* A token that reaches a route has not expired and is not on the blacklist.
LEMMA ReachesAlive ==
    ASSUME IInv, NEW p \in Calls, pair[p] # None, NEW policy \in Reaches(p)
    PROVE  clock < pair[p].at + Ttl(pair[p].rights.roles) /\ clock >= revoked[p]
<1>1. ~Credential(p).expired /\ ~Credential(p).revoked
  BY GuardsAskForLife DEF Reaches, Called
<1>2. /\ clock \in Nat /\ pair[p].at \in Nat /\ revoked[p] \in Nat
      /\ Ttl(pair[p].rights.roles) \in Nat
  BY TtlBounds DEF IInv, TypeOK, Pair
<1>3. /\ Credential(p).expired = (clock >= pair[p].at + Ttl(pair[p].rights.roles))
      /\ Credential(p).revoked = (clock < revoked[p])
  BY DEF Credential
<1>4. ~(clock >= pair[p].at + Ttl(pair[p].rights.roles)) /\ ~(clock < revoked[p])
  BY <1>1, <1>3, Zenon
<1> QED BY <1>2, <1>4

LEMMA IInvRightsCatchUp == IInv => RightsCatchUp
<1> SUFFICES ASSUME IInv, NEW p \in Calls, pair[p] # None, NEW u, u = pair[p].user,
                    clock > account[u].since + Ttl(pair[p].rights.roles),
                    NEW policy \in Reaches(p)
             PROVE  policy \in Entitled(u)
  BY DEF RightsCatchUp
<1>1. TypeOK /\ SignedRights BY DEF IInv
<1>2. pair[p] \in Pair /\ u \in Users BY <1>1 DEF TypeOK, Pair
<1>3. /\ clock \in Nat /\ pair[p].at \in Nat /\ account[u].since \in Nat
      /\ Ttl(pair[p].rights.roles) \in Nat
  BY <1>1, <1>2, TtlBounds DEF TypeOK, Pair, Account
<1>4. clock < pair[p].at + Ttl(pair[p].rights.roles) BY ReachesAlive
<1>5. pair[p].at > account[u].since + 1 BY <1>3, <1>4
<1>6. Exists(u) /\ pair[p].rights = RightsOf(u) BY <1>1, <1>5 DEF SignedRights
<1>7. /\ policy \in Policies /\ ~policy.public /\ Granted(policy, "mobile", Credential(p))
  BY DEF Reaches, Called
<1> DEFINE now == [present |-> TRUE, expired |-> FALSE, revoked |-> FALSE,
                   status |-> account[u].status, roles |-> account[u].roles]
<1>8. /\ now.present /\ ~now.expired /\ ~now.revoked
      /\ now.status = Credential(p).status /\ now.roles = Credential(p).roles
  BY <1>6 DEF Credential, RightsOf
<1>9. Granted(policy, "mobile", now) BY <1>7, <1>8, GuardsReadRights
<1> QED BY <1>6, <1>7, <1>9 DEF Entitled

LEMMA IInvLoggedOut == IInv => LoggedOutReachesNothing
<1> SUFFICES ASSUME IInv, NEW p \in LoggedOut, NEW policy \in Reaches(p) PROVE FALSE
  BY DEF LoggedOutReachesNothing
<1>1. p \in Calls /\ pair[p] # None /\ revoked[p] >= pair[p].at + JtiTtl
  BY DEF IInv, Blacklisted, LoggedOut
<1>2. clock < pair[p].at + Ttl(pair[p].rights.roles) /\ clock >= revoked[p]
  BY <1>1, ReachesAlive
<1>3. /\ clock \in Nat /\ pair[p].at \in Nat /\ revoked[p] \in Nat
      /\ Ttl(pair[p].rights.roles) \in Nat /\ Ttl(pair[p].rights.roles) <= JtiTtl
  BY <1>1, TtlBounds DEF IInv, TypeOK, Pair
<1> QED BY <1>1, <1>2, <1>3

\* Of the steps that write a session, only SaveSession writes one that is not there.
LEMMA StepRevivesNothing ==
    ASSUME IInv, [Next]_vars, NEW x \in Places, session[x] = None, session'[x] # None
    PROVE  call[session'[x].of].kind # "refresh"
<1>1. TypeOK /\ CallShape BY DEF IInv
<1>2. ASSUME NEW c \in Calls, SaveSession(c) PROVE call[session'[x].of].kind # "refresh"
  <2>1. session' = [session EXCEPT ![Of(c)] = Row(c)]
    BY <1>2 DEF SaveSession
  <2>2. session'[x] = Row(c) BY <1>1, <2>1 DEF TypeOK
  <2>3. call[c].kind \in {"login", "confirm"} BY <1>1, <1>2 DEF CallShape, SaveSession
  <2> QED BY <2>2, <2>3 DEF Row
<1>3. ASSUME NEW c \in Calls, Rotate(c) PROVE FALSE
  BY <1>1, <1>3 DEF Rotate, TypeOK
<1>4. ASSUME NEW gone, session' = WithoutSessions(gone) PROVE FALSE
  BY <1>4 DEF WithoutSessions
<1>5. ASSUME UNCHANGED session PROVE FALSE BY <1>5
<1>6. ASSUME NEW c \in Calls, Opening(c) PROVE call[session'[x].of].kind # "refresh"
  BY <1>2, <1>3, <1>5, <1>6
     DEF Opening, Register, Login, LoginWithPin, LoginWithGoogle, ConfirmEmail, RefreshFind,
         ConfirmWrite, ConfirmLoad, RefreshLoad
<1>7. ASSUME NEW c \in Calls, Closing(c) PROVE FALSE
  BY <1>4, <1>5, <1>7
     DEF Closing, SoftDeleteMe, Logout, HardDelete, UpdateStatus, Clean, DropAccount
<1> QED BY <1>4, <1>5, <1>6, <1>7
        DEF Next, RevokeAllSessions, UpdateRoles, RevokeSession, CleanExpiredSessions, Tick, vars

-----------------------------------------------------------------------------
(* The theorems *)

\* Accounts, sessions, tokens and calls keep their types: no token is signed
\* with rights that were not read.
THEOREM SessionTyped == Spec => []TypeOK
<1>1. IInv => TypeOK BY DEF IInv
<1> QED BY <1>1, SpecIInv, PTL

\* Whatever the lifetimes are, what is done to an account is felt on every route
\* once the tokens signed before it, and the call that was under way, are past.
THEOREM ChangesAreFelt == Spec => []RightsCatchUp
BY SpecIInv, IInvRightsCatchUp, PTL

\* A blacklist that remembers for the longest life of an access token is enough:
\* no route lets in a token that logged out.
THEOREM LogoutHolds == Spec => []LoggedOutReachesNothing
BY SpecIInv, IInvLoggedOut, PTL

\* A refresh that had found its session before it was closed does not open it.
THEOREM ClosedStaysClosed == Spec => RefreshRevivesNothing
<1>1. IInv /\ [Next]_vars =>
        [\A x \in Places : session[x] = None /\ session'[x] # None =>
             call[session'[x].of].kind # "refresh"]_vars
  BY StepRevivesNothing
<1> QED BY <1>1, SpecIInv, PTL DEF Spec, RefreshRevivesNothing

=============================================================================
