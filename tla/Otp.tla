-------------------------------- MODULE Otp --------------------------------
(***************************************************************************)
(* The one-time code of one user for one operation (confirm, reset or      *)
(* pin), the counter of attempts and the lock over it (OtpService), and    *)
(* checkPin, which counts on the same keys.                                *)
(*                                                                         *)
(* Each is a key of Redis with a time to live, here the ticks it has left. *)
(* Commands are atomic, the two of a Promise.all go out together, and      *)
(* everything else interleaves.  A slot is one call at a time; it outlives *)
(* at most one tick.                                                       *)
(***************************************************************************)
EXTENDS Naturals, FiniteSets

CONSTANTS
    Slots,         \* calls that may overlap
    Codes,         \* the values a code may take
    MaxAttempts, LockTtl, CodeTtl, AttemptTtl,   \* RedisOperationConf
    MaxCrashes,    \* bound on the crashes of the process
    NoCode

ASSUME OtpAssumption ==
    /\ {MaxAttempts, LockTtl, CodeTtl, AttemptTtl} \subseteq Nat \ {0}
    /\ IsFiniteSet(Slots) /\ MaxCrashes \in Nat
    /\ NoCode \notin Codes

\* redisConf, for each of the three operations: the counter and the lock last at
\* least as long as the code.
ASSUME TimesOfConf == CodeTtl <= AttemptTtl /\ CodeTtl <= LockTtl

VARIABLES
    code,          \* otp:op:user
    codeLeft,
    attempts,      \* att:op:user; Forever when no EXPIRE has followed its INCR
    attemptsLeft,
    lockLeft,      \* lock:op:user
    stand,         \* where each slot stands
    guess,         \* the code it was called with
    old,           \* slots that have seen a tick
    wrong,         \* history: comparisons that failed against the code as it stands
    crashes

keyVars == <<code, codeLeft, attempts, attemptsLeft, lockLeft>>
vars == <<keyVars, stand, guess, old, wrong, crashes>>

Forever == AttemptTtl + 1

TypeOK ==
    /\ code \in Codes \cup {NoCode} /\ codeLeft \in 0 .. CodeTtl
    /\ code = NoCode <=> codeLeft = 0
    /\ attempts \in 0 .. MaxAttempts + Cardinality(Slots) * (1 + crashes)
    /\ attemptsLeft \in 0 .. Forever
    /\ attempts = 0 <=> attemptsLeft = 0
    /\ lockLeft \in 0 .. LockTtl
    /\ stand \in [Slots -> {"idle", "send", "get", "fail", "clear", "expireSend",
                            "expireFail", "lock", "store"}]
    /\ guess \in [Slots -> Codes \cup {NoCode}]
    /\ old \subseteq Slots
    /\ wrong \in Nat /\ crashes \in 0 .. MaxCrashes

Init ==
    /\ code = NoCode /\ codeLeft = 0
    /\ attempts = 0 /\ attemptsLeft = 0
    /\ lockLeft = 0
    /\ stand = [s \in Slots |-> "idle"]
    /\ guess = [s \in Slots |-> NoCode]
    /\ old = {}
    /\ wrong = 0 /\ crashes = 0

Stays(s, next) == stand' = [stand EXCEPT ![s] = next] /\ UNCHANGED <<guess, old>>

Ends(s) ==
    /\ stand' = [stand EXCEPT ![s] = "idle"]
    /\ guess' = [guess EXCEPT ![s] = NoCode]
    /\ old' = old \ {s}

-----------------------------------------------------------------------------
(* Calls *)

\* sendConfirmOtp, sendResetOtp, sendPinOtp.
Send(s) ==
    /\ stand[s] = "idle" /\ lockLeft = 0
    /\ Stays(s, "send")
    /\ UNCHANGED <<keyVars, wrong, crashes>>

\* verifyOtp, for confirmEmail, confirmResetOtp and resetPin.
Verify(s, g) ==
    /\ stand[s] = "idle" /\ lockLeft = 0
    /\ stand' = [stand EXCEPT ![s] = "get"]
    /\ guess' = [guess EXCEPT ![s] = g]
    /\ UNCHANGED <<keyVars, old, wrong, crashes>>

\* checkPin with a wrong PIN; a right one changes nothing, not even the counter.
CheckPin(s) ==
    /\ stand[s] = "idle" /\ lockLeft = 0
    /\ Stays(s, "fail")
    /\ UNCHANGED <<keyVars, wrong, crashes>>

\* An absent code is refused and not counted; a wrong one is counted.
Compare(s) ==
    /\ stand[s] = "get"
    /\ IF code = NoCode THEN Ends(s) /\ UNCHANGED wrong
       ELSE IF guess[s] = code THEN Stays(s, "clear") /\ UNCHANGED wrong
       ELSE Stays(s, "fail") /\ wrong' = wrong + 1
    /\ UNCHANGED <<keyVars, crashes>>

\* The code and the counter are deleted together.
Clear(s) ==
    /\ stand[s] = "clear"
    /\ code' = NoCode /\ codeLeft' = 0
    /\ attempts' = 0 /\ attemptsLeft' = 0
    /\ wrong' = 0
    /\ Ends(s)
    /\ UNCHANGED <<lockLeft, crashes>>

\* incrementAttempt, INCR and the count it returns to this call: the first asks
\* for an EXPIRE, one past the limit goes on to the lock.  Until that is set
\* others still pass it, and the counter runs past the limit.
IncrementAttempt(s) ==
    /\ stand[s] \in {"send", "fail"}
    /\ attempts' = attempts + 1
    /\ attemptsLeft' = IF attempts = 0 THEN Forever ELSE attemptsLeft
    /\ \/ attempts = 0 /\ stand[s] = "send" /\ Stays(s, "expireSend")
       \/ attempts = 0 /\ stand[s] = "fail" /\ Stays(s, "expireFail")
       \/ attempts + 1 > MaxAttempts /\ Stays(s, "lock")
       \/ attempts \in 1 .. MaxAttempts - 1 /\ stand[s] = "send" /\ Stays(s, "store")
       \/ attempts \in 1 .. MaxAttempts - 1 /\ stand[s] = "fail" /\ Ends(s)
    /\ UNCHANGED <<code, codeLeft, lockLeft, wrong, crashes>>

\* Mutant: the counter is forgotten, and the lock is not set.
LockForgets(s) ==
    /\ stand[s] = "lock"
    /\ attempts' = 0 /\ attemptsLeft' = 0
    /\ Ends(s)
    /\ UNCHANGED <<code, codeLeft, lockLeft, wrong, crashes>>

\* SETEX of the lock and DEL of whatever counter there is by now; the call fails.
Lock(s) ==
    /\ stand[s] = "lock"
    /\ lockLeft' = LockTtl
    /\ attempts' = 0 /\ attemptsLeft' = 0
    /\ Ends(s)
    /\ UNCHANGED <<code, codeLeft, wrong, crashes>>

\* Mutant: the counter of a code that was sent is left without a time to live.
ExpireFailuresOnly(s) ==
    /\ stand[s] \in {"expireSend", "expireFail"}
    /\ attemptsLeft' = IF attempts = 0 \/ stand[s] = "expireSend" THEN attemptsLeft
                       ELSE AttemptTtl
    /\ IF stand[s] = "expireSend" THEN Stays(s, "store") ELSE Ends(s)
    /\ UNCHANGED <<code, codeLeft, attempts, lockLeft, wrong, crashes>>

\* Mutant: an EXPIRE sets the time of a counter that is gone.
ExpireBlindly(s) ==
    /\ stand[s] \in {"expireSend", "expireFail"}
    /\ attemptsLeft' = AttemptTtl
    /\ IF stand[s] = "expireSend" THEN Stays(s, "store") ELSE Ends(s)
    /\ UNCHANGED <<code, codeLeft, attempts, lockLeft, wrong, crashes>>

\* EXPIRE, of whatever counter there is by now.
Expire(s) ==
    /\ stand[s] \in {"expireSend", "expireFail"}
    /\ attemptsLeft' = IF attempts = 0 THEN 0 ELSE AttemptTtl
    /\ IF stand[s] = "expireSend" THEN Stays(s, "store") ELSE Ends(s)
    /\ UNCHANGED <<code, codeLeft, attempts, lockLeft, wrong, crashes>>

\* SETEX of the code; the mail that carries it may fail, and the code stays.
Store(s, c) ==
    /\ stand[s] = "store"
    /\ code' = c /\ codeLeft' = CodeTtl
    /\ wrong' = 0
    /\ Ends(s)
    /\ UNCHANGED <<attempts, attemptsLeft, lockLeft, crashes>>

-----------------------------------------------------------------------------

Less(left) == IF left = 0 THEN 0 ELSE left - 1
InFlight == {s \in Slots : stand[s] # "idle"}

Tick ==
    /\ old = {}
    /\ old' = InFlight
    /\ codeLeft' = Less(codeLeft)
    /\ code' = IF codeLeft <= 1 THEN NoCode ELSE code
    /\ wrong' = IF codeLeft <= 1 THEN 0 ELSE wrong
    /\ attemptsLeft' = IF attemptsLeft = Forever THEN Forever ELSE Less(attemptsLeft)
    /\ attempts' = IF attemptsLeft = 1 THEN 0 ELSE attempts
    /\ lockLeft' = Less(lockLeft)
    /\ UNCHANGED <<stand, guess, crashes>>

\* Every call is lost, Redis keeps its keys.
Crash ==
    /\ crashes < MaxCrashes
    /\ crashes' = crashes + 1
    /\ stand' = [s \in Slots |-> "idle"]
    /\ guess' = [s \in Slots |-> NoCode]
    /\ old' = {}
    /\ UNCHANGED <<keyVars, wrong>>

Next ==
    \/ \E s \in Slots :
          \/ Send(s) \/ CheckPin(s)
          \/ \E g \in Codes : Verify(s, g) \/ Store(s, g)
          \/ Compare(s) \/ Clear(s) \/ IncrementAttempt(s) \/ Expire(s) \/ Lock(s)
    \/ Tick \/ Crash

Spec == Init /\ [][Next]_vars

-----------------------------------------------------------------------------
(* Properties *)

\* However the calls of a user overlap, the wrong codes compared with one code
\* are bounded by the limit: the counter may start once again while the code
\* lives, because it was begun before it, and each call that had passed the lock
\* before it was set, even past the limit, may add one.  A crash may forget the
\* attempts, or the locks, of the calls it ends.
GuessesBounded ==
    wrong <= 2 * MaxAttempts + Cardinality(Slots) * (1 + crashes)

\* A counter that no EXPIRE will ever be set on, so that attempts of different
\* days add up to a lock, takes a crash between INCR and EXPIRE.
CounterExpires ==
    attemptsLeft = Forever =>
        \/ \E s \in Slots : stand[s] \in {"expireSend", "expireFail"}
        \/ crashes > 0
=============================================================================
