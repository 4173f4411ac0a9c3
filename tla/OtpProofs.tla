----------------------------- MODULE OtpProofs -----------------------------
(***************************************************************************)
(* Theorems about Otp, for any number of overlapping calls, any codes, any *)
(* limit, and any times that keep the order of redisConf.                  *)
(***************************************************************************)
EXTENDS Otp, FiniteSetTheorems, TLAPS

\* The calls about to compare their code, those about to count a failure, and
\* those that have counted one past the limit and are about to lock.
Getting == {s \in Slots : stand[s] = "get"}
Failing == {s \in Slots : stand[s] = "fail"}
Locking == {s \in Slots : stand[s] = "lock"}

NothingWrongWithNoCode == code = NoCode => wrong = 0

\* What a crash can forget, of the calls there may be.
Lost == Cardinality(Slots) * crashes

\* The counter is past the limit by no more than the calls about to lock, those
\* that crashed before they did included.
Overrun == attempts <= MaxAttempts + Cardinality(Locking) + Lost

\* Where the wrong codes went: the lock was set, and outlasts the code, so that
\* only the calls that had passed it may still guess; or all of them are in the
\* counter, but for those under way and those a crash forgot; or the counter has
\* started again, and will outlast the code.
Accounted ==
    \/ /\ lockLeft >= codeLeft
       /\ wrong + Cardinality(Getting) <= 2 * MaxAttempts + Cardinality(Slots) + Lost
    \/ /\ wrong <= attempts + Cardinality(Failing) + Lost
       /\ wrong <= MaxAttempts + Cardinality(Locking) + Cardinality(Failing) + Lost
    \/ /\ attempts = 0 \/ attemptsLeft >= codeLeft
       /\ wrong <= MaxAttempts + attempts + Cardinality(Locking) + Cardinality(Failing) + Lost
       /\ wrong <= 2 * MaxAttempts + Cardinality(Locking) + Cardinality(Failing) + Lost

IInv == TypeOK /\ CounterExpires /\ NothingWrongWithNoCode /\ Overrun /\ Accounted

USE OtpAssumption, TimesOfConf

LEMMA Times ==
    /\ MaxAttempts \in Nat /\ LockTtl \in Nat /\ CodeTtl \in Nat /\ AttemptTtl \in Nat
    /\ MaxAttempts > 0 /\ LockTtl > 0 /\ CodeTtl > 0 /\ AttemptTtl > 0
    /\ Forever = AttemptTtl + 1 /\ CodeTtl <= AttemptTtl /\ CodeTtl <= LockTtl
BY DEF Forever

\* What the arithmetic of the invariant is about.
LEMMA Numbers ==
    ASSUME TypeOK
    PROVE  /\ codeLeft \in Nat /\ attempts \in Nat /\ attemptsLeft \in Nat /\ lockLeft \in Nat
           /\ codeLeft <= CodeTtl /\ attemptsLeft <= Forever
           /\ wrong \in Nat /\ crashes \in Nat /\ Cardinality(Slots) \in Nat
<1>1. crashes \in Nat /\ Cardinality(Slots) \in Nat BY FS_CardinalityType DEF TypeOK
<1>2. MaxAttempts + Cardinality(Slots) * (1 + crashes) \in Nat BY <1>1, Times
<1> QED BY <1>1, <1>2, Times DEF TypeOK

LEMMA SlotsCounted == Cardinality(Slots) \in Nat
BY FS_CardinalityType

LEMMA LostCounted == ASSUME TypeOK PROVE Lost \in Nat
BY Numbers DEF Lost

LEMMA Counts ==
    /\ IsFiniteSet(Getting) /\ IsFiniteSet(Failing) /\ IsFiniteSet(Locking)
    /\ Cardinality(Getting) \in Nat /\ Cardinality(Failing) \in Nat /\ Cardinality(Locking) \in Nat
    /\ Cardinality(Getting) + Cardinality(Failing) + Cardinality(Locking) <= Cardinality(Slots)
<1>1. /\ Getting \in SUBSET Slots /\ Failing \in SUBSET Slots /\ Locking \in SUBSET Slots
      /\ (Getting \cup Failing) \cup Locking \in SUBSET Slots
  BY DEF Getting, Failing, Locking
<1>2. IsFiniteSet(Getting) /\ IsFiniteSet(Failing) /\ IsFiniteSet(Locking) BY <1>1, FS_Subset
<1>3. /\ Cardinality(Getting) \in Nat /\ Cardinality(Failing) \in Nat /\ Cardinality(Locking) \in Nat
  BY <1>2, FS_CardinalityType
<1>4. Cardinality(Getting \cup Failing) = Cardinality(Getting) + Cardinality(Failing)
      /\ IsFiniteSet(Getting \cup Failing)
  <2>1. Getting \cap Failing = {} BY DEF Getting, Failing
  <2>2. Cardinality(Getting \cap Failing) = 0 BY <2>1, FS_EmptySet
  <2> QED BY <1>2, <1>3, <2>2, FS_Union
<1>5. Cardinality((Getting \cup Failing) \cup Locking)
        = Cardinality(Getting \cup Failing) + Cardinality(Locking)
  <2>1. (Getting \cup Failing) \cap Locking = {} BY DEF Getting, Failing, Locking
  <2>2. Cardinality((Getting \cup Failing) \cap Locking) = 0 BY <2>1, FS_EmptySet
  <2>3. Cardinality(Getting \cup Failing) \in Nat BY <1>3, <1>4
  <2>4. Cardinality((Getting \cup Failing) \cup Locking)
          = Cardinality(Getting \cup Failing) + Cardinality(Locking)
            - Cardinality((Getting \cup Failing) \cap Locking)
    BY <1>2, <1>4, FS_Union
  <2> QED BY <1>3, <2>2, <2>3, <2>4
<1>6. Cardinality((Getting \cup Failing) \cup Locking) <= Cardinality(Slots) BY <1>1, FS_Subset
<1> QED BY <1>2, <1>3, <1>4, <1>5, <1>6

Count(place, step) == IF place = step THEN 1 ELSE 0

\* A slot goes from one place to the next.
LEMMA SetMoves ==
    ASSUME NEW A \in SUBSET Slots, NEW B \in SUBSET Slots, NEW s \in Slots,
           \A t \in Slots \ {s} : t \in A <=> t \in B
    PROVE  Cardinality(B) = Cardinality(A) + (IF s \in B THEN 1 ELSE 0) - (IF s \in A THEN 1 ELSE 0)
<1>1. IsFiniteSet(A) BY FS_Subset
<1>2. Cardinality(A) \in Nat BY <1>1, FS_CardinalityType
<1>3. B = IF s \in B THEN A \cup {s} ELSE A \ {s} OBVIOUS
<1>4. Cardinality(A \cup {s}) = IF s \in A THEN Cardinality(A) ELSE Cardinality(A) + 1
  BY <1>1, FS_AddElement
<1>5. Cardinality(A \ {s}) = IF s \in A THEN Cardinality(A) - 1 ELSE Cardinality(A)
  BY <1>1, FS_RemoveElement
<1>6. CASE s \in B
  <2>1. B = A \cup {s} BY <1>6
  <2>2. Cardinality(B) = IF s \in A THEN Cardinality(A) ELSE Cardinality(A) + 1 BY <1>4, <2>1
  <2> QED BY <1>2, <1>6, <2>2
<1>7. CASE s \notin B
  <2>1. B = A \ {s} BY <1>7
  <2>2. Cardinality(B) = IF s \in A THEN Cardinality(A) - 1 ELSE Cardinality(A) BY <1>5, <2>1
  <2> QED BY <1>2, <1>7, <2>2
<1> QED BY <1>6, <1>7

LEMMA SlotMoves ==
    ASSUME TypeOK, NEW s \in Slots, NEW next, stand' = [stand EXCEPT ![s] = next]
    PROVE  /\ Cardinality(Getting)' = Cardinality(Getting) + Count("get", next) - Count("get", stand[s])
           /\ Cardinality(Failing)' = Cardinality(Failing) + Count("fail", next) - Count("fail", stand[s])
           /\ Cardinality(Locking)' = Cardinality(Locking) + Count("lock", next) - Count("lock", stand[s])
<1>1. \A t \in Slots : stand'[t] = IF t = s THEN next ELSE stand[t] BY DEF TypeOK
<1>2. Cardinality(Getting)' = Cardinality(Getting) + Count("get", next) - Count("get", stand[s])
  <2> DEFINE B == Getting'
  <2>1. Getting \in SUBSET Slots /\ B \in SUBSET Slots BY DEF Getting
  <2>2. \A t \in Slots \ {s} : t \in Getting <=> t \in B BY <1>1 DEF Getting
  <2>3. (s \in Getting <=> stand[s] = "get") /\ (s \in B <=> next = "get") BY <1>1 DEF Getting
  <2> HIDE DEF B
  <2>4. Cardinality(B) = Cardinality(Getting) + (IF s \in B THEN 1 ELSE 0)
                                              - (IF s \in Getting THEN 1 ELSE 0)
    BY <2>1, <2>2, SetMoves
  <2> QED BY <2>3, <2>4 DEF Count, B
<1>3. Cardinality(Failing)' = Cardinality(Failing) + Count("fail", next) - Count("fail", stand[s])
  <2> DEFINE B == Failing'
  <2>1. Failing \in SUBSET Slots /\ B \in SUBSET Slots BY DEF Failing
  <2>2. \A t \in Slots \ {s} : t \in Failing <=> t \in B BY <1>1 DEF Failing
  <2>3. (s \in Failing <=> stand[s] = "fail") /\ (s \in B <=> next = "fail") BY <1>1 DEF Failing
  <2> HIDE DEF B
  <2>4. Cardinality(B) = Cardinality(Failing) + (IF s \in B THEN 1 ELSE 0)
                                              - (IF s \in Failing THEN 1 ELSE 0)
    BY <2>1, <2>2, SetMoves
  <2> QED BY <2>3, <2>4 DEF Count, B
<1>4. Cardinality(Locking)' = Cardinality(Locking) + Count("lock", next) - Count("lock", stand[s])
  <2> DEFINE B == Locking'
  <2>1. Locking \in SUBSET Slots /\ B \in SUBSET Slots BY DEF Locking
  <2>2. \A t \in Slots \ {s} : t \in Locking <=> t \in B BY <1>1 DEF Locking
  <2>3. (s \in Locking <=> stand[s] = "lock") /\ (s \in B <=> next = "lock") BY <1>1 DEF Locking
  <2> HIDE DEF B
  <2>4. Cardinality(B) = Cardinality(Locking) + (IF s \in B THEN 1 ELSE 0)
                                              - (IF s \in Locking THEN 1 ELSE 0)
    BY <2>1, <2>2, SetMoves
  <2> QED BY <2>3, <2>4 DEF Count, B
<1> QED BY <1>2, <1>3, <1>4

\* The counter keeps its type, past the limit as it may be.
LEMMA AttemptsBounded ==
    ASSUME (crashes \in Nat)', (attempts \in Nat)', Overrun'
    PROVE  (attempts \in 0 .. MaxAttempts + Cardinality(Slots) * (1 + crashes))'
<1>1. Cardinality(Locking)' \in Nat /\ Cardinality(Locking)' <= Cardinality(Slots)
  <2>1. Locking' \in SUBSET Slots BY DEF Locking
  <2> QED BY <2>1, FS_Subset, FS_CardinalityType
<1>2. MaxAttempts + Cardinality(Slots) * (1 + crashes')
        = MaxAttempts + Cardinality(Slots) + Lost'
  BY SlotsCounted, Times DEF Lost
<1>3. Lost' \in Nat BY SlotsCounted DEF Lost
<1>4. attempts' <= MaxAttempts + Cardinality(Slots) + Lost'
  BY <1>1, <1>3, SlotsCounted, Times DEF Overrun
<1> QED BY <1>2, <1>3, <1>4, SlotsCounted, Times

\* What the sums of Accounted are made of.
LEMMA Amounts ==
    ASSUME TypeOK
    PROVE  /\ Cardinality(Getting) \in Nat /\ Cardinality(Failing) \in Nat
           /\ Cardinality(Locking) \in Nat /\ Cardinality(Slots) \in Nat /\ Lost \in Nat
           /\ Cardinality(Getting) + Cardinality(Failing) + Cardinality(Locking) <= Cardinality(Slots)
BY Counts, SlotsCounted, LostCounted

LEMMA InitIInv == Init => IInv
<1> SUFFICES ASSUME Init PROVE IInv OBVIOUS
<1>1. TypeOK
  <2>1. 0 \in 0 .. MaxAttempts + Cardinality(Slots) * (1 + 0) BY SlotsCounted, Times
  <2> QED BY <2>1, Times DEF Init, TypeOK
<1>2. CounterExpires /\ NothingWrongWithNoCode
  BY Times DEF Init, CounterExpires, NothingWrongWithNoCode
<1>3. Lost = 0 BY SlotsCounted DEF Init, Lost
<1>4. Accounted BY <1>3, Counts, Times DEF Init, Accounted
<1>5. Overrun BY <1>3, Counts, Times DEF Init, Overrun
<1> QED BY <1>1, <1>2, <1>4, <1>5 DEF IInv

-----------------------------------------------------------------------------
(* A call arrives, or compares *)

\* The keys stay as they are: a call starts, or has compared its code.
LEMMA GuessKeeps ==
    ASSUME IInv, NEW s \in Slots,
           Send(s) \/ CheckPin(s) \/ Compare(s) \/ \E g \in Codes : Verify(s, g)
    PROVE  IInv'
<1>1. TypeOK /\ CounterExpires /\ NothingWrongWithNoCode /\ Overrun /\ Accounted BY DEF IInv
<1>2. PICK next \in {"idle", "send", "get", "fail", "clear"} :
        /\ stand' = [stand EXCEPT ![s] = next]
        /\ UNCHANGED <<keyVars, crashes>>
        /\ \/ /\ next \in {"send", "get", "fail"} /\ stand[s] = "idle" /\ lockLeft = 0
              /\ wrong' = wrong
           \/ /\ next = "fail" /\ stand[s] = "get" /\ code # NoCode
              /\ wrong' = wrong + 1
           \/ next \in {"idle", "clear"} /\ stand[s] = "get" /\ wrong' = wrong
  BY DEF Send, CheckPin, Compare, Verify, Stays, Ends
<1>3. TypeOK'
  <2>1. guess' \in [Slots -> Codes \cup {NoCode}] /\ old' \subseteq Slots
    BY <1>1 DEF TypeOK, Send, CheckPin, Compare, Verify, Stays, Ends
  <2>2. wrong' \in Nat BY <1>1, <1>2 DEF TypeOK
  <2> QED BY <1>1, <1>2, <2>1, <2>2 DEF TypeOK, keyVars
<1>4. CounterExpires' BY <1>1, <1>2 DEF CounterExpires, TypeOK, keyVars
<1>5. NothingWrongWithNoCode' BY <1>1, <1>2 DEF NothingWrongWithNoCode, keyVars
<1>6. /\ Cardinality(Getting)' = Cardinality(Getting) + Count("get", next) - Count("get", stand[s])
      /\ Cardinality(Failing)' = Cardinality(Failing) + Count("fail", next) - Count("fail", stand[s])
      /\ Cardinality(Locking)' = Cardinality(Locking) + Count("lock", next) - Count("lock", stand[s])
  BY <1>1, <1>2, SlotMoves
<1>7. /\ attempts' = attempts /\ attemptsLeft' = attemptsLeft /\ lockLeft' = lockLeft
      /\ codeLeft' = codeLeft /\ crashes' = crashes /\ Lost' = Lost
  BY <1>2 DEF keyVars, Lost
<1>8. Cardinality(Locking)' = Cardinality(Locking)
  BY <1>1, <1>2, <1>6, Amounts DEF Count
<1>9. Overrun' BY <1>1, <1>7, <1>8 DEF Overrun
<1>10. Accounted'
  <2>1. CASE next \in {"send", "get", "fail"} /\ stand[s] = "idle" /\ lockLeft = 0 /\ wrong' = wrong
    \* The lock has outlasted the code.
    <3>1. lockLeft >= codeLeft => wrong = 0
      BY <1>1, <2>1, Numbers DEF TypeOK, NothingWrongWithNoCode
    <3>2. Cardinality(Failing)' >= Cardinality(Failing) /\ Cardinality(Failing)' \in Nat
      BY <1>1, <1>6, <2>1, Amounts DEF Count
    <3> QED BY <1>1, <1>7, <1>8, <2>1, <3>1, <3>2, Amounts, Numbers, Times DEF Accounted
  <2>2. CASE next = "fail" /\ stand[s] = "get" /\ wrong' = wrong + 1
    <3>1. /\ Cardinality(Failing)' = Cardinality(Failing) + 1
          /\ Cardinality(Getting)' = Cardinality(Getting) - 1
      BY <1>1, <1>6, <2>2, Amounts DEF Count
    <3> QED BY <1>1, <1>7, <1>8, <2>2, <3>1, Amounts, Numbers, Times DEF Accounted
  <2>3. CASE next \in {"idle", "clear"} /\ stand[s] = "get" /\ wrong' = wrong
    <3>1. /\ Cardinality(Failing)' = Cardinality(Failing)
          /\ Cardinality(Getting)' = Cardinality(Getting) - 1
      BY <1>1, <1>6, <2>3, Amounts DEF Count
    <3> QED BY <1>1, <1>7, <1>8, <2>3, <3>1, Amounts, Numbers, Times DEF Accounted
  <2> QED BY <1>2, <2>1, <2>2, <2>3
<1> QED BY <1>3, <1>4, <1>5, <1>9, <1>10 DEF IInv

-----------------------------------------------------------------------------
(* The counter *)

LEMMA IncrementAttemptKeeps == ASSUME IInv, NEW s \in Slots, IncrementAttempt(s) PROVE IInv'
<1>1. TypeOK /\ CounterExpires /\ NothingWrongWithNoCode /\ Overrun /\ Accounted BY DEF IInv
<1>2. PICK next \in {"idle", "expireSend", "expireFail", "lock", "store"} :
        /\ stand' = [stand EXCEPT ![s] = next]
        /\ \/ attempts = 0 /\ next \in {"expireSend", "expireFail"}
           \/ attempts # 0 /\ attempts < MaxAttempts /\ next \in {"idle", "store"}
           \/ attempts >= MaxAttempts /\ next = "lock"
  <2> USE DEF Stays, Ends
  <2>1. attempts \in Nat BY <1>1, Numbers
  <2>2. CASE attempts = 0 /\ (Stays(s, "expireSend") \/ Stays(s, "expireFail")) BY <2>2
  <2>3. CASE attempts + 1 > MaxAttempts /\ Stays(s, "lock") BY <2>1, <2>3, Times
  <2>4. CASE attempts \in 1 .. MaxAttempts - 1 /\ (Stays(s, "store") \/ Ends(s))
    BY <2>1, <2>4, Times
  <2> QED BY <2>2, <2>3, <2>4 DEF IncrementAttempt
<1>3. /\ stand[s] \in {"send", "fail"}
      /\ UNCHANGED <<code, codeLeft, lockLeft, wrong, crashes>>
      /\ attempts' = attempts + 1 /\ attempts' \in Nat
      /\ attemptsLeft' = IF attempts = 0 THEN Forever ELSE attemptsLeft
      /\ Lost' = Lost
  BY <1>1, Numbers DEF IncrementAttempt, Lost
<1>4. /\ Cardinality(Getting)' = Cardinality(Getting)
      /\ Cardinality(Failing)' = Cardinality(Failing) - Count("fail", stand[s])
      /\ Cardinality(Locking)' = Cardinality(Locking) + (IF attempts >= MaxAttempts THEN 1 ELSE 0)
      /\ Count("fail", stand[s]) \in {0, 1}
  <2>1. /\ Cardinality(Getting)' = Cardinality(Getting) + Count("get", next) - Count("get", stand[s])
        /\ Cardinality(Failing)' = Cardinality(Failing) + Count("fail", next) - Count("fail", stand[s])
        /\ Cardinality(Locking)' = Cardinality(Locking) + Count("lock", next) - Count("lock", stand[s])
    BY <1>1, <1>2, SlotMoves
  <2>2. /\ Count("get", next) = 0 /\ Count("get", stand[s]) = 0 /\ Count("fail", next) = 0
        /\ Count("lock", stand[s]) = 0 /\ Count("fail", stand[s]) \in {0, 1}
    BY <1>2, <1>3 DEF Count
  <2>3. Count("lock", next) = IF attempts >= MaxAttempts THEN 1 ELSE 0
    BY <1>1, <1>2, Numbers, Times DEF Count
  <2> QED BY <1>1, <2>1, <2>2, <2>3, Amounts
<1>5. Overrun' BY <1>1, <1>3, <1>4, Amounts, Numbers, Times DEF Overrun
<1>6. TypeOK'
  <2>1. guess' \in [Slots -> Codes \cup {NoCode}] /\ old' \subseteq Slots
    BY <1>1 DEF TypeOK, IncrementAttempt, Stays, Ends
  <2>2. (attempts \in 0 .. MaxAttempts + Cardinality(Slots) * (1 + crashes))'
    BY <1>1, <1>3, <1>5, AttemptsBounded, Numbers
  <2>3. attemptsLeft' \in 0 .. Forever /\ (attempts' = 0 <=> attemptsLeft' = 0)
    BY <1>1, <1>3, Numbers, Times DEF TypeOK
  <2>4. stand' \in [Slots -> {"idle", "send", "get", "fail", "clear", "expireSend",
                              "expireFail", "lock", "store"}]
    BY <1>1, <1>2 DEF TypeOK
  <2>5. /\ code' \in Codes \cup {NoCode} /\ codeLeft' \in 0 .. CodeTtl
        /\ (code' = NoCode <=> codeLeft' = 0) /\ lockLeft' \in 0 .. LockTtl
        /\ wrong' \in Nat /\ crashes' \in 0 .. MaxCrashes
    BY <1>1, <1>3 DEF TypeOK
  <2> QED BY <2>1, <2>2, <2>3, <2>4, <2>5 DEF TypeOK
<1>7. CounterExpires'
  <2>1. \A t \in Slots : stand'[t] = IF t = s THEN next ELSE stand[t] BY <1>1, <1>2 DEF TypeOK
  <2> SUFFICES ASSUME attemptsLeft' = Forever
               PROVE  (\E t \in Slots : stand'[t] \in {"expireSend", "expireFail"}) \/ crashes' > 0
    BY DEF CounterExpires, Forever
  <2>2. CASE attempts = 0 BY <1>2, <2>1, <2>2, Times
  <2>3. CASE attempts # 0
    <3>1. attemptsLeft = Forever BY <1>3, <2>3, Numbers, <1>1, Times
    <3>2. CASE crashes > 0 BY <1>3, <3>2
    <3>3. ASSUME NEW t \in Slots, stand[t] \in {"expireSend", "expireFail"}
          PROVE  stand'[t] \in {"expireSend", "expireFail"}
      BY <1>3, <2>1, <3>3
    <3> QED BY <1>1, <3>1, <3>2, <3>3 DEF CounterExpires
  <2> QED BY <2>2, <2>3
<1>8. NothingWrongWithNoCode' BY <1>1, <1>3 DEF NothingWrongWithNoCode
<1>9. Accounted'
  <2>1. attempts = 0 \/ attemptsLeft >= codeLeft => attemptsLeft' >= codeLeft'
    BY <1>1, <1>3, Numbers, Times
  <2>2. CASE lockLeft >= codeLeft
             /\ wrong + Cardinality(Getting) <= 2 * MaxAttempts + Cardinality(Slots) + Lost
    BY <1>3, <1>4, <2>2 DEF Accounted
  <2>3. CASE /\ wrong <= attempts + Cardinality(Failing) + Lost
             /\ wrong <= MaxAttempts + Cardinality(Locking) + Cardinality(Failing) + Lost
    <3>1. /\ wrong' <= attempts' + Cardinality(Failing)' + Lost'
          /\ wrong' <= MaxAttempts + Cardinality(Locking)' + Cardinality(Failing)' + Lost'
      BY <1>1, <1>3, <1>4, <2>3, Amounts, Numbers, Times
    <3> QED BY <3>1 DEF Accounted
  <2>4. CASE /\ attempts = 0 \/ attemptsLeft >= codeLeft
             /\ wrong <= MaxAttempts + attempts + Cardinality(Locking) + Cardinality(Failing) + Lost
             /\ wrong <= 2 * MaxAttempts + Cardinality(Locking) + Cardinality(Failing) + Lost
    <3>1. /\ wrong' <= MaxAttempts + attempts' + Cardinality(Locking)' + Cardinality(Failing)' + Lost'
          /\ wrong' <= 2 * MaxAttempts + Cardinality(Locking)' + Cardinality(Failing)' + Lost'
      BY <1>1, <1>3, <1>4, <2>4, Amounts, Numbers, Times
    <3> QED BY <2>1, <2>4, <3>1 DEF Accounted
  <2> QED BY <1>1, <2>2, <2>3, <2>4 DEF Accounted
<1> QED BY <1>5, <1>6, <1>7, <1>8, <1>9 DEF IInv

\* What was in the counter is forgotten, and only the calls that are there may
\* still guess.
LEMMA LockKeeps == ASSUME IInv, NEW s \in Slots, Lock(s) PROVE IInv'
<1>1. TypeOK /\ NothingWrongWithNoCode /\ Overrun /\ Accounted BY DEF IInv
<1>2. /\ stand' = [stand EXCEPT ![s] = "idle"] /\ stand[s] = "lock"
      /\ lockLeft' = LockTtl /\ attempts' = 0 /\ attemptsLeft' = 0
      /\ UNCHANGED <<code, codeLeft, wrong, crashes>> /\ Lost' = Lost
  BY DEF Lock, Ends, Lost
<1>3. /\ Cardinality(Getting)' = Cardinality(Getting)
      /\ Cardinality(Locking)' = Cardinality(Locking) - 1
  <2>1. /\ Cardinality(Getting)'
             = Cardinality(Getting) + Count("get", "idle") - Count("get", stand[s])
        /\ Cardinality(Locking)'
             = Cardinality(Locking) + Count("lock", "idle") - Count("lock", stand[s])
    BY <1>1, <1>2, SlotMoves
  <2> QED BY <1>1, <1>2, <2>1, Amounts DEF Count
<1>4. Cardinality(Locking)' \in Nat
  <2>1. Locking' \in SUBSET Slots BY DEF Locking
  <2> QED BY <2>1, FS_Subset, FS_CardinalityType
<1>5. Overrun' BY <1>1, <1>2, <1>4, Amounts, Times DEF Overrun
<1>6. TypeOK'
  <2>1. guess' \in [Slots -> Codes \cup {NoCode}] /\ old' \subseteq Slots
    BY <1>1 DEF TypeOK, Lock, Ends
  <2>2. (attempts \in 0 .. MaxAttempts + Cardinality(Slots) * (1 + crashes))'
    BY <1>1, <1>2, <1>5, AttemptsBounded, Numbers
  <2>3. stand' \in [Slots -> {"idle", "send", "get", "fail", "clear", "expireSend",
                              "expireFail", "lock", "store"}]
    BY <1>1, <1>2 DEF TypeOK
  <2>4. attemptsLeft' \in 0 .. Forever /\ lockLeft' \in 0 .. LockTtl BY <1>2, Times
  <2> QED BY <1>1, <1>2, <2>1, <2>2, <2>3, <2>4 DEF TypeOK
<1>7. CounterExpires' BY <1>2, Times DEF CounterExpires
<1>8. NothingWrongWithNoCode' BY <1>1, <1>2 DEF NothingWrongWithNoCode
<1>9. Accounted'
  <2>1. lockLeft' >= codeLeft' BY <1>1, <1>2, Numbers, Times
  <2>2. wrong + Cardinality(Getting) <= 2 * MaxAttempts + Cardinality(Slots) + Lost
    BY <1>1, Amounts, Numbers, Times DEF Accounted
  <2> QED BY <1>2, <1>3, <2>1, <2>2 DEF Accounted
<1> QED BY <1>5, <1>6, <1>7, <1>8, <1>9 DEF IInv

LEMMA ExpireKeeps == ASSUME IInv, NEW s \in Slots, Expire(s) PROVE IInv'
<1>1. TypeOK /\ CounterExpires /\ NothingWrongWithNoCode /\ Overrun /\ Accounted BY DEF IInv
<1>2. PICK next \in {"idle", "store"} : stand' = [stand EXCEPT ![s] = next]
  BY DEF Expire, Stays, Ends
<1>3. /\ stand[s] \in {"expireSend", "expireFail"}
      /\ attemptsLeft' = IF attempts = 0 THEN 0 ELSE AttemptTtl
      /\ UNCHANGED <<code, codeLeft, attempts, lockLeft, wrong, crashes>>
  BY DEF Expire
<1>4. TypeOK'
  <2>1. guess' \in [Slots -> Codes \cup {NoCode}] /\ old' \subseteq Slots
    BY <1>1 DEF TypeOK, Expire, Stays, Ends
  <2>2. attemptsLeft' \in 0 .. Forever /\ (attempts' = 0 <=> attemptsLeft' = 0)
    BY <1>3, Times
  <2> QED BY <1>1, <1>2, <1>3, <2>1, <2>2 DEF TypeOK
<1>5. CounterExpires' BY <1>3, Times DEF CounterExpires
<1>6. NothingWrongWithNoCode' BY <1>1, <1>3 DEF NothingWrongWithNoCode
<1>7. /\ Cardinality(Failing)' = Cardinality(Failing)
      /\ Cardinality(Getting)' = Cardinality(Getting)
      /\ Cardinality(Locking)' = Cardinality(Locking)
  <2>1. /\ Cardinality(Getting)' = Cardinality(Getting) + Count("get", next) - Count("get", stand[s])
        /\ Cardinality(Failing)' = Cardinality(Failing) + Count("fail", next) - Count("fail", stand[s])
        /\ Cardinality(Locking)' = Cardinality(Locking) + Count("lock", next) - Count("lock", stand[s])
    BY <1>1, <1>2, SlotMoves
  <2>2. \A place \in {"get", "fail", "lock"} : Count(place, next) = 0 /\ Count(place, stand[s]) = 0
    BY <1>2, <1>3 DEF Count
  <2> QED BY <1>1, <2>1, <2>2, Amounts
<1>8. Lost' = Lost BY <1>3 DEF Lost
<1>9. Overrun' BY <1>1, <1>3, <1>7, <1>8 DEF Overrun
<1>10. Accounted'
  <2>1. attempts = 0 \/ attemptsLeft >= codeLeft => attempts' = 0 \/ attemptsLeft' >= codeLeft'
    BY <1>1, <1>3, Numbers, Times
  <2> QED BY <1>1, <1>3, <1>7, <1>8, <2>1 DEF Accounted
<1> QED BY <1>4, <1>5, <1>6, <1>9, <1>10 DEF IInv

-----------------------------------------------------------------------------
(* The code *)

\* No wrong code was compared with a code that is new, or gone.
LEMMA NewCodeAccounts ==
    ASSUME TypeOK', wrong' = 0 PROVE NothingWrongWithNoCode' /\ Accounted'
<1>1. Cardinality(Failing)' \in Nat /\ Cardinality(Locking)' \in Nat
  <2>1. Failing' \in SUBSET Slots /\ Locking' \in SUBSET Slots BY DEF Failing, Locking
  <2> QED BY <2>1, FS_Subset, FS_CardinalityType
<1>2. /\ attempts' \in 0 .. MaxAttempts + Cardinality(Slots) * (1 + crashes')
      /\ crashes' \in Nat
  BY DEF TypeOK
<1>3. Lost' \in Nat BY <1>2, SlotsCounted DEF Lost
<1>4. attempts' \in Nat BY <1>2, SlotsCounted, Times
<1> QED BY <1>1, <1>3, <1>4, Times DEF NothingWrongWithNoCode, Accounted

LEMMA CodeKeeps ==
    ASSUME IInv, NEW s \in Slots, Clear(s) \/ \E c \in Codes : Store(s, c)
    PROVE  IInv'
<1>1. TypeOK /\ CounterExpires /\ Overrun BY DEF IInv
<1>2. /\ stand' = [stand EXCEPT ![s] = "idle"] /\ stand[s] \in {"clear", "store"}
      /\ wrong' = 0 /\ crashes' = crashes /\ lockLeft' = lockLeft
      /\ \/ code' = NoCode /\ codeLeft' = 0 /\ attempts' = 0 /\ attemptsLeft' = 0
         \/ /\ code' \in Codes /\ codeLeft' = CodeTtl
            /\ attempts' = attempts /\ attemptsLeft' = attemptsLeft
  BY DEF Clear, Store, Ends
<1>3. Cardinality(Locking)' = Cardinality(Locking)
  <2>1. Cardinality(Locking)' = Cardinality(Locking) + Count("lock", "idle") - Count("lock", stand[s])
    BY <1>1, <1>2, SlotMoves
  <2> QED BY <1>1, <1>2, <2>1, Amounts DEF Count
<1>4. Overrun'
  <2>1. Lost' = Lost BY <1>2 DEF Lost
  <2> QED BY <1>1, <1>2, <1>3, <2>1, Amounts, Times DEF Overrun
<1>5. TypeOK'
  <2>1. guess' \in [Slots -> Codes \cup {NoCode}] /\ old' \subseteq Slots
    BY <1>1 DEF TypeOK, Clear, Store, Ends
  <2>2. stand' \in [Slots -> {"idle", "send", "get", "fail", "clear", "expireSend",
                              "expireFail", "lock", "store"}]
    BY <1>1, <1>2 DEF TypeOK
  <2>3. attempts' \in Nat /\ (attempts' = 0 <=> attemptsLeft' = 0) /\ attemptsLeft' \in 0 .. Forever
    BY <1>1, <1>2, Numbers, Times DEF TypeOK
  <2>4. (attempts \in 0 .. MaxAttempts + Cardinality(Slots) * (1 + crashes))'
    BY <1>1, <1>2, <1>4, <2>3, AttemptsBounded, Numbers
  <2>5. /\ code' \in Codes \cup {NoCode} /\ codeLeft' \in 0 .. CodeTtl
        /\ (code' = NoCode <=> codeLeft' = 0)
    BY <1>2, Times
  <2> QED BY <1>1, <1>2, <2>1, <2>2, <2>3, <2>4, <2>5 DEF TypeOK
<1>6. CounterExpires'
  <2>1. \A t \in Slots : stand'[t] = IF t = s THEN "idle" ELSE stand[t] BY <1>1, <1>2 DEF TypeOK
  <2>2. CASE attemptsLeft' = 0 BY <2>2, Times DEF CounterExpires
  <2>3. CASE attemptsLeft' = attemptsLeft BY <1>1, <1>2, <2>1, <2>3 DEF CounterExpires
  <2> QED BY <1>2, <2>2, <2>3
<1> QED BY <1>2, <1>4, <1>5, <1>6, NewCodeAccounts DEF IInv

-----------------------------------------------------------------------------
(* Time, and the crash *)

LEMMA TickKeeps == ASSUME IInv, Tick PROVE IInv'
<1>1. TypeOK /\ CounterExpires /\ NothingWrongWithNoCode /\ Overrun /\ Accounted BY DEF IInv
<1>2. UNCHANGED <<stand, guess, crashes>> /\ old' \subseteq Slots BY DEF Tick, InFlight
<1>3. /\ codeLeft' = IF codeLeft = 0 THEN 0 ELSE codeLeft - 1
      /\ code' = IF codeLeft <= 1 THEN NoCode ELSE code
      /\ wrong' = IF codeLeft <= 1 THEN 0 ELSE wrong
      /\ lockLeft' = IF lockLeft = 0 THEN 0 ELSE lockLeft - 1
      /\ attempts' = IF attemptsLeft = 1 THEN 0 ELSE attempts
      /\ attemptsLeft' = IF attemptsLeft = Forever THEN Forever
                         ELSE IF attemptsLeft = 0 THEN 0 ELSE attemptsLeft - 1
  BY DEF Tick, Less
<1>4. /\ Cardinality(Getting)' = Cardinality(Getting) /\ Cardinality(Failing)' = Cardinality(Failing)
      /\ Cardinality(Locking)' = Cardinality(Locking) /\ Lost' = Lost
  <2>1. Getting' = Getting /\ Failing' = Failing /\ Locking' = Locking
    BY <1>2 DEF Getting, Failing, Locking
  <2> QED BY <1>2, <2>1 DEF Lost
<1>5. attempts' = attempts \/ attempts' = 0 BY <1>3
<1>6. Overrun' BY <1>1, <1>4, <1>5, Amounts, Times DEF Overrun
<1>7. TypeOK'
  <2>1. /\ codeLeft' \in 0 .. CodeTtl /\ (code' = NoCode <=> codeLeft' = 0)
        /\ code' \in Codes \cup {NoCode}
    BY <1>1, <1>3, Numbers DEF TypeOK
  <2>2. attempts' \in Nat /\ attemptsLeft' \in 0 .. Forever
    BY <1>1, <1>3, Numbers, Times DEF TypeOK
  <2>3. attempts' = 0 <=> attemptsLeft' = 0 BY <1>1, <1>3, Numbers, Times DEF TypeOK
  <2>4. lockLeft' \in 0 .. LockTtl BY <1>1, <1>3 DEF TypeOK
  <2>5. wrong' \in Nat BY <1>1, <1>3, Numbers
  <2>6. (attempts \in 0 .. MaxAttempts + Cardinality(Slots) * (1 + crashes))'
    BY <1>1, <1>2, <1>6, <2>2, AttemptsBounded, Numbers
  <2> QED BY <1>1, <1>2, <2>1, <2>2, <2>3, <2>4, <2>5, <2>6 DEF TypeOK
<1>8. CounterExpires' BY <1>1, <1>2, <1>3, Numbers, Times DEF CounterExpires
<1>9. CASE codeLeft <= 1 BY <1>3, <1>6, <1>7, <1>8, <1>9, NewCodeAccounts DEF IInv
<1>10. CASE codeLeft > 1
  <2>1. NothingWrongWithNoCode' BY <1>1, <1>3, <1>10 DEF NothingWrongWithNoCode
  <2>2. wrong' = wrong /\ codeLeft' = codeLeft - 1 BY <1>1, <1>3, <1>10, Numbers
  <2>3. lockLeft >= codeLeft => lockLeft' >= codeLeft' BY <1>1, <1>3, <1>10, <2>2, Numbers
  <2>4. attempts = 0 \/ attemptsLeft >= codeLeft => attempts' = 0 \/ attemptsLeft' >= codeLeft'
    BY <1>1, <1>3, <1>10, <2>2, Numbers, Times
  <2>5. attempts = 0 \/ attemptsLeft >= codeLeft => attempts' = attempts
    BY <1>1, <1>3, <1>10, Numbers, Times
  <2>6. Accounted'
    <3>1. CASE lockLeft >= codeLeft
               /\ wrong + Cardinality(Getting) <= 2 * MaxAttempts + Cardinality(Slots) + Lost
      BY <1>4, <2>2, <2>3, <3>1 DEF Accounted
    <3>2. CASE /\ wrong <= attempts + Cardinality(Failing) + Lost
               /\ wrong <= MaxAttempts + Cardinality(Locking) + Cardinality(Failing) + Lost
      \* The counter may end here: another, begun now, will outlast the code.
      <4>1. CASE attempts' = attempts BY <1>4, <2>2, <3>2, <4>1 DEF Accounted
      <4>2. CASE attempts' = 0
        <5>1. /\ wrong' <= MaxAttempts + attempts' + Cardinality(Locking)' + Cardinality(Failing)' + Lost'
              /\ wrong' <= 2 * MaxAttempts + Cardinality(Locking)' + Cardinality(Failing)' + Lost'
          BY <1>1, <1>4, <2>2, <3>2, <4>2, Amounts, Numbers, Times
        <5> QED BY <4>2, <5>1 DEF Accounted
      <4> QED BY <1>5, <4>1, <4>2
    <3>3. CASE /\ attempts = 0 \/ attemptsLeft >= codeLeft
               /\ wrong <= MaxAttempts + attempts + Cardinality(Locking) + Cardinality(Failing) + Lost
               /\ wrong <= 2 * MaxAttempts + Cardinality(Locking) + Cardinality(Failing) + Lost
      BY <1>4, <2>2, <2>4, <2>5, <3>3 DEF Accounted
    <3> QED BY <1>1, <3>1, <3>2, <3>3 DEF Accounted
  <2> QED BY <1>6, <1>7, <1>8, <2>1, <2>6 DEF IInv
<1> QED BY <1>1, <1>9, <1>10, Numbers

LEMMA CrashKeeps == ASSUME IInv, Crash PROVE IInv'
<1>1. TypeOK /\ CounterExpires /\ NothingWrongWithNoCode /\ Overrun /\ Accounted BY DEF IInv
<1>2. /\ crashes' = crashes + 1 /\ UNCHANGED <<keyVars, wrong>>
      /\ stand' = [s \in Slots |-> "idle"]
  BY DEF Crash
<1>3. Cardinality(Getting)' = 0 /\ Cardinality(Failing)' = 0 /\ Cardinality(Locking)' = 0
  <2>1. Getting' = {} /\ Failing' = {} /\ Locking' = {} BY <1>2 DEF Getting, Failing, Locking
  <2> QED BY <2>1, FS_EmptySet
<1>4. Lost' = Lost + Cardinality(Slots) BY <1>1, <1>2, SlotsCounted, Numbers DEF Lost
<1>5. /\ attempts' = attempts /\ attemptsLeft' = attemptsLeft /\ lockLeft' = lockLeft
      /\ codeLeft' = codeLeft /\ code' = code /\ wrong' = wrong
  BY <1>2 DEF keyVars
<1>6. Overrun' BY <1>1, <1>3, <1>4, <1>5, Amounts, Numbers, Times DEF Overrun
<1>7. TypeOK'
  <2>1. (attempts \in 0 .. MaxAttempts + Cardinality(Slots) * (1 + crashes))'
    BY <1>1, <1>2, <1>5, <1>6, AttemptsBounded, Numbers
  <2>2. crashes' \in 0 .. MaxCrashes BY <1>1 DEF Crash, TypeOK
  <2> QED BY <1>1, <1>5, <2>1, <2>2 DEF TypeOK, Crash
<1>8. CounterExpires' BY <1>1, <1>2, Numbers DEF CounterExpires
<1>9. NothingWrongWithNoCode' BY <1>1, <1>5 DEF NothingWrongWithNoCode
<1>10. Accounted'
  <2>1. CASE lockLeft >= codeLeft
             /\ wrong + Cardinality(Getting) <= 2 * MaxAttempts + Cardinality(Slots) + Lost
    BY <1>1, <1>3, <1>4, <1>5, <2>1, Amounts, Numbers, Times DEF Accounted
  <2>2. CASE /\ wrong <= attempts + Cardinality(Failing) + Lost
             /\ wrong <= MaxAttempts + Cardinality(Locking) + Cardinality(Failing) + Lost
    <3>1. /\ wrong' <= attempts' + Cardinality(Failing)' + Lost'
          /\ wrong' <= MaxAttempts + Cardinality(Locking)' + Cardinality(Failing)' + Lost'
      BY <1>1, <1>3, <1>4, <1>5, <2>2, Amounts, Numbers, Times
    <3> QED BY <3>1 DEF Accounted
  <2>3. CASE /\ attempts = 0 \/ attemptsLeft >= codeLeft
             /\ wrong <= MaxAttempts + attempts + Cardinality(Locking) + Cardinality(Failing) + Lost
             /\ wrong <= 2 * MaxAttempts + Cardinality(Locking) + Cardinality(Failing) + Lost
    <3>1. /\ wrong' <= MaxAttempts + attempts' + Cardinality(Locking)' + Cardinality(Failing)' + Lost'
          /\ wrong' <= 2 * MaxAttempts + Cardinality(Locking)' + Cardinality(Failing)' + Lost'
      BY <1>1, <1>3, <1>4, <1>5, <2>3, Amounts, Numbers, Times
    <3> QED BY <1>5, <2>3, <3>1 DEF Accounted
  <2> QED BY <1>1, <2>1, <2>2, <2>3 DEF Accounted
<1> QED BY <1>6, <1>7, <1>8, <1>9, <1>10 DEF IInv

LEMMA StepIInv == IInv /\ [Next]_vars => IInv'
<1> SUFFICES ASSUME IInv, [Next]_vars PROVE IInv' OBVIOUS
<1>1. CASE UNCHANGED vars
  BY <1>1 DEF vars, keyVars, IInv, TypeOK, CounterExpires, NothingWrongWithNoCode, Overrun, Accounted,
              Getting, Failing, Locking, Lost
<1>2. ASSUME NEW s \in Slots,
             \/ Send(s) \/ CheckPin(s)
             \/ \E g \in Codes : Verify(s, g) \/ Store(s, g)
             \/ Compare(s) \/ Clear(s) \/ IncrementAttempt(s) \/ Expire(s) \/ Lock(s)
      PROVE  IInv'
  BY <1>2, GuessKeeps, IncrementAttemptKeeps, LockKeeps, ExpireKeeps, CodeKeeps
<1>3. CASE Tick \/ Crash BY <1>3, TickKeeps, CrashKeeps
<1> QED BY <1>1, <1>2, <1>3 DEF Next

LEMMA SpecIInv == Spec => []IInv
BY InitIInv, StepIInv, PTL DEF Spec

LEMMA IInvGuessesBounded == IInv => GuessesBounded
<1> SUFFICES ASSUME IInv PROVE GuessesBounded OBVIOUS
<1>1. TypeOK /\ Accounted /\ Overrun BY DEF IInv
<1>2. Cardinality(Slots) * (1 + crashes) = Cardinality(Slots) + Lost
  BY <1>1, SlotsCounted, Numbers DEF Lost
<1>3. wrong <= 2 * MaxAttempts + (Cardinality(Slots) + Lost)
  BY <1>1, Amounts, Numbers, Times DEF Accounted
<1> QED BY <1>2, <1>3 DEF GuessesBounded

-----------------------------------------------------------------------------
(* The theorems *)

\* Otp.TypeOK: a code or a counter that has no time left is gone, and one that is
\* there has some; the counter passes the limit by at most one per call, and that
\* again for every crash.
THEOREM OtpTyped == Spec => []TypeOK
<1>1. IInv => TypeOK BY DEF IInv
<1> QED BY <1>1, SpecIInv, PTL

\* However many calls overlap, a code is compared with no more wrong codes than
\* twice the limit and one more per call, or that again for every crash.
THEOREM GuessesAreBounded == Spec => []GuessesBounded
BY SpecIInv, IInvGuessesBounded, PTL

\* Without a crash between INCR and EXPIRE every counter ends.
THEOREM CountersEnd == Spec => []CounterExpires
<1>1. IInv => CounterExpires BY DEF IInv
<1> QED BY <1>1, SpecIInv, PTL

=============================================================================
