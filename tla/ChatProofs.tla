----------------------------- MODULE ChatProofs -----------------------------
(***************************************************************************)
(* Proofs about what is said: about Conversation, for any sets of requests *)
(* and agents and any number of crashes; and about Inbox, for any sets of  *)
(* calls, messages, users and guests.                                      *)
(***************************************************************************)
EXTENDS Conversation, Inbox, SequenceTheorems, TLAPS

(* What the two ways of changing the thread do to its rows. *)
LEMMA AppendedRow ==
    ASSUME NEW t \in Seq(Rows), NEW e \in Rows
    PROVE  /\ Append(t, e) \in Seq(Rows)
           /\ Len(Append(t, e)) = Len(t) + 1
           /\ \A i \in 1..Len(t) : Append(t, e)[i] = t[i]
           /\ Append(t, e)[Len(t) + 1] = e
  OBVIOUS

LEMMA RowStatusSet ==
    ASSUME NEW t \in Seq(Rows), NEW k \in 1..Len(t),
           NEW st \in {"open", "committed", "rolledBack"}
    PROVE  /\ WithStatus(t, k, st) \in Seq(Rows)
           /\ Len(WithStatus(t, k, st)) = Len(t)
           /\ \A i \in 1..Len(t) :
                 /\ WithStatus(t, k, st)[i].by = t[i].by
                 /\ WithStatus(t, k, st)[i].req = t[i].req
                 /\ WithStatus(t, k, st)[i].status = IF i = k THEN st ELSE t[i].status
  <1> DEFINE e == [t[k] EXCEPT !.status = st]
             u == [t EXCEPT ![k] = e]
  <1>1. t[k] \in Rows
    BY ElementOfSeq
  <1>2. e \in Rows /\ e.by = t[k].by /\ e.req = t[k].req /\ e.status = st
    BY <1>1 DEF Rows
  <1>3. u \in Seq(Rows) /\ Len(u) = Len(t)
        /\ \A j \in 1..Len(t) : u[j] = IF j = k THEN e ELSE t[j]
    BY <1>2, ExceptSeq
  <1>4. WithStatus(t, k, st) = u
    BY DEF WithStatus
  <1> QED
    BY <1>2, <1>3, <1>4

-----------------------------------------------------------------------------
(* The types, and what a request has filled in at each step *)

LEMMA ShapeInit == Init => TypeOK /\ RequestShape
  <1> SUFFICES ASSUME Init PROVE TypeOK /\ RequestShape
    OBVIOUS
  <1>1. thread \in Seq(Rows) /\ Len(thread) = 0
    BY EmptySeq DEF Init
  <1>2. TypeOK
    <2>1. pc \in [Req -> Steps] /\ kind \in [Req -> Kinds] /\ snap \in [Req -> Modes]
      BY DEF Init, Steps, Kinds, Modes
    <2>2. row \in [Req -> 0..Len(thread)] /\ cached \in 0..Len(thread)
      BY <1>1 DEF Init
    <2>3. leaving \in [Req -> (Agents \X Req) \cup {NoSeat}] /\ agent \in [Req -> Agents \cup {"none"}]
      BY DEF Init
    <2>4. mode \in Modes /\ typing \in BOOLEAN /\ seats \subseteq Agents \X Req
      BY DEF Init, Modes
    <2>5. crashes \in 0..MaxCrashes
      BY CrashAssumption DEF Init
    <2> QED
      BY <1>1, <2>1, <2>2, <2>3, <2>4, <2>5 DEF TypeOK
  <1>3. RequestShape
    BY DEF Init, RequestShape
  <1> QED
    BY <1>2, <1>3

(* A request arrives: it fills in what it will need, and the thread stays. *)
LEMMA ShapeArrive ==
    ASSUME TypeOK, RequestShape, NEW r \in Req, Arrive(r)
    PROVE  TypeOK' /\ RequestShape'
  <1> USE DEF TypeOK, RequestShape, Goto, requestVars, Steps, ReplySteps, Ended, Modes, Senders, Persons, Kinds
  <1>1. CASE \E who \in Persons : SendStart(r, who)
    BY <1>1 DEF SendStart
  <1>2. CASE \E a \in Agents, left \in seats \cup {NoSeat} : HandoffStart(r, a, left)
    BY <1>2 DEF HandoffStart
  <1>3. CASE ReleaseStart(r)
    BY <1>3 DEF ReleaseStart
  <1>4. CASE \E a \in Agents : JoinStart(r, a)
    BY <1>4 DEF JoinStart
  <1> QED
    BY <1>1, <1>2, <1>3, <1>4 DEF Arrive

(* A row is appended by r, which then points to it. *)
LEMMA ShapePost ==
    ASSUME TypeOK, RequestShape, NEW r \in Req,
           SendInsert(r) \/ ReplyPost(r) \/ NoticePost(r)
    PROVE  TypeOK' /\ RequestShape'
  <1> DEFINE sender == IF pc[r] = "insert" THEN kind[r]
                       ELSE IF pc[r] = "post" THEN "AI" ELSE "SYSTEM"
             status == IF pc[r] = "insert" THEN "open" ELSE "committed"
             e == Row(sender, r, status)
  <1>1. e \in Rows /\ e.by = sender
    BY DEF Row, Rows, RequestShape, TypeOK, SendInsert, ReplyPost, NoticePost, Senders, Persons
  <1>2. thread' = Append(thread, e) /\ row' = [row EXCEPT ![r] = Len(thread) + 1]
    BY DEF SendInsert, ReplyPost, NoticePost
  <1>3. thread \in Seq(Rows) /\ Len(thread) \in Nat
    BY LenProperties DEF TypeOK
  <1>4. /\ thread' \in Seq(Rows)
        /\ Len(thread') = Len(thread) + 1
        /\ \A i \in 1..Len(thread) : thread'[i] = thread[i]
        /\ thread'[Len(thread) + 1] = e
    BY <1>1, <1>2, <1>3, AppendedRow
  <1> HIDE DEF e, status
  <1>5. /\ pc' = [pc EXCEPT ![r] = CASE pc[r] = "insert" -> "update"
                                     [] pc[r] = "post" -> "postCache"
                                     [] pc[r] = "notice" -> "noticeCache"]
        /\ pc[r] \in {"insert", "post", "notice"}
        /\ UNCHANGED <<mode, cached, typing, seats, kind, snap, agent, leaving, crashes>>
    BY DEF SendInsert, ReplyPost, NoticePost, Goto, requestVars
  <1>6. TypeOK'
    BY <1>2, <1>3, <1>4, <1>5 DEF TypeOK, Steps, ReplySteps
  <1>7. RequestShape'
    <2> SUFFICES ASSUME NEW q \in Req
                 PROVE  /\ pc'[q] = "insert" => kind'[q] \in Persons
                        /\ pc'[q] \in {"handoff", "handoffMode", "handoffInsert", "handoffUpdate", "join"}
                              => agent'[q] \in Agents
                        /\ pc'[q] \in {"update", "postCache", "noticeCache"}
                              => row'[q] \in 1..Len(thread')
                        /\ pc'[q] = "postCache" => thread'[row'[q]].by = "AI"
                        /\ pc'[q] = "noticeCache" => thread'[row'[q]].by = "SYSTEM"
      BY DEF RequestShape
    <2>1. CASE q = r
      BY <2>1, <1>1, <1>2, <1>3, <1>4, <1>5 DEF TypeOK
    <2>2. CASE q # r
      BY <2>2, <1>2, <1>3, <1>4, <1>5 DEF TypeOK, RequestShape
    <2> QED
      BY <2>1, <2>2
  <1> QED
    BY <1>6, <1>7

(* The status of the row r points to changes: the transaction ends. *)
LEMMA ShapeEndOfTransaction ==
    ASSUME TypeOK, RequestShape, NEW r \in Req, SendCommit(r) \/ SendVictim(r)
    PROVE  TypeOK' /\ RequestShape'
  <1>1. row[r] \in 1..Len(thread) /\ thread \in Seq(Rows) /\ Len(thread) \in Nat
    BY LenProperties DEF TypeOK, RequestShape, SendCommit, SendVictim
  <1>2. /\ thread' \in Seq(Rows)
        /\ Len(thread') = Len(thread)
        /\ \A i \in 1..Len(thread) : thread'[i].by = thread[i].by
    <2>1. PICK st \in {"committed", "rolledBack"} : thread' = WithStatus(thread, row[r], st)
      BY DEF SendCommit, SendVictim
    <2>2. st \in {"open", "committed", "rolledBack"}
      OBVIOUS
    <2> QED
      BY <1>1, <2>1, <2>2, RowStatusSet
  <1>3. pc' \in [Req -> Steps] /\ \A q \in Req : pc'[q] = pc[q] \/ pc'[q] \in {"trigger", "failed"}
    BY DEF TypeOK, SendCommit, SendVictim, Goto, Steps, Ended
  <1>4. cached' \in 0..Len(thread') /\ UNCHANGED <<mode, typing, seats, requestVars, crashes>>
    BY <1>1, <1>2 DEF TypeOK, SendCommit, SendVictim
  <1> QED
    BY <1>1, <1>2, <1>3, <1>4 DEF TypeOK, RequestShape, requestVars

(* Every other step of a request leaves the thread alone. *)
LEMMA ShapeContinue ==
    ASSUME TypeOK, RequestShape, NEW r \in Req, Continue(r)
    PROVE  TypeOK' /\ RequestShape'
  <1> USE DEF TypeOK, RequestShape, Goto, requestVars, Steps, ReplySteps, Ended, Modes, Senders, Persons, Kinds
  <1>1. CASE SendInsert(r) \/ ReplyPost(r) \/ NoticePost(r)
    BY <1>1, ShapePost
  <1>2. CASE SendCommit(r) \/ SendVictim(r)
    BY <1>2, ShapeEndOfTransaction
  <1>3. CASE ReplyStart(r)
    BY <1>3 DEF ReplyStart
  <1>4. CASE ReplyNotDue(r)
    BY <1>4 DEF ReplyNotDue
  <1>5. CASE ReplyGenerated(r)
    BY <1>5 DEF ReplyGenerated
  <1>6. CASE ReplySilent(r)
    BY <1>6 DEF ReplySilent, ReplyEnd
  <1>7. CASE ReplyAllowed(r)
    BY <1>7 DEF ReplyAllowed
  <1>17. CASE ReplyWithdrawn(r)
    BY <1>17 DEF ReplyWithdrawn, ReplyEnd
  <1>8. CASE ReplyCache(r)
    BY <1>8 DEF ReplyCache, ReplyEnd
  <1>9. CASE ReplyFails(r)
    BY <1>9 DEF ReplyFails, ReplyEnd
  <1>10. CASE HandoffFind(r)
    <2>1. CASE Goto(r, "handoffMode")
      BY <1>10, <2>1 DEF HandoffFind
    <2>2. CASE Goto(r, "handoffInsert")
      BY <1>10, <2>2 DEF HandoffFind
    <2> QED
      BY <1>10, <2>1, <2>2 DEF HandoffFind
  <1>11. CASE HandoffKeep(r)
    BY <1>11 DEF HandoffKeep
  <1>12. CASE HandoffCommit(r)
    BY <1>12 DEF HandoffCommit
  <1>13. CASE HandoffVictim(r)
    BY <1>13 DEF HandoffVictim
  <1>14. CASE ReleaseUpdate(r)
    BY <1>14 DEF ReleaseUpdate
  <1>15. CASE NoticeCache(r)
    BY <1>15 DEF NoticeCache
  <1>16. CASE JoinSave(r)
    BY <1>16 DEF JoinSave
  <1>18. CASE SendEmitFails(r)
    BY <1>18 DEF SendEmitFails
  <1>19. CASE HandoffInsert(r)
    BY <1>19 DEF HandoffInsert
  <1>20. CASE NoticeFails(r)
    BY <1>20 DEF NoticeFails
  <1> QED
    BY <1>18, <1>19, <1>20, <1>1, <1>2, <1>3, <1>4, <1>5, <1>6, <1>7, <1>8, <1>9, <1>10, <1>11, <1>12, <1>13, <1>14, <1>15, <1>16, <1>17 DEF Continue

LEMMA ShapeCrash ==
    ASSUME TypeOK, RequestShape, Crash
    PROVE  TypeOK' /\ RequestShape'
  <1>1. thread \in Seq(Rows) /\ Len(thread) \in Nat
    BY LenProperties DEF TypeOK
  <1>2. ASSUME NEW i \in 1..Len(thread)
        PROVE  thread[i] \in Rows /\ [thread[i] EXCEPT !.status = "rolledBack"] \in Rows
    <2>1. thread[i] \in Rows
      BY <1>1, ElementOfSeq
    <2> QED
      BY <2>1 DEF Rows
  <1>3. thread' \in Seq(Rows) /\ Len(thread') = Len(thread)
    BY <1>1, <1>2 DEF Crash
  <1>4. pc' \in [Req -> Steps] /\ \A q \in Req : pc'[q] \in {"idle"} \cup Ended
    BY DEF TypeOK, Crash, Steps, Ended
  <1> QED
    BY <1>1, <1>3, <1>4, CrashAssumption DEF TypeOK, RequestShape, Crash, requestVars, Ended

LEMMA ShapeStep == TypeOK /\ RequestShape /\ [Next]_vars => TypeOK' /\ RequestShape'
  <1> SUFFICES ASSUME TypeOK, RequestShape, [Next]_vars
               PROVE  TypeOK' /\ RequestShape'
    OBVIOUS
  <1>1. CASE \E r \in Req : Arrive(r) \/ Continue(r)
    BY <1>1, ShapeArrive, ShapeContinue
  <1>2. CASE Crash
    BY <1>2, ShapeCrash
  <1>3. CASE UNCHANGED vars
    BY <1>3 DEF vars, requestVars, TypeOK, RequestShape
  <1> QED
    BY <1>1, <1>2, <1>3 DEF Next

(* Conversation.TypeOK: every state of a conversation is well formed. *)
THEOREM ConversationTyped == Spec => [](TypeOK /\ RequestShape)
  BY ShapeInit, ShapeStep, PTL DEF Spec

-----------------------------------------------------------------------------
(* The list cache never goes back from a person's message to an older one *)

(* A step that touches neither the thread, the cache nor the open sends. *)
LEMMA OrderKept ==
    ASSUME OpenRowsNotOvertaken, PersonMessagesCachedInOrder,
           thread' = thread, row' = row, cached' = cached,
           \A q \in Req : pc'[q] = "update" => pc[q] = "update"
    PROVE  OpenRowsNotOvertaken' /\ PersonMessagesCachedInOrder'
  BY DEF OpenRowsNotOvertaken, PersonMessagesCachedInOrder, CommittedByPerson

(* A row appended is newer than every open send, and not a committed message
   of a person: the row of a send is inserted open. *)
LEMMA OrderPost ==
    ASSUME TypeOK, RequestShape, OpenRowsNotOvertaken, PersonMessagesCachedInOrder,
           NEW r \in Req, SendInsert(r) \/ ReplyPost(r) \/ NoticePost(r)
    PROVE  OpenRowsNotOvertaken' /\ PersonMessagesCachedInOrder'
  <1>1. thread \in Seq(Rows) /\ Len(thread) \in Nat
    BY LenProperties DEF TypeOK
  <1>2. PICK e \in Rows :
          /\ thread' = Append(thread, e)
          /\ ~(e.by \in Persons /\ e.status = "committed")
    <2>1. CASE SendInsert(r)
      <3> DEFINE f == Row(kind[r], r, "open")
      <3>1. f \in Rows /\ f.status = "open"
        BY <2>1 DEF SendInsert, Row, Rows, RequestShape, Senders
      <3>2. thread' = Append(thread, f)
        BY <2>1 DEF SendInsert
      <3> HIDE DEF f
      <3> QED
        BY <3>1, <3>2
    <2>2. CASE ReplyPost(r)
      BY <2>2 DEF ReplyPost, Row, Rows, Senders, Persons
    <2>3. CASE NoticePost(r)
      BY <2>3 DEF NoticePost, Row, Rows, Senders, Persons
    <2> QED
      BY <2>1, <2>2, <2>3
  <1>3. /\ Len(thread') = Len(thread) + 1
        /\ \A i \in 1..Len(thread) : thread'[i] = thread[i]
        /\ thread'[Len(thread) + 1] = e
    BY <1>1, <1>2, AppendedRow
  <1>4. /\ row' = [row EXCEPT ![r] = Len(thread) + 1]
        /\ cached' = cached
        /\ \A q \in Req \ {r} : pc'[q] = pc[q]
    BY DEF SendInsert, ReplyPost, NoticePost, Goto, TypeOK
  <1>5. OpenRowsNotOvertaken'
    <2> SUFFICES ASSUME NEW q \in Req, pc'[q] = "update",
                        NEW j \in row'[q] + 1 .. Len(thread')
                 PROVE  ~CommittedByPerson(j)'
      BY DEF OpenRowsNotOvertaken
    <2>1. q # r /\ row'[q] = row[q] /\ row[q] \in Nat
      BY <1>1, <1>3, <1>4 DEF TypeOK
    <2>2. j \in row[q] + 1 .. Len(thread) \/ j = Len(thread) + 1
      BY <1>1, <1>3, <2>1
    <2> QED
      BY <1>1, <1>2, <1>3, <1>4, <2>1, <2>2 DEF OpenRowsNotOvertaken, CommittedByPerson
  <1>6. PersonMessagesCachedInOrder'
    <2> SUFFICES ASSUME cached' > 0, thread'[cached'].by \in Persons,
                        NEW j \in cached' + 1 .. Len(thread')
                 PROVE  ~CommittedByPerson(j)'
      BY DEF PersonMessagesCachedInOrder
    <2>1. cached \in 1..Len(thread) /\ thread[cached].by \in Persons
      BY <1>1, <1>3, <1>4 DEF TypeOK
    <2>2. j \in cached + 1 .. Len(thread) \/ j = Len(thread) + 1
      BY <1>1, <1>3, <1>4, <2>1
    <2> QED
      BY <1>1, <1>2, <1>3, <2>1, <2>2 DEF PersonMessagesCachedInOrder, CommittedByPerson
  <1> QED
    BY <1>5, <1>6

(* A commit: the lock says that no other send is open. *)
LEMMA OrderCommit ==
    ASSUME TypeOK, RequestShape, OpenRowsNotOvertaken, PersonMessagesCachedInOrder,
           NEW r \in Req, SendCommit(r)
    PROVE  OpenRowsNotOvertaken' /\ PersonMessagesCachedInOrder'
  <1>1. thread \in Seq(Rows) /\ Len(thread) \in Nat /\ row[r] \in 1..Len(thread)
    BY LenProperties DEF TypeOK, RequestShape, SendCommit
  <1>2. thread' = WithStatus(thread, row[r], "committed") /\ cached' = row[r]
    BY DEF SendCommit
  <1>3. /\ Len(thread') = Len(thread)
        /\ \A i \in 1..Len(thread) :
              /\ thread'[i].by = thread[i].by
              /\ i # row[r] => thread'[i].status = thread[i].status
    <2>1. "committed" \in {"open", "committed", "rolledBack"}
      OBVIOUS
    <2>2. PICK st \in {"open", "committed", "rolledBack"} : thread' = WithStatus(thread, row[r], st)
      BY <1>2, <2>1
    <2> QED
      BY <1>1, <2>2, RowStatusSet
  <1>4. \A q \in Req : pc'[q] # "update"
    BY DEF SendCommit, Updatable, SharedLockers, LockingSteps, Goto, TypeOK
  <1>5. OpenRowsNotOvertaken'
    BY <1>4 DEF OpenRowsNotOvertaken
  <1>6. \A j \in row[r] + 1 .. Len(thread) : ~CommittedByPerson(j)
    BY DEF SendCommit, OpenRowsNotOvertaken
  <1>7. PersonMessagesCachedInOrder'
    BY <1>1, <1>2, <1>3, <1>6 DEF PersonMessagesCachedInOrder, CommittedByPerson
  <1> QED
    BY <1>5, <1>7

(* Rolling rows back only takes committed messages away. *)
LEMMA OrderRollback ==
    ASSUME TypeOK, OpenRowsNotOvertaken, PersonMessagesCachedInOrder,
           Len(thread') = Len(thread), row' = row, cached' = cached,
           \A q \in Req : pc'[q] = "update" => pc[q] = "update",
           \A i \in 1..Len(thread) :
              /\ thread'[i].by = thread[i].by
              /\ thread'[i].status = "committed" => thread[i].status = "committed"
    PROVE  OpenRowsNotOvertaken' /\ PersonMessagesCachedInOrder'
  <1>1. Len(thread) \in Nat
    BY LenProperties DEF TypeOK
  <1>2. row \in [Req -> 0..Len(thread)] /\ cached \in 0..Len(thread)
    BY DEF TypeOK
  <1> QED
    BY <1>1, <1>2 DEF OpenRowsNotOvertaken, PersonMessagesCachedInOrder, CommittedByPerson

LEMMA OrderVictim ==
    ASSUME TypeOK, RequestShape, OpenRowsNotOvertaken, PersonMessagesCachedInOrder,
           NEW r \in Req, SendVictim(r)
    PROVE  OpenRowsNotOvertaken' /\ PersonMessagesCachedInOrder'
  <1>1. thread \in Seq(Rows) /\ row[r] \in 1..Len(thread)
    BY DEF TypeOK, RequestShape, SendVictim
  <1>2. thread' = WithStatus(thread, row[r], "rolledBack")
    BY DEF SendVictim
  <1>3. /\ Len(thread') = Len(thread)
        /\ \A i \in 1..Len(thread) :
              /\ thread'[i].by = thread[i].by
              /\ thread'[i].status = "committed" => thread[i].status = "committed"
    BY <1>1, <1>2, RowStatusSet
  <1>4. row' = row /\ cached' = cached /\ \A q \in Req : pc'[q] = "update" => pc[q] = "update"
    BY DEF SendVictim, Goto, requestVars, TypeOK
  <1> QED
    BY <1>3, <1>4, OrderRollback

LEMMA OrderCrash ==
    ASSUME TypeOK, OpenRowsNotOvertaken, PersonMessagesCachedInOrder, Crash
    PROVE  OpenRowsNotOvertaken' /\ PersonMessagesCachedInOrder'
  <1>1. thread \in Seq(Rows) /\ Len(thread) \in Nat
    BY LenProperties DEF TypeOK
  <1>2. Len(thread') = Len(thread)
    BY <1>1 DEF Crash
  <1>3. ASSUME NEW i \in 1..Len(thread)
        PROVE  /\ thread'[i].by = thread[i].by
               /\ thread'[i].status = "committed" => thread[i].status = "committed"
    <2>1. thread[i] \in Rows
      BY <1>1, ElementOfSeq
    <2>2. thread'[i] = IF thread[i].status = "open"
                       THEN [thread[i] EXCEPT !.status = "rolledBack"]
                       ELSE thread[i]
      BY DEF Crash
    <2> QED
      BY <2>1, <2>2 DEF Rows
  <1>4. row' = row /\ cached' = cached /\ \A q \in Req : pc'[q] = "update" => pc[q] = "update"
    BY DEF Crash, requestVars, TypeOK
  <1> QED
    BY <1>2, <1>3, <1>4, OrderRollback

(* The bot and the notices may set the cache back, but then it names no person. *)
LEMMA OrderCache ==
    ASSUME TypeOK, RequestShape, OpenRowsNotOvertaken,
           NEW r \in Req, ReplyCache(r) \/ NoticeCache(r)
    PROVE  OpenRowsNotOvertaken' /\ PersonMessagesCachedInOrder'
  <1>1. thread' = thread /\ row' = row /\ cached' = row[r]
        /\ \A q \in Req : pc'[q] = "update" => pc[q] = "update"
    BY DEF ReplyCache, NoticeCache, ReplyEnd, Goto, requestVars, TypeOK
  <1>2. thread[row[r]].by \notin Persons
    BY DEF RequestShape, ReplyCache, NoticeCache, Persons
  <1> QED
    BY <1>1, <1>2 DEF OpenRowsNotOvertaken, PersonMessagesCachedInOrder, CommittedByPerson

LEMMA OrderStep ==
    TypeOK /\ RequestShape /\ OpenRowsNotOvertaken /\ PersonMessagesCachedInOrder /\ [Next]_vars
        => OpenRowsNotOvertaken' /\ PersonMessagesCachedInOrder'
  <1> SUFFICES ASSUME TypeOK, RequestShape, OpenRowsNotOvertaken,
                      PersonMessagesCachedInOrder, [Next]_vars
               PROVE  OpenRowsNotOvertaken' /\ PersonMessagesCachedInOrder'
    OBVIOUS
  <1>1. ASSUME NEW r \in Req, Arrive(r)
        PROVE  OpenRowsNotOvertaken' /\ PersonMessagesCachedInOrder'
    <2>1. thread' = thread /\ row' = row /\ cached' = cached
      BY <1>1 DEF Arrive, SendStart, HandoffStart, ReleaseStart, JoinStart
    <2>2. \A q \in Req : pc'[q] = "update" => pc[q] = "update"
      BY <1>1 DEF Arrive, SendStart, HandoffStart, ReleaseStart, JoinStart, Goto, TypeOK
    <2> QED
      BY <2>1, <2>2, OrderKept
  <1>2. ASSUME NEW r \in Req, SendInsert(r) \/ ReplyPost(r) \/ NoticePost(r)
        PROVE  OpenRowsNotOvertaken' /\ PersonMessagesCachedInOrder'
    BY <1>2, OrderPost
  <1>3. ASSUME NEW r \in Req, SendCommit(r) \/ SendVictim(r)
        PROVE  OpenRowsNotOvertaken' /\ PersonMessagesCachedInOrder'
    BY <1>3, OrderCommit, OrderVictim
  <1>4. ASSUME NEW r \in Req, ReplyCache(r) \/ NoticeCache(r)
        PROVE  OpenRowsNotOvertaken' /\ PersonMessagesCachedInOrder'
    BY <1>4, OrderCache
  <1>5. ASSUME NEW r \in Req,
               \/ ReplyStart(r) \/ ReplyNotDue(r) \/ ReplyGenerated(r) \/ ReplySilent(r)
               \/ ReplyAllowed(r) \/ ReplyWithdrawn(r) \/ ReplyFails(r)
               \/ HandoffFind(r) \/ HandoffKeep(r) \/ HandoffCommit(r) \/ HandoffVictim(r)
               \/ ReleaseUpdate(r) \/ JoinSave(r)
               \/ SendEmitFails(r) \/ HandoffInsert(r) \/ NoticeFails(r)
        PROVE  OpenRowsNotOvertaken' /\ PersonMessagesCachedInOrder'
    <2> USE <1>5 DEF ReplyStart, ReplyNotDue, ReplyGenerated, ReplySilent, ReplyAllowed,
                     ReplyWithdrawn, ReplyFails, HandoffFind, HandoffKeep, HandoffCommit,
                     HandoffVictim, ReleaseUpdate, JoinSave, ReplyEnd, SendEmitFails,
                     HandoffInsert, NoticeFails
    <2>1. thread' = thread /\ row' = row /\ cached' = cached
      BY DEF requestVars
    <2>2. \A q \in Req : pc'[q] = "update" => pc[q] = "update"
      BY DEF Goto, TypeOK
    <2> QED
      BY <2>1, <2>2, OrderKept
  <1>6. CASE Crash
    BY <1>6, OrderCrash
  <1>7. CASE UNCHANGED vars
    BY <1>7, OrderKept DEF vars, requestVars
  <1> QED
    BY <1>1, <1>2, <1>3, <1>4, <1>5, <1>6, <1>7 DEF Next, Continue

(* Conversation.OrderInv: it is an invariant, whatever the sends in progress. *)
THEOREM ConversationOrdered == Spec => []OrderInv
  <1>1. Init => OpenRowsNotOvertaken /\ PersonMessagesCachedInOrder
    BY DEF Init, OpenRowsNotOvertaken, PersonMessagesCachedInOrder
  <1> QED
    BY <1>1, ShapeInit, ShapeStep, OrderStep, PTL DEF Spec, OrderInv

(* Conversation.PersonMessagesCachedInOrder: between persons, the message the
   list of conversations shows is never overtaken. *)
THEOREM ListCacheInOrder == Spec => []PersonMessagesCachedInOrder
  BY ConversationOrdered, PTL DEF OrderInv

-----------------------------------------------------------------------------
(* The assistant is not left typing *)

(* A step that is not the end of a reply: who was preparing one still is. *)
LEMMA TypingKept ==
    ASSUME TypingHasAReply, typing' = typing, crashes' = crashes,
           \A q \in Req : pc[q] \in ReplySteps => pc'[q] \in ReplySteps
    PROVE  TypingHasAReply'
  BY DEF TypingHasAReply

LEMMA TypingStep ==
    ASSUME TypeOK, TypingHasAReply, [Next]_vars
    PROVE  TypingHasAReply'
  <1>1. ASSUME NEW r \in Req, Arrive(r) PROVE TypingHasAReply'
    <2> USE <1>1 DEF Arrive, SendStart, HandoffStart, ReleaseStart, JoinStart
    <2>1. typing' = typing /\ crashes' = crashes
      OBVIOUS
    <2>2. \A q \in Req : pc[q] \in ReplySteps => pc'[q] \in ReplySteps
      BY DEF Goto, TypeOK, ReplySteps
    <2> QED
      BY <2>1, <2>2, TypingKept
  <1>2. ASSUME NEW r \in Req, ReplyStart(r) PROVE TypingHasAReply'
    BY <1>2 DEF ReplyStart, Goto, TypeOK, TypingHasAReply, ReplySteps
  <1>3. ASSUME NEW r \in Req,
               ReplySilent(r) \/ ReplyWithdrawn(r) \/ ReplyCache(r) \/ ReplyFails(r)
        PROVE  TypingHasAReply'
    BY <1>3 DEF ReplySilent, ReplyWithdrawn, ReplyCache, ReplyFails, ReplyEnd, TypingHasAReply
  <1>4. ASSUME NEW r \in Req,
               \/ SendInsert(r) \/ SendCommit(r) \/ SendVictim(r) \/ SendEmitFails(r)
               \/ ReplyNotDue(r) \/ ReplyGenerated(r) \/ ReplyAllowed(r) \/ ReplyPost(r)
               \/ HandoffFind(r) \/ HandoffKeep(r) \/ HandoffInsert(r) \/ HandoffCommit(r)
               \/ HandoffVictim(r) \/ ReleaseUpdate(r) \/ NoticePost(r) \/ NoticeCache(r)
               \/ NoticeFails(r) \/ JoinSave(r)
        PROVE  TypingHasAReply'
    <2> USE <1>4 DEF SendInsert, SendCommit, SendVictim, SendEmitFails, ReplyNotDue,
                     ReplyGenerated, ReplyAllowed, ReplyPost, HandoffFind, HandoffKeep,
                     HandoffInsert, HandoffCommit, HandoffVictim, ReleaseUpdate, NoticePost,
                     NoticeCache, NoticeFails, JoinSave
    <2>1. typing' = typing /\ crashes' = crashes
      OBVIOUS
    <2>2. \A q \in Req : pc[q] \in ReplySteps => pc'[q] \in ReplySteps
      BY DEF Goto, TypeOK, ReplySteps
    <2> QED
      BY <2>1, <2>2, TypingKept
  <1>5. CASE Crash
    BY <1>5 DEF Crash, TypingHasAReply, TypeOK
  <1>6. CASE UNCHANGED vars
    BY <1>6, TypingKept DEF vars
  <1> QED
    BY <1>1, <1>2, <1>3, <1>4, <1>5, <1>6 DEF Next, Continue

(* Conversation.TypingHasAReply: whichever way a reply ends, silent, withdrawn,
   posted or failed, and however many overlap, the indicator is retracted. *)
THEOREM TypingIsRetracted == Spec => []TypingHasAReply
  <1>1. Init => TypingHasAReply
    BY DEF Init, TypingHasAReply
  <1> QED
    BY <1>1, ShapeInit, ShapeStep, TypingStep, PTL DEF Spec

-----------------------------------------------------------------------------
(* Inbox: the calls that open a thread *)

USE InboxAssumption, NothingAssumption

\* What a call has found is there, a call that is late found another's thread, and
\* past its insert, or past its look for one, an actor has a seat.
CallSound(c) ==
    /\ stand[c] = "idle" <=> open[c] = None
    /\ stand[c] \in {"idle", "find", "ensure", "insert"} => chat[c] = None
    /\ stand[c] \in {"find", "insert"} => open[c].found = None
    /\ stand[c] \in {"ensure", "seat", "others", "greet", "done"} =>
          open[c].found \in Opens /\ chat[open[c].found] # None
    /\ stand[c] \in {"others", "greet"} => open[c].found = c
    /\ stand[c] # "idle" /\ open[c].late =>
          About(open[c].subject) # {} /\ open[c].found # c /\ stand[c] # "insert"
    /\ stand[c] \in {"others", "greet"} \/ (stand[c] = "done" /\ ~open[c].guest) =>
          SeatsOf(open[c].found, open[c].actor) # {}

CallsSound == \A c \in Opens : CallSound(c)

ReadsSeat == \A r \in Readings : reading[r] # None => reading[r].key \in DOMAIN seat

\* A deletion writes back the message it read: its sender, thread and time are the same.
DeletesSame ==
    \A m \in Messages : deleting[m] # None =>
        /\ message[m] # None /\ message[m].committed /\ deleting[m].committed
        /\ deleting[m].thread = message[m].thread
        /\ deleting[m].from = message[m].from
        /\ deleting[m].at = message[m].at

InboxInv == InboxTypeOK /\ CallsSound /\ ReadsSeat /\ DeletesSame

LEMMA InitInbox == InboxInit => InboxInv
BY DEF InboxInit, InboxInv, InboxTypeOK, CallsSound, CallSound, ReadsSeat, DeletesSame, Times

\* No thread goes or changes its subject, and no seat goes.
Grows ==
    /\ \A t \in Opens : chat[t] # None => chat'[t] # None /\ chat'[t].subject = chat[t].subject
    /\ DOMAIN seat \subseteq DOMAIN seat'

LEMMA StaysSound ==
    ASSUME Grows, NEW c \in Opens, CallSound(c), UNCHANGED <<open[c], stand[c], chat[c]>>
    PROVE  CallSound(c)'
<1>1. About(open[c].subject) \subseteq About(open[c].subject)' BY DEF About, Grows
<1>2. SeatsOf(open[c].found, open[c].actor) \subseteq SeatsOf(open[c].found, open[c].actor)'
  BY DEF SeatsOf, Grows
<1>3. open[c].found \in Opens /\ chat[open[c].found] # None => chat'[open[c].found] # None
  BY DEF Grows
<1> QED BY <1>1, <1>2, <1>3 DEF CallSound

\* The calls are left alone.
LEMMA CallsStay ==
    ASSUME InboxInv, UNCHANGED openVars, DOMAIN seat \subseteq DOMAIN seat'
    PROVE  CallsSound'
<1>1. Grows BY DEF Grows, openVars
<1> QED BY <1>1, StaysSound DEF CallsSound, InboxInv, openVars

Stands == {"find", "ensure", "insert", "seat", "others", "greet", "done", "refused", "lost"}

\* One call goes on, inserts its own thread at most, and may add seats.
LEMMA CallGoesOn ==
    ASSUME InboxInv, Grows, NEW c \in Opens, NEW o \in Open, NEW s \in Stands,
           open' = [open EXCEPT ![c] = o], stand' = [stand EXCEPT ![c] = s],
           \A t \in Opens \ {c} : chat'[t] = chat[t],
           UNCHANGED <<clock, readVars>>,
           chat' \in [Opens -> Thread \cup {None}],
           DOMAIN seat' \subseteq Keys, \A k \in DOMAIN seat' : seat'[k] \in Seat,
           CallSound(c)'
    PROVE  InboxInv'
<1>1. \A d \in Opens : /\ open'[d] = IF d = c THEN o ELSE open[d]
                       /\ stand'[d] = IF d = c THEN s ELSE stand[d]
  BY DEF InboxInv, InboxTypeOK
<1>2. InboxTypeOK' BY DEF InboxInv, InboxTypeOK, readVars, Stands
<1>3. CallsSound' BY <1>1, StaysSound DEF CallsSound, InboxInv
<1>4. ReadsSeat' BY DEF InboxInv, ReadsSeat, readVars, Grows
<1>5. DeletesSame' BY DEF InboxInv, DeletesSame, readVars
<1> QED BY <1>2, <1>3, <1>4, <1>5 DEF InboxInv

LEMMA BeginKeeps ==
    ASSUME InboxInv, NEW c \in Opens, NEW a \in Users, NEW s \in Subjects \cup {None},
           NEW others \in SUBSET Users, Begin(c, a, s, others)
    PROVE  InboxInv'
<1> DEFINE o == [actor |-> a, subject |-> s, guest |-> FALSE, with |-> others,
                 late |-> About(s) # {}, found |-> None]
           at == IF s = None THEN "insert" ELSE "find"
<1>1. /\ o \in Open /\ at \in Stands
      /\ o.subject = s /\ o.found = None /\ o.late = (About(s) # {})
  BY DEF Open, Actors, Stands
<1>2. /\ open' = [open EXCEPT ![c] = o] /\ stand' = [stand EXCEPT ![c] = at] /\ stand[c] = "idle"
      /\ UNCHANGED <<clock, chat, seat, readVars>>
  BY DEF Begin, OpenGoto
<1>3. Grows BY <1>2 DEF Grows
<1>4. open'[c] = o /\ stand'[c] = at /\ at \in {"insert", "find"} BY <1>2 DEF InboxInv, InboxTypeOK
<1>5. chat'[c] = None BY <1>2 DEF InboxInv, CallsSound, CallSound
<1>6. o.late => at # "insert" /\ About(s)' # {} BY <1>1, <1>2 DEF About
<1>7. o # None BY <1>1
<1>8. CallSound(c)'
  <2> HIDE DEF o, at
  <2> QED BY <1>1, <1>4, <1>5, <1>6, <1>7 DEF CallSound
<1> HIDE DEF o, at
<1> QED BY <1>1, <1>2, <1>3, <1>8, CallGoesOn DEF InboxInv, InboxTypeOK

LEMMA BeginGuestKeeps ==
    ASSUME InboxInv, NEW c \in Opens, NEW g \in Guests, BeginGuest(c, g)
    PROVE  InboxInv'
<1> DEFINE s == <<"guest-widget", g>>
           o == [actor |-> g, subject |-> s, guest |-> TRUE, with |-> {},
                 late |-> About(s) # {}, found |-> None]
<1>1. /\ o \in Open /\ o.subject = s /\ o.found = None /\ o.late = (About(s) # {})
  BY DEF Open, Actors, Subjects
<1>2. /\ open' = [open EXCEPT ![c] = o] /\ stand' = [stand EXCEPT ![c] = "find"] /\ stand[c] = "idle"
      /\ UNCHANGED <<clock, chat, seat, readVars>>
  BY DEF BeginGuest, OpenGoto
<1>3. Grows BY <1>2 DEF Grows
<1>4. open'[c] = o /\ stand'[c] = "find" BY <1>2 DEF InboxInv, InboxTypeOK
<1>5. chat'[c] = None BY <1>2 DEF InboxInv, CallsSound, CallSound
<1>6. o.late => About(s)' # {} BY <1>1, <1>2 DEF About
<1>7. o # None BY <1>1
<1>8. CallSound(c)'
  <2> HIDE DEF o, s
  <2> QED BY <1>1, <1>4, <1>5, <1>6, <1>7 DEF CallSound
<1> HIDE DEF o
<1>9. "find" \in Stands BY DEF Stands
<1> QED BY <1>1, <1>2, <1>3, <1>8, <1>9, CallGoesOn DEF InboxInv, InboxTypeOK

\* A call that has begun stands somewhere, with what it asks.
LEMMA Asks ==
    ASSUME InboxInv, NEW c \in Opens, stand[c] # "idle"
    PROVE  open[c] \in Open /\ open[c] # None
BY DEF InboxInv, InboxTypeOK, CallsSound, CallSound

LEMMA FindExistingKeeps ==
    ASSUME InboxInv, NEW c \in Opens, FindExisting(c)
    PROVE  InboxInv'
<1>1. PICK t \in About(open[c].subject) : open' = [open EXCEPT ![c].found = t]
  BY DEF FindExisting
<1>2. open[c] \in Open /\ open[c] # None /\ stand[c] = "find" BY Asks DEF FindExisting
<1> DEFINE o == [open[c] EXCEPT !.found = t]
           at == IF open[c].guest THEN "done" ELSE "ensure"
<1>3. t \in Opens /\ chat[t] # None BY DEF About
<1>4. /\ o \in Open /\ o.found = t /\ o.subject = open[c].subject /\ o.guest = open[c].guest
  BY <1>2, <1>3 DEF Open
<1>5. o # None /\ at \in Stands BY <1>4 DEF Stands
<1>6. open' = [open EXCEPT ![c] = o] /\ stand' = [stand EXCEPT ![c] = at]
      /\ UNCHANGED <<clock, chat, seat, readVars>>
  BY <1>1 DEF FindExisting, OpenGoto
<1>7. Grows BY <1>6 DEF Grows
<1>8. open'[c] = o /\ stand'[c] = at BY <1>6 DEF InboxInv, InboxTypeOK
<1>9. chat'[c] = None BY <1>2, <1>6 DEF InboxInv, CallsSound, CallSound
<1>10. t # c /\ chat'[t] # None /\ About(open[c].subject)' # {}
  BY <1>3, <1>4, <1>6, <1>8, <1>9 DEF About
<1>11. at \in {"done", "ensure"} /\ (at = "done" => o.guest) BY <1>4
<1>12. CallSound(c)'
  <2> HIDE DEF o, at
  <2> QED BY <1>3, <1>4, <1>5, <1>8, <1>9, <1>10, <1>11 DEF CallSound
<1> HIDE DEF o, at
<1> QED BY <1>4, <1>5, <1>6, <1>7, <1>12, CallGoesOn DEF InboxInv, InboxTypeOK

\* A call goes to another place without learning anything.
LEMMA CallTurns ==
    ASSUME InboxInv, NEW c \in Opens, NEW s \in Stands, stand[c] # "idle", OpenGoto(c, s),
           UNCHANGED <<clock, chat, seat, open, readVars>>, CallSound(c)'
    PROVE  InboxInv'
<1>1. open[c] \in Open /\ open' = [open EXCEPT ![c] = open[c]]
  BY Asks DEF InboxInv, InboxTypeOK
<1>2. Grows BY DEF Grows
<1> QED BY <1>1, <1>2, CallGoesOn DEF InboxInv, InboxTypeOK, OpenGoto

LEMMA FindNoneKeeps ==
    ASSUME InboxInv, NEW c \in Opens, FindNone(c)
    PROVE  InboxInv'
<1>1. /\ stand[c] = "find" /\ About(open[c].subject) = {} /\ OpenGoto(c, "insert")
      /\ UNCHANGED <<clock, chat, seat, open, readVars>> /\ "insert" \in Stands
  BY DEF FindNone, Stands
<1>2. stand'[c] = "insert" BY <1>1 DEF OpenGoto, InboxInv, InboxTypeOK
<1>3. CallSound(c)' BY <1>1, <1>2 DEF InboxInv, CallsSound, CallSound
<1> QED BY <1>1, <1>3, CallTurns

LEMMA EnsureKeeps ==
    ASSUME InboxInv, NEW c \in Opens, Ensure(c)
    PROVE  InboxInv'
<1> DEFINE at == IF ActiveSeats(open[c].found, open[c].actor) # {} THEN "done" ELSE "seat"
<1>1. /\ stand[c] = "ensure" /\ OpenGoto(c, at) /\ at \in Stands
      /\ UNCHANGED <<clock, chat, seat, open, readVars>>
  BY DEF Ensure, Stands
<1>2. stand'[c] = at BY <1>1 DEF OpenGoto, InboxInv, InboxTypeOK
<1>3. at = "done" => SeatsOf(open[c].found, open[c].actor) # {} BY DEF ActiveSeats
<1>4. at \in {"done", "seat"} OBVIOUS
<1> HIDE DEF at
<1>5. (SeatsOf(open[c].found, open[c].actor) = SeatsOf(open[c].found, open[c].actor)')
      /\ (About(open[c].subject) = About(open[c].subject)')
  BY <1>1 DEF SeatsOf, About
<1>6. CallSound(c)' BY <1>1, <1>2, <1>3, <1>4, <1>5 DEF InboxInv, CallsSound, CallSound
<1> QED BY <1>1, <1>6, CallTurns

LEMMA LostKeeps ==
    ASSUME InboxInv, NEW c \in Opens, Lost(c)
    PROVE  InboxInv'
<1>1. /\ stand[c] # "idle" /\ OpenGoto(c, "lost") /\ "lost" \in Stands
      /\ UNCHANGED <<clock, chat, seat, open, readVars>>
  BY DEF Lost, Stands
<1>2. stand'[c] = "lost" BY <1>1 DEF OpenGoto, InboxInv, InboxTypeOK
<1>3. CallSound(c)' BY <1>1, <1>2 DEF InboxInv, CallsSound, CallSound, About
<1> QED BY <1>1, <1>3, CallTurns

LEMMA InsertKeeps ==
    ASSUME InboxInv, NEW c \in Opens, Insert(c)
    PROVE  InboxInv'
<1>1. open[c] \in Open /\ open[c] # None /\ stand[c] = "insert" BY Asks DEF Insert
<1> DEFINE o == [open[c] EXCEPT !.found = c]
           new == [subject |-> open[c].subject, greeted |-> FALSE]
<1>2. /\ o \in Open /\ o.found = c /\ o.subject = open[c].subject /\ o.late = open[c].late
  BY <1>1 DEF Open
<1>3. new \in Thread BY <1>1 DEF Thread, Open
<1>4. o # None /\ new # None /\ "seat" \in Stands BY <1>2, <1>3 DEF Stands
<1>5. /\ open' = [open EXCEPT ![c] = o] /\ stand' = [stand EXCEPT ![c] = "seat"]
      /\ chat' = [chat EXCEPT ![c] = new] /\ UNCHANGED <<clock, seat, readVars>>
  BY DEF Insert, OpenGoto
<1>6. chat[c] = None /\ ~open[c].late BY <1>1 DEF InboxInv, CallsSound, CallSound
<1> HIDE DEF o, new
<1>7. /\ \A t \in Opens : chat'[t] = IF t = c THEN new ELSE chat[t]
      /\ chat' \in [Opens -> Thread \cup {None}]
  BY <1>3, <1>5 DEF InboxInv, InboxTypeOK
<1>8. Grows BY <1>5, <1>6, <1>7 DEF Grows
<1>9. open'[c] = o /\ stand'[c] = "seat" BY <1>5 DEF InboxInv, InboxTypeOK
<1>10. CallSound(c)' BY <1>2, <1>4, <1>6, <1>7, <1>9 DEF CallSound
<1> QED BY <1>2, <1>4, <1>5, <1>7, <1>8, <1>10, CallGoesOn DEF InboxInv, InboxTypeOK

\* Rows are added for keys; those that were there are as they were.
LEMMA Seating ==
    ASSUME InboxTypeOK, NEW keys \in SUBSET Keys, seat' = WithSeats(keys)
    PROVE  /\ DOMAIN seat' = DOMAIN seat \cup keys /\ DOMAIN seat' \subseteq Keys
           /\ \A k \in DOMAIN seat' : seat'[k] \in Seat
           /\ \A k \in DOMAIN seat : seat'[k] = seat[k]
BY DEF WithSeats, InboxTypeOK, NewSeat, Seat

LEMMA SaveSeatKeeps ==
    ASSUME InboxInv, NEW c \in Opens, SaveSeat(c)
    PROVE  InboxInv'
<1>1. open[c] \in Open /\ open[c] # None /\ stand[c] = "seat" BY Asks DEF SaveSeat
<1>2. open[c].found \in Opens /\ open[c].actor \in Actors
  BY <1>1 DEF InboxInv, CallsSound, CallSound, Open
<1> DEFINE k == <<open[c].found, open[c].actor, c, "owner">>
<1>3. k \in Keys /\ {k} \in SUBSET Keys BY <1>2 DEF Keys
<1>4. seat' = WithSeats({k}) /\ UNCHANGED <<clock, chat, open, readVars>> BY DEF SaveSeat
<1>5. PICK at \in {"done", "others", "greet"} :
        /\ stand' = [stand EXCEPT ![c] = at]
        /\ open[c].found # c => at = "done"
  BY DEF SaveSeat, OpenGoto
<1>6. /\ DOMAIN seat' = DOMAIN seat \cup {k} /\ DOMAIN seat' \subseteq Keys
      /\ \A j \in DOMAIN seat' : seat'[j] \in Seat
  BY <1>3, <1>4, Seating DEF InboxInv
<1>7. k[1] = open[c].found /\ k[2] = open[c].actor OBVIOUS
<1>8. SeatsOf(open[c].found, open[c].actor)' # {} BY <1>4, <1>6, <1>7 DEF SeatsOf
<1>9. Grows BY <1>4, <1>6 DEF Grows
<1>10. stand'[c] = at /\ open'[c] = open[c] /\ chat'[c] = chat[c]
  BY <1>4, <1>5 DEF InboxInv, InboxTypeOK
<1>11. About(open[c].subject)' = About(open[c].subject) BY <1>4 DEF About
<1>14. /\ chat[open[c].found] # None
       /\ open[c].late => About(open[c].subject) # {} /\ open[c].found # c
  BY <1>1 DEF InboxInv, CallsSound, CallSound
<1>15. open'[c].found = open[c].found /\ chat'[open[c].found] # None
  BY <1>4, <1>10, <1>14
<1>12. CallSound(c)'
  <2> HIDE DEF k
  <2> QED BY <1>1, <1>2, <1>5, <1>8, <1>10, <1>11, <1>14, <1>15 DEF CallSound
<1>13. open' = [open EXCEPT ![c] = open[c]] /\ at \in Stands
  BY <1>4 DEF InboxInv, InboxTypeOK, Stands
<1> QED BY <1>1, <1>4, <1>5, <1>6, <1>9, <1>12, <1>13, CallGoesOn DEF InboxInv, InboxTypeOK

LEMMA SaveOthersKeeps ==
    ASSUME InboxInv, NEW c \in Opens, SaveOthers(c)
    PROVE  InboxInv'
<1>1. open[c] \in Open /\ open[c] # None /\ stand[c] = "others" BY Asks DEF SaveOthers
<1>2. PICK known \in SUBSET open[c].with :
        /\ seat' = WithSeats({<<c, u, c, "listed">> : u \in known})
        /\ OpenGoto(c, IF known = open[c].with THEN "done" ELSE "refused")
  BY DEF SaveOthers
<1> DEFINE keys == {<<c, u, c, "listed">> : u \in known}
<1>3. keys \in SUBSET Keys BY <1>1 DEF Keys, Open, Actors
<1>4. PICK at \in {"done", "refused"} : stand' = [stand EXCEPT ![c] = at] BY <1>2 DEF OpenGoto
<1>5. UNCHANGED <<clock, chat, open, readVars>> BY DEF SaveOthers
<1>6. /\ DOMAIN seat \subseteq DOMAIN seat' /\ DOMAIN seat' \subseteq Keys
      /\ \A j \in DOMAIN seat' : seat'[j] \in Seat
  BY <1>2, <1>3, Seating DEF InboxInv
<1>7. Grows BY <1>5, <1>6 DEF Grows
<1>8. stand'[c] = at /\ open'[c] = open[c] /\ chat'[c] = chat[c]
  BY <1>4, <1>5 DEF InboxInv, InboxTypeOK
<1>9. SeatsOf(open[c].found, open[c].actor)' # {}
  BY <1>1, <1>5, <1>6 DEF SeatsOf, InboxInv, CallsSound, CallSound
<1>10. About(open[c].subject)' = About(open[c].subject) BY <1>5 DEF About
<1>11. CallSound(c)' BY <1>1, <1>5, <1>8, <1>9, <1>10 DEF InboxInv, CallsSound, CallSound
<1>12. open' = [open EXCEPT ![c] = open[c]] /\ at \in Stands
  BY <1>5 DEF InboxInv, InboxTypeOK, Stands
<1> QED BY <1>1, <1>4, <1>5, <1>6, <1>7, <1>11, <1>12, CallGoesOn DEF InboxInv, InboxTypeOK

LEMMA GreetKeeps ==
    ASSUME InboxInv, NEW c \in Opens, Greet(c)
    PROVE  InboxInv'
<1>1. open[c] \in Open /\ open[c] # None /\ stand[c] = "greet" BY Asks DEF Greet
<1> DEFINE new == [chat[c] EXCEPT !.greeted = TRUE]
<1>2. open[c].found = c /\ chat[c] # None BY <1>1 DEF InboxInv, CallsSound, CallSound
<1>11. chat[c] \in Thread BY <1>2 DEF InboxInv, InboxTypeOK
<1>9. new \in Thread /\ new # None /\ new.subject = chat[c].subject BY <1>11 DEF Thread
<1>3. /\ chat' = [chat EXCEPT ![c] = new] /\ stand' = [stand EXCEPT ![c] = "done"]
      /\ UNCHANGED <<clock, seat, open, readVars>>
  BY DEF Greet, OpenGoto
<1> HIDE DEF new
<1>4. /\ \A t \in Opens : chat'[t] = IF t = c THEN new ELSE chat[t]
      /\ chat' \in [Opens -> Thread \cup {None}]
  BY <1>3, <1>9 DEF InboxInv, InboxTypeOK
<1>5. Grows BY <1>2, <1>3, <1>4, <1>9 DEF Grows
<1>6. stand'[c] = "done" /\ open'[c] = open[c] BY <1>3 DEF InboxInv, InboxTypeOK
<1>7. /\ SeatsOf(open[c].found, open[c].actor)' # {}
      /\ open[c].late => About(open[c].subject)' # {} /\ open[c].found # c
  BY <1>1, <1>2, <1>3 DEF SeatsOf, InboxInv, CallsSound, CallSound
<1>8. CallSound(c)' BY <1>1, <1>2, <1>4, <1>6, <1>7, <1>9 DEF CallSound
<1>10. open' = [open EXCEPT ![c] = open[c]] /\ "done" \in Stands
  BY <1>3 DEF InboxInv, InboxTypeOK, Stands
<1> QED BY <1>1, <1>3, <1>4, <1>5, <1>8, <1>10, CallGoesOn DEF InboxInv, InboxTypeOK

-----------------------------------------------------------------------------
(* Inbox: seats, messages and marks *)

\* Rows of participants change, and none is added or goes.
LEMMA SeatsChange ==
    ASSUME InboxInv, UNCHANGED <<clock, openVars, message, deleting>>,
           DOMAIN seat' = DOMAIN seat, \A k \in DOMAIN seat : seat'[k] \in Seat,
           reading' \in [Readings -> Reading \cup {None}], ReadsSeat'
    PROVE  InboxInv'
<1>1. CallsSound' BY CallsStay
<1>2. InboxTypeOK' BY DEF InboxInv, InboxTypeOK, openVars
<1>3. DeletesSame' BY DEF InboxInv, DeletesSame
<1> QED BY <1>1, <1>2, <1>3 DEF InboxInv

LEMMA LeaveKeeps ==
    ASSUME InboxInv, NEW k \in DOMAIN seat, Leave(k)
    PROVE  InboxInv'
<1>1. seat[k] \in Seat BY DEF InboxInv, InboxTypeOK
<1>2. [seat[k] EXCEPT !.active = FALSE] \in Seat BY <1>1 DEF Seat
<1>3. DOMAIN seat' = DOMAIN seat /\ UNCHANGED <<clock, openVars, readVars>> BY DEF Leave
<1>4. \A j \in DOMAIN seat : seat'[j] \in Seat BY <1>2 DEF Leave, InboxInv, InboxTypeOK
<1>5. ReadsSeat' BY <1>3 DEF InboxInv, ReadsSeat, readVars
<1> QED BY <1>3, <1>4, <1>5, SeatsChange DEF InboxInv, InboxTypeOK, readVars

LEMMA ReadCursorKeeps ==
    ASSUME InboxInv, NEW r \in Readings, ReadCursor(r)
    PROVE  InboxInv'
<1>1. reading[r] \in Reading /\ reading[r] # None /\ reading[r].key \in DOMAIN seat
  BY DEF ReadCursor, InboxInv, InboxTypeOK, ReadsSeat
<1>2. PICK k \in DOMAIN seat, time \in Times : k = reading[r].key /\ time = reading[r].at
  BY <1>1 DEF Reading
<1>3. Rounded(time) \in Int /\ time \in Int BY DEF Rounded, Times
<1> DEFINE new == [[seat[k] EXCEPT !.read = Rounded(time)] EXCEPT !.looked = time]
           mark == [reading[r] EXCEPT !.step = "stamp"]
<1>4. new \in Seat BY <1>3 DEF Seat, InboxInv, InboxTypeOK
<1>5. mark \in Reading /\ mark.key = k /\ mark # None BY <1>1, <1>2 DEF Reading
<1>6. reading' = [reading EXCEPT ![r] = mark] /\ UNCHANGED <<clock, openVars, message, deleting>>
  BY DEF ReadCursor
<1>7. seat' = [seat EXCEPT ![k] = new]
  BY <1>2 DEF ReadCursor, InboxInv, InboxTypeOK
<1> HIDE DEF new, mark
<1>8. /\ DOMAIN seat' = DOMAIN seat /\ \A j \in DOMAIN seat : seat'[j] \in Seat
  BY <1>4, <1>7 DEF InboxInv, InboxTypeOK
<1>9. \A q \in Readings : reading'[q] = IF q = r THEN mark ELSE reading[q]
  BY <1>6 DEF InboxInv, InboxTypeOK
<1>10. ReadsSeat' /\ reading' \in [Readings -> Reading \cup {None}]
  BY <1>5, <1>6, <1>8, <1>9 DEF InboxInv, InboxTypeOK, ReadsSeat
<1> QED BY <1>6, <1>8, <1>10, SeatsChange

LEMMA ReadFindKeeps ==
    ASSUME InboxInv, NEW r \in Readings, NEW t \in Opens, NEW u \in Users, ReadFind(r, t, u)
    PROVE  InboxInv'
<1>1. PICK k \in ActiveSeats(t, u) :
        reading' = [reading EXCEPT ![r] = [key |-> k, at |-> clock, step |-> "cursor"]]
  BY DEF ReadFind
<1> DEFINE mark == [key |-> k, at |-> clock, step |-> "cursor"]
<1>2. k \in DOMAIN seat /\ k \in Keys BY DEF ActiveSeats, SeatsOf, InboxInv, InboxTypeOK
<1>3. mark \in Reading /\ mark.key = k BY <1>2 DEF Reading, InboxInv, InboxTypeOK
<1>4. UNCHANGED <<clock, seat, openVars, message, deleting>> BY DEF ReadFind
<1> HIDE DEF mark
<1>5. \A q \in Readings : reading'[q] = IF q = r THEN mark ELSE reading[q]
  BY <1>1 DEF InboxInv, InboxTypeOK, mark
<1>6. ReadsSeat' BY <1>2, <1>3, <1>4, <1>5 DEF InboxInv, ReadsSeat
<1>7. reading' \in [Readings -> Reading \cup {None}]
  BY <1>1, <1>3 DEF InboxInv, InboxTypeOK, mark
<1> QED BY <1>4, <1>6, <1>7, SeatsChange DEF InboxInv, InboxTypeOK

\* Messages change; the seats and the calls that open are left alone.
LEMMA MessagesChange ==
    ASSUME InboxInv, UNCHANGED <<clock, seat, openVars>>,
           message' \in [Messages -> Message \cup {None}],
           deleting' \in [Messages -> Message \cup {None}],
           reading' \in [Readings -> Reading \cup {None}],
           \A r \in Readings : reading'[r] # None =>
               reading[r] # None /\ reading'[r].key = reading[r].key,
           DeletesSame'
    PROVE  InboxInv'
<1>1. CallsSound' BY CallsStay
<1>2. InboxTypeOK' BY DEF InboxInv, InboxTypeOK, openVars
<1>3. ReadsSeat' BY DEF InboxInv, ReadsSeat
<1> QED BY <1>1, <1>2, <1>3 DEF InboxInv

\* One message changes, and what a deletion holds of it is the same in it.
LEMMA MessageChanges ==
    ASSUME InboxInv, NEW m \in Messages, NEW new \in Message,
           message' = [message EXCEPT ![m] = new], UNCHANGED <<clock, seat, openVars, reading, deleting>>,
           deleting[m] # None =>
               /\ new.committed /\ new.thread = message[m].thread
               /\ new.from = message[m].from /\ new.at = message[m].at
    PROVE  InboxInv'
<1>1. \A n \in Messages : message'[n] = IF n = m THEN new ELSE message[n]
  BY DEF InboxInv, InboxTypeOK
<1>2. DeletesSame' BY <1>1 DEF InboxInv, DeletesSame
<1>3. message' \in [Messages -> Message \cup {None}] BY DEF InboxInv, InboxTypeOK
<1> QED BY <1>2, <1>3, MessagesChange DEF InboxInv, InboxTypeOK

LEMMA SendKeeps ==
    ASSUME InboxInv, NEW m \in Messages, NEW t \in Opens, NEW a \in Actors, Send(m, t, a)
    PROVE  InboxInv'
<1> DEFINE new == [thread |-> t, from |-> a, at |-> clock, read |-> FALSE, committed |-> FALSE,
                   deleted |-> FALSE]
<1>1. new \in Message BY DEF Message, InboxInv, InboxTypeOK
<1>2. deleting[m] = None BY DEF Send, InboxInv, DeletesSame
<1>3. message' = [message EXCEPT ![m] = new] /\ UNCHANGED <<clock, seat, openVars, reading, deleting>>
  BY DEF Send
<1> HIDE DEF new
<1> QED BY <1>1, <1>2, <1>3, MessageChanges

LEMMA CommitKeeps ==
    ASSUME InboxInv, NEW m \in Messages, Commit(m)
    PROVE  InboxInv'
<1> DEFINE new == [message[m] EXCEPT !.committed = TRUE]
<1>1. message[m] \in Message BY DEF Commit, InboxInv, InboxTypeOK
<1>2. /\ new \in Message /\ new.committed /\ new.thread = message[m].thread
      /\ new.from = message[m].from /\ new.at = message[m].at
  BY <1>1 DEF Message
<1>3. message' = [message EXCEPT ![m] = new] /\ UNCHANGED <<clock, seat, openVars, reading, deleting>>
  BY DEF Commit
<1> HIDE DEF new
<1> QED BY <1>2, <1>3, MessageChanges

LEMMA DeleteFindKeeps ==
    ASSUME InboxInv, NEW m \in Messages, DeleteFind(m)
    PROVE  InboxInv'
<1>1. message[m] \in Message /\ message[m] # None /\ message[m].committed
  BY DEF DeleteFind, InboxInv, InboxTypeOK
<1>2. deleting' = [deleting EXCEPT ![m] = message[m]]
      /\ UNCHANGED <<clock, seat, openVars, message, reading>>
  BY DEF DeleteFind
<1>3. \A n \in Messages : deleting'[n] = IF n = m THEN message[m] ELSE deleting[n]
  BY <1>2 DEF InboxInv, InboxTypeOK
<1>4. DeletesSame' BY <1>1, <1>2, <1>3 DEF InboxInv, DeletesSame
<1>5. deleting' \in [Messages -> Message \cup {None}] BY <1>1, <1>2 DEF InboxInv, InboxTypeOK
<1> QED BY <1>2, <1>4, <1>5, MessagesChange DEF InboxInv, InboxTypeOK

LEMMA DeleteSaveKeeps ==
    ASSUME InboxInv, NEW m \in Messages, DeleteSave(m)
    PROVE  InboxInv'
<1> DEFINE new == [deleting[m] EXCEPT !.deleted = TRUE]
<1>1. deleting[m] \in Message BY DEF DeleteSave, InboxInv, InboxTypeOK
<1>2. new \in Message BY <1>1 DEF Message
<1>3. /\ message' = [message EXCEPT ![m] = new] /\ deleting' = [deleting EXCEPT ![m] = None]
      /\ UNCHANGED <<clock, seat, openVars, reading>>
  BY DEF DeleteSave
<1> HIDE DEF new
<1>4. \A n \in Messages : /\ n # m => message'[n] = message[n] /\ deleting'[n] = deleting[n]
                          /\ deleting'[m] = None
  BY <1>3 DEF InboxInv, InboxTypeOK
<1>5. DeletesSame' BY <1>4 DEF InboxInv, DeletesSame
<1>6. /\ message' \in [Messages -> Message \cup {None}]
      /\ deleting' \in [Messages -> Message \cup {None}]
  BY <1>2, <1>3 DEF InboxInv, InboxTypeOK
<1> QED BY <1>3, <1>5, <1>6, MessagesChange DEF InboxInv, InboxTypeOK

LEMMA ReadStampKeeps ==
    ASSUME InboxInv, NEW r \in Readings, ReadStamp(r)
    PROVE  InboxInv'
<1> DEFINE mark == [reading[r] EXCEPT !.step = "done"]
<1>1. reading[r] \in Reading /\ reading[r] # None
  BY DEF ReadStamp, InboxInv, InboxTypeOK
<1>2. mark \in Reading /\ mark.key = reading[r].key BY <1>1 DEF Reading
<1>3. reading' = [reading EXCEPT ![r] = mark] /\ UNCHANGED <<clock, seat, openVars, deleting>>
  BY DEF ReadStamp
<1> HIDE DEF mark
<1>4. /\ reading' \in [Readings -> Reading \cup {None}]
      /\ \A q \in Readings : reading'[q] = IF q = r THEN mark ELSE reading[q]
  BY <1>2, <1>3 DEF InboxInv, InboxTypeOK
<1>5. ASSUME NEW m \in Messages
      PROVE  /\ message'[m] \in Message \cup {None}
             /\ message[m] # None =>
                   /\ message'[m] # None /\ message'[m].committed = message[m].committed
                   /\ message'[m].thread = message[m].thread
                   /\ message'[m].from = message[m].from
                   /\ message'[m].at = message[m].at
  <2> DEFINE new == [message[m] EXCEPT !.read = TRUE]
  <2>1. ASSUME message[m] # None
        PROVE  /\ new \in Message /\ new.committed = message[m].committed
               /\ new.thread = message[m].thread /\ new.from = message[m].from
               /\ new.at = message[m].at
    <3>1. message[m] \in Message BY <2>1 DEF InboxInv, InboxTypeOK
    <3> QED BY <3>1 DEF Message
  <2>2. (message'[m] = new /\ message[m] # None) \/ message'[m] = message[m]
    BY DEF ReadStamp, Visible
  <2> HIDE DEF new
  <2> QED BY <2>1, <2>2 DEF InboxInv, InboxTypeOK
<1>6. message' \in [Messages -> Message \cup {None}] BY <1>5 DEF ReadStamp
<1>7. DeletesSame' BY <1>3, <1>5 DEF InboxInv, DeletesSame
<1> QED BY <1>1, <1>2, <1>3, <1>4, <1>6, <1>7, MessagesChange DEF InboxInv, InboxTypeOK

LEMMA InboxTickKeeps ==
    ASSUME InboxInv, Tick
    PROVE  InboxInv'
<1>1. clock' \in Times BY DEF Tick, Times, InboxInv, InboxTypeOK
<1>2. UNCHANGED <<seat, openVars, readVars>> BY DEF Tick
<1>3. CallsSound' BY <1>2, CallsStay
<1>4. InboxTypeOK' /\ ReadsSeat' /\ DeletesSame'
  BY <1>1, <1>2 DEF InboxInv, InboxTypeOK, ReadsSeat, DeletesSame, openVars, readVars
<1> QED BY <1>3, <1>4 DEF InboxInv

LEMMA StepInbox == InboxInv /\ [InboxNext]_inboxVars => InboxInv'
<1> SUFFICES ASSUME InboxInv, [InboxNext]_inboxVars PROVE InboxInv'
  OBVIOUS
<1>1. ASSUME NEW c \in Opens, OpenStep(c) PROVE InboxInv'
  <2>1. CASE \E a \in Users, s \in Subjects \cup {None}, others \in SUBSET Users :
                Begin(c, a, s, others)
    BY <2>1, BeginKeeps
  <2>2. CASE \E g \in Guests : BeginGuest(c, g) BY <2>2, BeginGuestKeeps
  <2>3. CASE FindExisting(c) \/ FindNone(c) \/ Ensure(c) \/ Lost(c)
    BY <2>3, FindExistingKeeps, FindNoneKeeps, EnsureKeeps, LostKeeps
  <2>4. CASE Insert(c) \/ SaveSeat(c) \/ SaveOthers(c) \/ Greet(c)
    BY <2>4, InsertKeeps, SaveSeatKeeps, SaveOthersKeeps, GreetKeeps
  <2> QED BY <1>1, <2>1, <2>2, <2>3, <2>4 DEF OpenStep
<1>2. ASSUME NEW k \in DOMAIN seat, Leave(k) PROVE InboxInv' BY <1>2, LeaveKeeps
<1>3. ASSUME NEW m \in Messages, MessageStep(m) PROVE InboxInv'
  BY <1>3, SendKeeps, CommitKeeps, DeleteFindKeeps, DeleteSaveKeeps DEF MessageStep
<1>4. ASSUME NEW r \in Readings, ReadStep(r) PROVE InboxInv'
  BY <1>4, ReadFindKeeps, ReadCursorKeeps, ReadStampKeeps DEF ReadStep
<1>5. CASE Tick BY <1>5, InboxTickKeeps
<1>6. CASE UNCHANGED inboxVars
  <2>1. CallsSound' BY <1>6, CallsStay DEF inboxVars, openVars
  <2> QED BY <1>6, <2>1 DEF inboxVars, InboxInv, InboxTypeOK, ReadsSeat, DeletesSame
<1> QED BY <1>1, <1>2, <1>3, <1>4, <1>5, <1>6 DEF InboxNext

LEMMA SpecInbox == InboxSpec => []InboxInv
BY InitInbox, StepInbox, PTL DEF InboxSpec

\* The calls, threads, seats, messages and marks keep their types.
THEOREM InboxTyped == InboxSpec => []InboxTypeOK
<1>1. InboxInv => InboxTypeOK BY DEF InboxInv
<1> QED BY <1>1, SpecInbox, PTL

\* However the calls of createOrOpen fall among each other and wherever one stops,
\* the actor answered has a seat in the thread answered, and a call that began when
\* the subject had a thread does not insert another.
THEOREM ThreadsAreReused == InboxSpec => []OpenedIsReused
<1>1. InboxInv => OpenedIsReused
  BY DEF InboxInv, CallsSound, CallSound, OpenedIsReused
<1> QED BY <1>1, SpecInbox, PTL

-----------------------------------------------------------------------------
(* Inbox: what leaves the unread ones *)

\* No message that is visible goes, or changes its thread, its sender or its time.
LEMMA MessagesStay ==
    ASSUME InboxInv, InboxNext, NEW m \in Messages, message[m] # None, message[m].committed
    PROVE  /\ message'[m] # None /\ message'[m].committed
           /\ message'[m].thread = message[m].thread
           /\ message'[m].from = message[m].from
           /\ message'[m].at = message[m].at
<1>1. message[m] \in Message BY DEF InboxInv, InboxTypeOK
<1>2. ASSUME NEW n \in Messages, \/ Commit(n)
                                 \/ \E t \in Opens, a \in Actors : Send(n, t, a)
      PROVE  message'[m] = message[m]
  BY <1>2 DEF Send, Commit, InboxInv, InboxTypeOK
<1>3. ASSUME NEW n \in Messages, DeleteSave(n)
      PROVE  \/ message'[m] = message[m]
             \/ /\ message'[m] = [deleting[m] EXCEPT !.deleted = TRUE]
                /\ deleting[m] \in Message /\ deleting[m] # None
  BY <1>3 DEF DeleteSave, InboxInv, InboxTypeOK
<1>4. ASSUME NEW r \in Readings, ReadStamp(r)
      PROVE  message'[m] = message[m] \/ message'[m] = [message[m] EXCEPT !.read = TRUE]
  BY <1>4 DEF ReadStamp
<1>5. ASSUME NEW c \in Opens, OpenStep(c) PROVE message' = message
  BY <1>5 DEF OpenStep, Begin, BeginGuest, FindExisting, FindNone, Ensure, Insert, SaveSeat,
              SaveOthers, Greet, Lost, readVars
<1>6. ASSUME \/ \E k \in DOMAIN seat : Leave(k)
             \/ \E n \in Messages : DeleteFind(n)
             \/ \E r \in Readings : ReadCursor(r) \/ \E t \in Opens, u \in Users : ReadFind(r, t, u)
             \/ Tick
      PROVE  message' = message
  BY <1>6 DEF Leave, DeleteFind, ReadCursor, ReadFind, Tick, readVars
<1>7. CASE /\ message'[m] = [deleting[m] EXCEPT !.deleted = TRUE]
           /\ deleting[m] \in Message /\ deleting[m] # None
  <2> DEFINE new == [deleting[m] EXCEPT !.deleted = TRUE]
  <2>1. /\ new \in Message /\ new.committed = deleting[m].committed
        /\ new.thread = deleting[m].thread /\ new.from = deleting[m].from
        /\ new.at = deleting[m].at
    BY <1>7 DEF Message
  <2>2. message'[m] = new BY <1>7
  <2> HIDE DEF new
  <2> QED BY <1>7, <2>1, <2>2 DEF InboxInv, DeletesSame
<1>8. CASE message'[m] = [message[m] EXCEPT !.read = TRUE]
  <2> DEFINE new == [message[m] EXCEPT !.read = TRUE]
  <2>1. /\ new \in Message /\ new.committed = message[m].committed
        /\ new.thread = message[m].thread /\ new.from = message[m].from
        /\ new.at = message[m].at
    BY <1>1 DEF Message
  <2>2. message'[m] = new BY <1>8
  <2> HIDE DEF new
  <2> QED BY <2>1, <2>2
<1>9. CASE message'[m] = message[m] BY <1>1, <1>9
<1> QED
  BY <1>2, <1>3, <1>4, <1>5, <1>6, <1>7, <1>8, <1>9 DEF InboxNext, MessageStep, ReadStep

\* A seat keeps its mark, unless a call of markRead sets it to the time it took.
LEMMA MarksStay ==
    ASSUME InboxInv, InboxNext, NEW k \in DOMAIN seat
    PROVE  /\ k \in DOMAIN seat'
           /\ \/ seat'[k].read = seat[k].read
              \/ \E r \in Readings : /\ ReadCursor(r) /\ reading[r].key = k
                                     /\ seat'[k].read = Rounded(reading[r].at)
<1>1. seat[k] \in Seat BY DEF InboxInv, InboxTypeOK
<1>2. ASSUME NEW c \in Opens, OpenStep(c), seat' # seat
      PROVE  \E keys \in SUBSET Keys : seat' = WithSeats(keys)
  <2>1. CASE SaveSeat(c)
    <3>1. open[c] \in Open BY <2>1, Asks DEF SaveSeat
    <3>2. open[c].found \in Opens /\ open[c].actor \in Actors
      BY <2>1, <3>1 DEF SaveSeat, InboxInv, CallsSound, CallSound, Open
    <3>3. {<<open[c].found, open[c].actor, c, "owner">>} \in SUBSET Keys BY <3>2 DEF Keys
    <3> QED BY <2>1, <3>3 DEF SaveSeat
  <2>2. CASE SaveOthers(c)
    <3>1. open[c] \in Open BY <2>2, Asks DEF SaveOthers
    <3>2. PICK known \in SUBSET open[c].with :
            seat' = WithSeats({<<c, u, c, "listed">> : u \in known})
      BY <2>2 DEF SaveOthers
    <3>3. {<<c, u, c, "listed">> : u \in known} \in SUBSET Keys BY <3>1 DEF Keys, Open, Actors
    <3> QED BY <3>2, <3>3
  <2> QED BY <1>2, <2>1, <2>2 DEF OpenStep, Begin, BeginGuest, FindExisting, FindNone, Ensure,
                                  Insert, Greet, Lost
<1>3. ASSUME NEW j \in DOMAIN seat, Leave(j)
      PROVE  DOMAIN seat' = DOMAIN seat /\ seat'[k].read = seat[k].read
  <2>1. [seat[j] EXCEPT !.active = FALSE].read = seat[j].read
    BY DEF InboxInv, InboxTypeOK, Seat
  <2> QED BY <1>3, <2>1 DEF Leave, InboxInv, InboxTypeOK
<1>4. ASSUME NEW r \in Readings, ReadCursor(r)
      PROVE  /\ DOMAIN seat' = DOMAIN seat
             /\ IF reading[r].key = k THEN seat'[k].read = Rounded(reading[r].at)
                ELSE seat'[k] = seat[k]
  <2>1. seat' = [seat EXCEPT ![reading[r].key] =
                    [[seat[reading[r].key] EXCEPT !.read = Rounded(reading[r].at)]
                        EXCEPT !.looked = reading[r].at]]
    BY <1>4 DEF ReadCursor
  <2> DEFINE new == [[seat[k] EXCEPT !.read = Rounded(reading[r].at)] EXCEPT !.looked = reading[r].at]
  <2>2. new.read = Rounded(reading[r].at) BY <1>1 DEF Seat
  <2>3. reading[r].key = k => seat'[k] = new BY <2>1
  <2> HIDE DEF new
  <2> QED BY <2>1, <2>2, <2>3
<1>5. ASSUME \/ \E m \in Messages : MessageStep(m)
             \/ \E r \in Readings : ReadStamp(r) \/ \E t \in Opens, u \in Users : ReadFind(r, t, u)
             \/ Tick
      PROVE  seat' = seat
  BY <1>5 DEF MessageStep, Send, Commit, DeleteFind, DeleteSave, ReadStamp, ReadFind, Tick
<1>6. ASSUME NEW keys \in SUBSET Keys, seat' = WithSeats(keys)
      PROVE  k \in DOMAIN seat' /\ seat'[k] = seat[k]
  BY <1>6, Seating DEF InboxInv
<1> QED BY <1>2, <1>3, <1>4, <1>5, <1>6 DEF InboxNext, ReadStep

LEMMA ReadingClears ==
    ASSUME InboxInv, InboxNext, NEW k \in DOMAIN seat, NEW m \in Unread(k)
    PROVE  \/ m \in Unread(k)'
           \/ \E r \in Readings :
                 /\ reading[r] # None /\ reading[r].key = k
                 /\ reading[r].step = "cursor" /\ reading'[r].step = "stamp"
                 /\ message[m].at <= reading[r].at + 1
<1>1. /\ m \in Messages /\ message[m] # None /\ message[m].committed
      /\ message[m].thread = k[1] /\ message[m].from # k[2] /\ message[m].at > seat[k].read
  BY DEF Unread, Visible
<1>2. /\ message'[m] # None /\ message'[m].committed
      /\ message'[m].thread = message[m].thread
      /\ message'[m].from = message[m].from
      /\ message'[m].at = message[m].at
  BY <1>1, MessagesStay
<1>3. message[m].at > seat'[k].read => m \in Unread(k)' BY <1>1, <1>2 DEF Unread, Visible
<1>4. CASE seat'[k].read = seat[k].read BY <1>1, <1>3, <1>4
<1>5. ASSUME NEW r \in Readings, ReadCursor(r), reading[r].key = k,
             seat'[k].read = Rounded(reading[r].at)
      PROVE  \/ message[m].at > seat'[k].read
             \/ /\ reading[r] # None /\ reading[r].step = "cursor" /\ reading'[r].step = "stamp"
                /\ message[m].at <= reading[r].at + 1
  <2>1. reading[r] \in Reading /\ message[m] \in Message
    BY <1>1, <1>5 DEF ReadCursor, InboxInv, InboxTypeOK
  <2>2. reading[r].at \in Nat /\ message[m].at \in Nat BY <2>1 DEF Reading, Message, Times
  <2>3. Rounded(reading[r].at) \in Int /\ Rounded(reading[r].at) <= reading[r].at + 1
    <3>1. PICK time \in Nat : time = reading[r].at BY <2>2
    <3> QED BY <3>1 DEF Rounded
  <2>4. [reading[r] EXCEPT !.step = "stamp"].step = "stamp" BY <2>1 DEF Reading
  <2>5. reading'[r].step = "stamp" /\ reading[r] # None /\ reading[r].step = "cursor"
    BY <1>5, <2>4 DEF ReadCursor, InboxInv, InboxTypeOK
  <2> QED BY <1>5, <2>2, <2>3, <2>5
<1> QED BY <1>3, <1>4, <1>5, MarksStay

\* A message leaves the unread ones of a participant by their own mark only, of a
\* time no more than half a second before it.
THEOREM UnreadUntilRead == InboxSpec => OnlyReadingClears
<1>1. ASSUME InboxInv, UNCHANGED inboxVars, NEW k \in DOMAIN seat, NEW m \in Unread(k)
      PROVE  m \in Unread(k)'
  BY <1>1 DEF inboxVars, Unread, Visible
<1>2. InboxInv /\ [InboxNext]_inboxVars =>
        [\A k \in DOMAIN seat : \A m \in Unread(k) :
          \/ m \in Unread(k)'
          \/ \E r \in Readings :
                /\ reading[r] # None /\ reading[r].key = k
                /\ reading[r].step = "cursor" /\ reading'[r].step = "stamp"
                /\ message[m].at <= reading[r].at + 1]_inboxVars
  BY <1>1, ReadingClears
<1> QED BY <1>2, SpecInbox, PTL DEF InboxSpec, OnlyReadingClears
=============================================================================
