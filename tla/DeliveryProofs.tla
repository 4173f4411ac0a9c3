--------------------------- MODULE DeliveryProofs ---------------------------
(***************************************************************************)
(* Theorems about what is delivered: about Mail, for every set of mails,   *)
(* jobs and rows, any number of attempts, and with or without a crash; and *)
(* about Notifications, for every set of users, calls and identifiers.     *)
(***************************************************************************)
EXTENDS Mail, Notifications, TLAPS

Done == {"sent", "completed"}

\* What a job has been through by the time it stands at a place.
JobShape ==
    \A j \in Live :
        /\ job[j].mail \in accepted
        /\ job[j].at = "asked" => job[j].from # NoRow
        /\ job[j].at # "failed" => job[j].tries < Attempts
        /\ job[j].at \in Done => job[j].mail \in delivered

RowShape == \A r \in Rows : row[r] # NoRow => row[r].mail \in accepted

OneRow == \A r, s \in Rows : row[r] # NoRow /\ row[s] # NoRow /\ row[r].mail = row[s].mail => r = s

\* A retry traces its row; once that is gone its mail was sent, and has no other.
Traced ==
    \A j \in Live : job[j].from # NoRow =>
        IF row[job[j].from] # NoRow THEN row[job[j].from].mail = job[j].mail
        ELSE job[j].mail \in delivered /\ RowsOf(job[j].mail) = {}

\* The first job of a mail is alone with it: no row yet, no retry, and not sent
\* while it is tried.
FirstAlone ==
    \A j \in Live : job[j].from = NoRow =>
        /\ RowsOf(job[j].mail) = {}
        /\ \A k \in Live : job[k].mail = job[j].mail => k = j
        /\ job[j].at \notin Done /\ job[j].mail \notin hurt => job[j].mail \notin delivered

\* The row of a mail that was sent has yet to be deleted by the retry that sent it.
RowsLeave ==
    \A m \in delivered \ hurt : RowsOf(m) # {} =>
        \E j \in Live : job[j].mail = m /\ job[j].at \in Done

IInv == TypeOK /\ JobShape /\ RowShape /\ OneRow /\ Traced /\ FirstAlone /\ RowsLeave /\ NoMailLost

USE MailAssumption, NullAssumption

LEMMA InitIInv == Init => IInv
BY DEF Init, IInv, TypeOK, JobShape, RowShape, OneRow, Traced, FirstAlone, RowsLeave, NoMailLost,
       Live

\* A row and a job that are there have their types.
LEMMA Typed ==
    ASSUME TypeOK
    PROVE  /\ \A j \in Live : j \in Jobs /\ job[j] \in Job
           /\ \A r \in Rows : row[r] # NoRow => row[r] \in Row
BY DEF TypeOK, Live

-----------------------------------------------------------------------------
(* The queue *)

\* A job goes from one place to the next, and keeps its mail and its row.
LEMMA JobMoves ==
    ASSUME IInv, NEW j \in Live, job' = [job EXCEPT ![j] = job'[j]], job'[j] \in Job,
           job'[j].mail = job[j].mail, job'[j].from = job[j].from, job'[j].at # "asked",
           job'[j].at # "failed" => job'[j].tries < Attempts,
           job[j].at \in Done => job'[j].at \in Done,
           IF job'[j].at \in Done THEN delivered' = delivered \cup {job[j].mail}
           ELSE delivered' = delivered,
           UNCHANGED <<row, accepted, hurt, crashes>>
    PROVE  IInv'
<1>1. TypeOK /\ JobShape /\ RowShape /\ OneRow /\ Traced /\ FirstAlone /\ RowsLeave /\ NoMailLost
  BY DEF IInv
<1>2. /\ j \in Jobs /\ Live' = Live
      /\ \A k \in Live : /\ k # j => job'[k] = job[k]
                         /\ job'[k].mail = job[k].mail /\ job'[k].from = job[k].from
  BY <1>1 DEF Live, TypeOK
<1>3. \A m : RowsOf(m)' = RowsOf(m) BY DEF RowsOf
<1>4. job[j].mail \in accepted BY <1>1 DEF JobShape
<1>5. TypeOK' BY <1>1, <1>2, <1>4 DEF TypeOK
<1>6. JobShape' BY <1>1, <1>2 DEF JobShape
<1>7. RowShape' /\ OneRow' BY <1>1 DEF RowShape, OneRow
<1>8. Traced' BY <1>1, <1>2, <1>3 DEF Traced
<1>9. FirstAlone' BY <1>1, <1>2, <1>3 DEF FirstAlone
<1>10. RowsLeave' BY <1>1, <1>2, <1>3 DEF RowsLeave
<1>11. NoMailLost' BY <1>1, <1>2, <1>3 DEF NoMailLost, InFlight
<1> QED BY <1>5, <1>6, <1>7, <1>8, <1>9, <1>10, <1>11 DEF IInv

LEMMA QueueKeeps ==
    ASSUME IInv, NEW j \in Jobs,
           Start(j) \/ Process(j) \/ SmtpFails(j) \/ Complete(j) \/ RetryAdd(j)
    PROVE  IInv'
<1>1. TypeOK /\ JobShape BY DEF IInv
<1>2. j \in Live /\ job[j] \in Job
  BY <1>1, Typed DEF Start, Process, SmtpFails, Complete, RetryAdd, At
<1>3. ASSUME NEW a \in {"wait", "active", "sent", "completed"}, Moves(j, a)
      PROVE  job' = [job EXCEPT ![j] = job'[j]] /\ job'[j] = [job[j] EXCEPT !.at = a]
  BY <1>1, <1>3 DEF Moves, TypeOK
<1>4. CASE Start(j) \/ RetryAdd(j)
  BY <1>1, <1>2, <1>3, <1>4, JobMoves DEF Start, RetryAdd, At, JobShape, Job, Done
<1>5. CASE Process(j)
  BY <1>1, <1>2, <1>3, <1>5, JobMoves DEF Process, At, JobShape, Job, Done
<1>6. CASE Complete(j)
  <2>1. delivered' = delivered \cup {job[j].mail}
    BY <1>1, <1>2, <1>6 DEF Complete, At, JobShape, Done
  <2> QED BY <1>1, <1>2, <1>3, <1>6, <2>1, JobMoves DEF Complete, At, JobShape, Job, Done
<1>7. CASE SmtpFails(j)
  <2> DEFINE a == IF job[j].tries + 1 < Attempts THEN "wait" ELSE "failed"
  <2>1. /\ job' = [job EXCEPT ![j] = job'[j]]
        /\ job'[j] = [job[j] EXCEPT !.tries = job[j].tries + 1, !.at = a]
    BY <1>1, <1>7 DEF SmtpFails, TypeOK
  <2>2. job[j].tries < Attempts /\ job[j].tries \in 0 .. Attempts
    BY <1>1, <1>2, <1>7 DEF SmtpFails, At, JobShape, Job
  <2>3. /\ job'[j].mail = job[j].mail /\ job'[j].from = job[j].from
        /\ job'[j].at = a /\ job'[j].tries = job[j].tries + 1
    BY <1>2, <2>1 DEF Job
  <2>4. job[j].tries + 1 \in 0 .. Attempts BY <2>2
  <2>5. job'[j] \in Job BY <1>2, <2>1, <2>4 DEF Job
  <2>6. a \notin Done /\ a # "asked" /\ job[j].at \notin Done
    BY <1>7 DEF SmtpFails, At, Done
  <2>7. a # "failed" => job'[j].tries < Attempts BY <2>3
  <2> QED BY <1>2, <1>7, <2>1, <2>3, <2>5, <2>6, <2>7, JobMoves DEF SmtpFails
<1> QED BY <1>4, <1>5, <1>6, <1>7

\* A job is added: the first of its mail, or the retry of a row.
LEMMA JobAdded ==
    ASSUME IInv, NEW j \in Jobs, job[j] = NoJob, NEW m \in Mails,
           NEW r \in Rows \cup {NoRow}, NEW place \in {"asked", "wait"},
           job' = [job EXCEPT ![j] = NewJob(m, r, place)],
           accepted' = accepted \cup {m}, UNCHANGED <<row, delivered, hurt, crashes>>,
           IF r = NoRow THEN place = "wait" /\ m \notin accepted
           ELSE row[r] # NoRow /\ row[r].mail = m
    PROVE  IInv'
<1>1. TypeOK /\ JobShape /\ RowShape /\ OneRow /\ Traced /\ FirstAlone /\ RowsLeave /\ NoMailLost
  BY DEF IInv
<1>2. NewJob(m, r, place) \in Job BY DEF NewJob, Job
<1>3. /\ Live' = Live \cup {j} /\ j \notin Live
      /\ \A k \in Live : job'[k] = job[k]
      /\ job'[j] = NewJob(m, r, place)
  BY <1>1, <1>2 DEF Live, TypeOK
<1>4. \A n : RowsOf(n)' = RowsOf(n) BY DEF RowsOf
<1>5. TypeOK' BY <1>1, <1>2 DEF TypeOK
<1>6. JobShape' BY <1>1, <1>3 DEF JobShape, NewJob, Done
<1>7. RowShape' /\ OneRow' BY <1>1 DEF RowShape, OneRow
<1>8. Traced' BY <1>1, <1>3, <1>4 DEF Traced, NewJob
<1>9. FirstAlone'
  <2>1. CASE r = NoRow
    <3>1. RowsOf(m) = {} BY <1>1, <2>1 DEF RowShape, RowsOf
    <3>2. \A k \in Live : job[k].mail # m BY <1>1, <2>1 DEF JobShape
    <3>3. m \notin delivered BY <1>1, <2>1 DEF TypeOK
    <3> QED BY <1>1, <1>3, <1>4, <3>1, <3>2, <3>3 DEF FirstAlone, NewJob
  <2>2. CASE r # NoRow
    <3>1. r \in RowsOf(m) BY <2>2 DEF RowsOf
    <3> QED BY <1>1, <1>3, <1>4, <2>2, <3>1 DEF FirstAlone, NewJob
  <2> QED BY <2>1, <2>2
<1>10. RowsLeave' BY <1>1, <1>3, <1>4 DEF RowsLeave
<1>11. NoMailLost' BY <1>1, <1>3, <1>4 DEF NoMailLost, InFlight, NewJob
<1> QED BY <1>5, <1>6, <1>7, <1>8, <1>9, <1>10, <1>11 DEF IInv

LEMMA ArrivalsKeep ==
    ASSUME IInv, NEW j \in Jobs,
           (\E m \in Mails : Enqueue(j, m)) \/ (\E r \in Rows : Retry(j, r))
    PROVE  IInv'
<1>1. CASE \E m \in Mails : Enqueue(j, m) BY <1>1, JobAdded DEF Enqueue
<1>2. ASSUME NEW r \in Rows, Retry(j, r) PROVE IInv'
  <2>1. row[r] \in Row /\ row[r].mail \in accepted
    BY <1>2, Typed DEF IInv, Retry, RowShape
  <2>2. row[r].mail \in Mails /\ r # NoRow /\ accepted' = accepted \cup {row[r].mail}
    BY <1>2, <2>1 DEF Retry, Row
  <2> QED BY <1>2, <2>2, JobAdded DEF Retry
<1> QED BY <1>1, <1>2

-----------------------------------------------------------------------------
(* The events, the back office, the crash *)

\* A job is over: nothing of it is left but what its event has written.
LEMMA JobOver ==
    ASSUME TypeOK, NEW j \in Live, Leaves(j)
    PROVE  /\ job' \in [Jobs -> Job \cup {NoJob}]
           /\ Live' = Live \ {j}
           /\ \A k \in Live' : job'[k] = job[k]
BY DEF Leaves, TypeOK, Live

\* The event of a job meets a database error: the row stays as it was.
LEMMA EventHurts ==
    ASSUME IInv, NEW j \in Live, Leaves(j), hurt' = hurt \cup {job[j].mail},
           UNCHANGED <<row, accepted, delivered, crashes>>
    PROVE  IInv'
<1>1. TypeOK /\ JobShape /\ RowShape /\ OneRow /\ Traced /\ FirstAlone /\ RowsLeave /\ NoMailLost
  BY DEF IInv
<1>2. \A m : RowsOf(m)' = RowsOf(m) BY DEF RowsOf
<1>3. /\ job' \in [Jobs -> Job \cup {NoJob}]
      /\ Live' = Live \ {j}
      /\ \A k \in Live' : job'[k] = job[k]
  BY <1>1, JobOver
<1>4. job[j].mail \in accepted BY <1>1 DEF JobShape
<1>5. TypeOK' BY <1>1, <1>3, <1>4 DEF TypeOK
<1>6. JobShape' BY <1>1, <1>3 DEF JobShape
<1>7. RowShape' /\ OneRow' BY <1>1 DEF RowShape, OneRow
<1>8. Traced' BY <1>1, <1>2, <1>3 DEF Traced
<1>9. FirstAlone' BY <1>1, <1>2, <1>3 DEF FirstAlone
<1>10. RowsLeave' BY <1>1, <1>2, <1>3 DEF RowsLeave
<1>11. NoMailLost' BY <1>1, <1>2, <1>3 DEF NoMailLost, InFlight
<1> QED BY <1>5, <1>6, <1>7, <1>8, <1>9, <1>10, <1>11 DEF IInv

LEMMA OnJobCompletedKeeps == ASSUME IInv, NEW j \in Jobs, OnJobCompleted(j) PROVE IInv'
<1>1. TypeOK /\ JobShape /\ RowShape /\ OneRow /\ Traced /\ FirstAlone /\ RowsLeave /\ NoMailLost
  BY DEF IInv
<1>2. j \in Live /\ job[j] \in Job /\ Leaves(j) BY <1>1, Typed DEF OnJobCompleted, At
<1>3. CASE hurt' = hurt \cup {job[j].mail} /\ UNCHANGED row
  BY <1>2, <1>3, EventHurts DEF OnJobCompleted
<1>4. CASE /\ UNCHANGED hurt
           /\ row' = IF job[j].from = NoRow THEN row ELSE [row EXCEPT ![job[j].from] = NoRow]
  <2> PICK m \in Mails : m = job[j].mail BY <1>2 DEF Job
  <2>1. m \in delivered BY <1>1, <1>2 DEF OnJobCompleted, At, JobShape, Done
  <2>2. /\ job' \in [Jobs -> Job \cup {NoJob}]
        /\ Live' = Live \ {j}
        /\ \A k \in Live' : job'[k] = job[k]
    BY <1>1, <1>2, JobOver
  <2>3. \A r \in Rows : row'[r] = IF r = job[j].from THEN NoRow ELSE row[r]
    BY <1>1, <1>2, <1>4 DEF TypeOK, Job
  <2>4. \A n : RowsOf(n)' = RowsOf(n) \ {job[j].from} BY <2>3 DEF RowsOf
  \* The row that goes is the only one of its mail.
  <2>5. \A r \in Rows : row[r] # NoRow /\ row[r].mail = m => row'[r] = NoRow
    <3>1. CASE job[j].from = NoRow BY <1>1, <1>2, <3>1 DEF FirstAlone, RowsOf
    <3>2. CASE job[j].from # NoRow BY <1>1, <1>2, <2>3, <3>2 DEF Traced, RowsOf, OneRow, Job
    <3> QED BY <3>1, <3>2
  <2>6. RowsOf(m)' = {} BY <2>3, <2>5 DEF RowsOf
  <2>7. \A n : n # m => RowsOf(n)' = RowsOf(n)
    <3>1. CASE job[j].from = NoRow BY <1>4, <3>1 DEF RowsOf
    <3>2. CASE job[j].from # NoRow BY <1>1, <1>2, <2>3, <3>2 DEF Traced, RowsOf, Job
    <3> QED BY <3>1, <3>2
  <2>8. TypeOK' BY <1>1, <1>4, <2>2, <2>3 DEF TypeOK, OnJobCompleted
  <2>9. JobShape' BY <1>1, <1>4, <2>2 DEF JobShape, OnJobCompleted
  <2>10. RowShape' /\ OneRow' BY <1>1, <2>3 DEF RowShape, OneRow, OnJobCompleted
  <2>11. Traced'
    <3> SUFFICES ASSUME NEW k \in Live', job'[k].from # NoRow, NEW n, n = job'[k].mail
                 PROVE  IF row'[job'[k].from] # NoRow THEN row'[job'[k].from].mail = n
                        ELSE n \in delivered' /\ RowsOf(n)' = {}
      BY DEF Traced
    <3>1. k \in Live /\ job'[k] = job[k] /\ job[k].from \in Rows /\ delivered' = delivered
      BY <1>1, <2>2, Typed DEF Job, OnJobCompleted
    <3>2. CASE job[k].mail = m
      BY <1>1, <2>1, <2>3, <2>5, <2>6, <3>1, <3>2 DEF Traced, RowsOf
    <3>3. CASE job[k].mail # m
      <4>1. row[job[k].from] # NoRow => job[k].from # job[j].from
        BY <1>1, <1>2, <3>1, <3>3 DEF Traced
      <4> QED BY <1>1, <2>3, <2>7, <3>1, <3>3, <4>1 DEF Traced
    <3> QED BY <3>2, <3>3
  <2>12. FirstAlone' BY <1>1, <1>4, <2>2, <2>4 DEF FirstAlone, OnJobCompleted
  <2>13. RowsLeave' BY <1>1, <1>4, <2>2, <2>4, <2>6 DEF RowsLeave, OnJobCompleted
  <2>14. NoMailLost' BY <1>1, <1>4, <2>1, <2>2, <2>7 DEF NoMailLost, InFlight, OnJobCompleted
  <2> QED BY <2>8, <2>9, <2>10, <2>11, <2>12, <2>13, <2>14 DEF IInv
<1> QED BY <1>3, <1>4 DEF OnJobCompleted

LEMMA OnJobFailedKeeps == ASSUME IInv, NEW j \in Jobs, OnJobFailed(j) PROVE IInv'
<1>1. TypeOK /\ JobShape /\ RowShape /\ OneRow /\ Traced /\ FirstAlone /\ RowsLeave /\ NoMailLost
  BY DEF IInv
<1>2. /\ j \in Live /\ job[j] \in Job /\ Leaves(j) /\ job[j].at \notin Done
      /\ accepted' = accepted /\ delivered' = delivered /\ crashes' = crashes
  BY <1>1, Typed DEF OnJobFailed, At, Done
<1>3. CASE hurt' = hurt \cup {job[j].mail} /\ UNCHANGED row
  BY <1>2, <1>3, EventHurts DEF OnJobFailed
<1> PICK m \in Mails : m = job[j].mail BY <1>2 DEF Job
<1>4. m \in accepted BY <1>1, <1>2 DEF JobShape
<1>5. /\ job' \in [Jobs -> Job \cup {NoJob}]
      /\ Live' = Live \ {j}
      /\ \A k \in Live' : job'[k] = job[k]
  BY <1>1, <1>2, JobOver
\* The first attempts of a mail were in vain: it gets its row, and has no other job.
<1>6. CASE job[j].from = NoRow /\ SaveFailedJob(j) /\ UNCHANGED hurt
  <2>1. PICK r \in Rows :
           /\ FreshRow(r)
           /\ row' = [row EXCEPT ![r] = [mail |-> m, status |-> "pending"]]
    BY <1>6 DEF SaveFailedJob
  <2>2. [mail |-> m, status |-> "pending"] \in Row BY <1>4 DEF Row
  <2>3. \A s \in Rows : row'[s] = IF s = r THEN [mail |-> m, status |-> "pending"] ELSE row[s]
    BY <1>1, <2>1 DEF TypeOK
  <2>4. row[r] = NoRow /\ row'[r] # NoRow /\ row'[r].mail = m BY <2>1, <2>2, <2>3 DEF FreshRow
  <2>5. /\ RowsOf(m)' = {r}
        /\ \A n : n # m => RowsOf(n)' = RowsOf(n)
    BY <1>1, <1>2, <1>6, <2>3, <2>4 DEF FirstAlone, RowsOf
  <2>6. \A k \in Live' : job[k].mail # m /\ job[k].from # r
    BY <1>1, <1>2, <1>5, <1>6, <2>1 DEF FirstAlone, FreshRow
  <2>7. TypeOK' BY <1>1, <1>2, <1>5, <1>6, <2>2, <2>3, <2>1 DEF TypeOK
  <2>8. JobShape' BY <1>1, <1>2, <1>5 DEF JobShape
  <2>9. RowShape' BY <1>1, <1>2, <1>4, <2>3, <2>4 DEF RowShape
  <2>10. OneRow'
    <3>1. \A s \in Rows : row[s] # NoRow => row[s].mail # m
      BY <1>1, <1>2, <1>6 DEF FirstAlone, RowsOf
    <3> QED BY <1>1, <2>3, <2>4, <3>1 DEF OneRow
  <2>11. Traced'
    <3> SUFFICES ASSUME NEW k \in Live', job'[k].from # NoRow, NEW n, n = job'[k].mail
                 PROVE  IF row'[job'[k].from] # NoRow THEN row'[job'[k].from].mail = n
                        ELSE n \in delivered' /\ RowsOf(n)' = {}
      BY DEF Traced
    <3>1. k \in Live /\ job'[k] = job[k] /\ job[k].from \in Rows
      BY <1>1, <1>5, Typed DEF Job
    <3> QED BY <1>1, <1>2, <2>3, <2>5, <2>6, <3>1 DEF Traced
  <2>12. FirstAlone' BY <1>1, <1>2, <1>5, <1>6, <2>5, <2>6 DEF FirstAlone
  <2>13. RowsLeave'
    <3>1. m \notin delivered \ hurt BY <1>1, <1>2, <1>6 DEF FirstAlone
    <3>2. \A k \in Live : job[k].at \in Done => k \in Live' BY <1>2, <1>5
    <3> QED BY <1>1, <1>2, <1>5, <1>6, <2>5, <3>1, <3>2 DEF RowsLeave
  <2>14. NoMailLost' BY <1>1, <1>2, <1>5, <1>6, <2>5 DEF NoMailLost, InFlight
  <2> QED BY <2>7, <2>8, <2>9, <2>10, <2>11, <2>12, <2>13, <2>14 DEF IInv
\* The attempts of a retry were in vain: its row stays, or was gone already.
<1>7. CASE job[j].from # NoRow /\ UpdateFailedJob(job[j].from) /\ UNCHANGED hurt
  <2>1. /\ row' \in [Rows -> Row \cup {NoRow}]
        /\ \A r \in Rows : /\ row[r] = NoRow <=> row'[r] = NoRow
                           /\ row[r] # NoRow => row'[r].mail = row[r].mail
    BY <1>1, <1>2, <1>7 DEF UpdateFailedJob, TypeOK, Row, Job
  <2>2. \A n : RowsOf(n)' = RowsOf(n) BY <2>1 DEF RowsOf
  <2>3. m \in delivered \/ RowsOf(m) # {}
    BY <1>1, <1>2, <1>7 DEF Traced, RowsOf, Job
  <2>4. TypeOK' BY <1>1, <1>2, <1>5, <1>7, <2>1 DEF TypeOK
  <2>5. JobShape' BY <1>1, <1>2, <1>5 DEF JobShape
  <2>6. RowShape' /\ OneRow' BY <1>1, <1>2, <2>1 DEF RowShape, OneRow
  <2>7. Traced'
    <3>1. \A k \in Live : job[k].from # NoRow => job[k].from \in Rows
      BY <1>1, Typed DEF Job
    <3> QED BY <1>1, <1>2, <1>5, <2>1, <2>2, <3>1 DEF Traced
  <2>8. FirstAlone' BY <1>1, <1>2, <1>5, <1>7, <2>2 DEF FirstAlone
  <2>9. RowsLeave' BY <1>1, <1>2, <1>5, <1>7, <2>2 DEF RowsLeave
  <2>10. NoMailLost' BY <1>1, <1>2, <1>5, <1>7, <2>2, <2>3 DEF NoMailLost, InFlight
  <2> QED BY <2>4, <2>5, <2>6, <2>7, <2>8, <2>9, <2>10 DEF IInv
<1> QED BY <1>3, <1>6, <1>7 DEF OnJobFailed

LEMMA AbandonKeeps == ASSUME IInv, NEW r \in Rows, Abandon(r) PROVE IInv'
<1>1. TypeOK /\ JobShape /\ RowShape /\ OneRow /\ Traced /\ FirstAlone /\ RowsLeave /\ NoMailLost
  BY DEF IInv
<1>2. /\ row' \in [Rows -> Row \cup {NoRow}]
      /\ \A s \in Rows : /\ row[s] = NoRow <=> row'[s] = NoRow
                         /\ row[s] # NoRow => row'[s].mail = row[s].mail
  BY <1>1 DEF Abandon, TypeOK, Row
<1>3. \A n : RowsOf(n)' = RowsOf(n) BY <1>2 DEF RowsOf
<1>4. Live' = Live /\ UNCHANGED <<job, accepted, delivered, hurt, crashes>>
  BY DEF Abandon, Live
<1>5. \A k \in Live : job[k].from # NoRow => job[k].from \in Rows
  BY <1>1, Typed DEF Job
<1>6. TypeOK' BY <1>1, <1>2, <1>4 DEF TypeOK
<1>7. JobShape' /\ RowShape' /\ OneRow' BY <1>1, <1>2, <1>4 DEF JobShape, RowShape, OneRow
<1>8. Traced' BY <1>1, <1>2, <1>3, <1>4, <1>5 DEF Traced
<1>9. FirstAlone' /\ RowsLeave' BY <1>1, <1>3, <1>4 DEF FirstAlone, RowsLeave
<1>10. NoMailLost' BY <1>1, <1>3, <1>4 DEF NoMailLost, InFlight
<1> QED BY <1>6, <1>7, <1>8, <1>9, <1>10 DEF IInv

LEMMA CrashKeeps == ASSUME IInv, Crash PROVE IInv'
<1>1. TypeOK /\ JobShape /\ RowShape /\ OneRow /\ Traced /\ FirstAlone /\ RowsLeave /\ NoMailLost
  BY DEF IInv
<1> DEFINE Hit == {"sent", "completed", "failed"}
           Lost == {"asked", "completed", "failed"}
<1>2. /\ job' \in [Jobs -> Job \cup {NoJob}]
      /\ Live' = {j \in Live : job[j].at \notin Lost}
      /\ \A j \in Live' : job'[j] = [job[j] EXCEPT !.at = "wait"]
  BY <1>1 DEF Crash, TypeOK, Live, Job
<1>3. ASSUME NEW j \in Live'
      PROVE  /\ job'[j].mail = job[j].mail /\ job'[j].from = job[j].from
             /\ job'[j].tries = job[j].tries /\ job'[j].at = "wait"
  <2>1. job[j] \in Job /\ job'[j] = [job[j] EXCEPT !.at = "wait"] BY <1>1, <1>2, Typed
  <2> QED BY <2>1 DEF Job
<1>4. UNCHANGED <<row, accepted, delivered>> /\ \A n : RowsOf(n)' = RowsOf(n)
  BY DEF Crash, RowsOf
<1>5. /\ hurt \subseteq hurt' /\ hurt' \subseteq accepted
      /\ \A j \in Live : job[j].at \in Hit => job[j].mail \in hurt'
  BY <1>1 DEF Crash, TypeOK, JobShape
<1>6. crashes' \in 0 .. MaxCrashes BY <1>1 DEF Crash, TypeOK
<1>7. TypeOK' BY <1>1, <1>2, <1>4, <1>5, <1>6 DEF TypeOK
<1>8. JobShape' BY <1>1, <1>2, <1>3, <1>4 DEF JobShape, Done
<1>9. RowShape' /\ OneRow' BY <1>1, <1>4 DEF RowShape, OneRow
<1>10. Traced' BY <1>1, <1>2, <1>3, <1>4 DEF Traced
<1>11. FirstAlone'
  <2> SUFFICES ASSUME NEW j \in Live', job'[j].from = NoRow, NEW n, n = job'[j].mail
               PROVE  /\ RowsOf(n)' = {}
                      /\ \A k \in Live' : job'[k].mail = n => k = j
                      /\ n \notin hurt' => n \notin delivered'
    BY DEF FirstAlone
  <2> QED BY <1>1, <1>2, <1>3, <1>4, <1>5 DEF FirstAlone, Done
<1>12. RowsLeave' BY <1>1, <1>4, <1>5 DEF RowsLeave, Done
<1>13. NoMailLost'
  <2> SUFFICES ASSUME NEW m \in accepted \ hurt', m \notin delivered, RowsOf(m) = {}
               PROVE  \E j \in Live' : job'[j].mail = m
    BY <1>4 DEF NoMailLost, InFlight
  <2>1. PICK j \in Live : job[j].mail = m BY <1>1, <1>5 DEF NoMailLost, InFlight
  <2>2. job[j].at # "asked" BY <1>1, <2>1, Typed DEF JobShape, Traced, RowsOf, Job
  <2>3. job[j].at \notin Hit BY <1>5, <2>1
  <2> QED BY <1>2, <1>3, <2>1, <2>2, <2>3
<1> QED BY <1>7, <1>8, <1>9, <1>10, <1>11, <1>12, <1>13 DEF IInv

LEMMA StepIInv == IInv /\ [Next]_vars => IInv'
<1> SUFFICES ASSUME IInv, [Next]_vars PROVE IInv' OBVIOUS
<1>1. CASE UNCHANGED vars
  BY <1>1 DEF vars, IInv, TypeOK, JobShape, RowShape, OneRow, Traced, FirstAlone, RowsLeave,
              NoMailLost, InFlight, RowsOf, Live
<1> QED BY <1>1, QueueKeeps, ArrivalsKeep, OnJobCompletedKeeps, OnJobFailedKeeps, AbandonKeeps,
           CrashKeeps DEF Next

LEMMA SpecIInv == Spec => []IInv
BY InitIInv, StepIInv, PTL DEF Spec

-----------------------------------------------------------------------------
(* The theorems *)

\* Jobs, rows and histories keep their types: no attempt past the last is made.
THEOREM MailTyped == Spec => []TypeOK
<1>1. IInv => TypeOK BY DEF IInv
<1> QED BY <1>1, SpecIInv, PTL

\* A mail asked for is sent, on its way or in the table, unless a crash or a
\* database error met it, however its retries overlap.
THEOREM MailsAreKept == Spec => []NoMailLost
<1>1. IInv => NoMailLost BY DEF IInv
<1> QED BY <1>1, SpecIInv, PTL

\* To retry a mail left in the table sends no second one.
THEOREM RecordedWereNotSent == Spec => []RecordedIsUnsent
<1>1. IInv => RecordedIsUnsent BY DEF IInv, RowsLeave, RecordedIsUnsent, InFlight
<1> QED BY <1>1, SpecIInv, PTL
-----------------------------------------------------------------------------
(* Notifications: what a reader still sees *)

USE NotificationsAssumption, NullsAssumption

\* The types of all but what the counts have seen.
RowsTyped ==
    /\ clock \in Times
    /\ notice \in [Ids -> Notice \cup {NoNotice}]
    /\ stateRead \cup dismissed \subseteq {ui \in Users \X Ids : notice[ui[2]] # NoNotice}
    /\ used \subseteq Ids
    /\ call \in [Calls -> Call \cup {Idle}]

\* An identifier is given once, so that one in the hands of a call is of the
\* notification it found, or of none.
PresentIsUsed == Present \subseteq used

Readers == {"read", "remove", "markAll", "readAll"}

ReaderShape ==
    \A c \in Calls : call[c] # Idle /\ call[c].op \in Readers =>
        call[c].user \in Users /\ call[c].ids \subseteq used

\* A call that removes had found its notification addressed to its user or to all.
RemoveFound ==
    \A c \in Calls : Runs(c, "remove") =>
        \A i \in call[c].ids \cap Present : notice[i].to \in {call[c].user, Everyone}

\* A purge and a count compare with the time they began at.
TimedBegan ==
    \A c \in Calls : Runs(c, "expired") \/ Runs(c, "retained") \/ Counts(c) => call[c].since <= clock

NotificationsInv ==
    RowsTyped /\ PresentIsUsed /\ ReaderShape /\ RemoveFound /\ TimedBegan

LEMMA InitNotifications == NotificationsInit => NotificationsInv
BY DEF NotificationsInit, NotificationsInv, RowsTyped, PresentIsUsed, ReaderShape,
       RemoveFound, TimedBegan, Present, Times, Runs, Counts

\* The calls are as they were, but for some that have ended or have fewer
\* notifications left; every notification that is there was there, for the same
\* recipient.
LEMMA CallsGoOn ==
    ASSUME NotificationsInv,
           used' = used, clock' = clock,
           \A i \in Present' : i \in Present /\ notice'[i].to = notice[i].to,
           \A c \in Calls : call'[c] # Idle =>
               \/ call'[c] = call[c]
               \/ /\ call[c] # Idle
                  /\ call[c].op = "readAll" /\ call'[c].op = "readAll"
                  /\ call'[c].user = call[c].user /\ call'[c].ids \subseteq call[c].ids
               \/ /\ Runs(c, "expired") /\ call'[c].op = "retained"
                  /\ call'[c].since = call[c].since
               \/ /\ Runs(c, "count") /\ call'[c].op = "counted"
                  /\ call'[c].since = call[c].since
    PROVE  PresentIsUsed' /\ ReaderShape' /\ RemoveFound' /\ TimedBegan'
<1> USE DEF Runs, Readers, Counts
<1>1. PresentIsUsed' BY DEF NotificationsInv, PresentIsUsed
<1>2. ReaderShape' BY DEF NotificationsInv, ReaderShape
<1>3. RemoveFound' BY DEF NotificationsInv, RemoveFound
<1>4. TimedBegan' BY DEF NotificationsInv, TimedBegan
<1> QED BY <1>1, <1>2, <1>3, <1>4

\* A call begins: what it holds is true of it.
LEMMA CallBegins ==
    ASSUME NotificationsInv, NEW c \in Calls, NEW new \in Call,
           call' = [call EXCEPT ![c] = new], clock' = clock, used' = used,
           \A i \in Present' : i \in Present /\ notice'[i].to = notice[i].to,
           new.op \in Readers => new.user \in Users /\ new.ids \subseteq used,
           new.op = "remove" =>
               \A i \in new.ids \cap Present : notice[i].to \in {new.user, Everyone},
           new.op \in {"expired", "retained", "count", "counted"} => new.since <= clock
    PROVE  PresentIsUsed' /\ ReaderShape' /\ RemoveFound' /\ TimedBegan'
<1> USE DEF Runs, Counts
<1>1. \A d \in Calls : call'[d] = IF d = c THEN new ELSE call[d]
  BY DEF NotificationsInv, RowsTyped
<1>2. PresentIsUsed' BY DEF NotificationsInv, PresentIsUsed
<1>3. ReaderShape' BY <1>1 DEF NotificationsInv, ReaderShape
<1>4. RemoveFound' BY <1>1, <1>2 DEF NotificationsInv, RemoveFound, Readers
<1>5. TimedBegan' BY <1>1 DEF NotificationsInv, TimedBegan
<1> QED BY <1>2, <1>3, <1>4, <1>5

\* The states of readers are of rows that are there.
StatesOf(rows) == {ui \in Users \X Ids : rows[ui[2]] # NoNotice}

LEMMA DeleteKeeps ==
    ASSUME NotificationsInv, NEW ids \in SUBSET Ids, Delete(ids)
    PROVE  /\ notice' \in [Ids -> Notice \cup {NoNotice}]
           /\ stateRead' \cup dismissed' \subseteq StatesOf(notice')
           /\ \A i \in Present' : i \in Present /\ i \notin ids /\ notice'[i] = notice[i]
           /\ \A i \in Present : notice'[i] = NoNotice => i \in ids
BY DEF Delete, NotificationsInv, RowsTyped, StatesOf, Present

LEMMA NotifyKeeps ==
    ASSUME NotificationsInv, NEW c \in Calls, NEW k \in Keys, NEW to \in Users \cup {Everyone},
           NEW t \in Times \cup {Never}, Notify(c, k, to, t)
    PROVE  NotificationsInv'
<1>1. PICK i \in Ids \ used :
        /\ notice' = [notice EXCEPT ![i] = [key |-> k, to |-> to, readAt |-> Never, expiresAt |-> t]]
        /\ used' = used \cup {i}
        /\ call' = [call EXCEPT ![c] = [op |-> "push", user |-> to, ids |-> {i}]]
  BY DEF Notify, Turns
<1> DEFINE new == [op |-> "push", user |-> to, ids |-> {i}]
           entry == [key |-> k, to |-> to, readAt |-> Never, expiresAt |-> t]
<1>2. new \in Call /\ new.op = "push" BY DEF Call
<1>3. entry \in Notice BY DEF Notice
<1>4. UNCHANGED <<clock, stateRead, dismissed>> BY DEF Notify
<1>5. i \notin Present BY DEF NotificationsInv, PresentIsUsed
<1> HIDE DEF new, entry
<1>6. \A j \in Ids : notice'[j] = IF j = i THEN entry ELSE notice[j]
  BY <1>1 DEF NotificationsInv, RowsTyped, entry
<1>7. \A d \in Calls : call'[d] = IF d = c THEN new ELSE call[d]
  BY <1>1 DEF NotificationsInv, RowsTyped, new
<1>8. RowsTyped'
  BY <1>1, <1>2, <1>3, <1>4, <1>6, <1>7 DEF NotificationsInv, RowsTyped, new, entry
<1>9. Present' = Present \cup {i} BY <1>3, <1>6 DEF Present
<1>10. PresentIsUsed' BY <1>1, <1>9 DEF NotificationsInv, PresentIsUsed
<1>11. ReaderShape' BY <1>1, <1>2, <1>7 DEF NotificationsInv, ReaderShape, Readers
<1>12. RemoveFound'
  <2> SUFFICES ASSUME NEW d \in Calls, Runs(d, "remove")', NEW j \in call'[d].ids \cap Present'
               PROVE  notice'[j].to \in {call'[d].user, Everyone}
    BY DEF RemoveFound
  <2>1. d # c /\ call'[d] = call[d] /\ Runs(d, "remove") BY <1>2, <1>7 DEF Runs
  <2>2. j \in used BY <2>1 DEF NotificationsInv, ReaderShape, Readers, Runs
  <2>3. j # i /\ j \in Present /\ notice'[j] = notice[j] BY <2>2, <1>6, <1>9 DEF Present
  <2> QED BY <2>1, <2>3 DEF NotificationsInv, RemoveFound
<1>13. TimedBegan' BY <1>2, <1>4, <1>7 DEF NotificationsInv, TimedBegan, Runs, Counts
<1> QED BY <1>8, <1>10, <1>11, <1>12, <1>13 DEF NotificationsInv

LEMMA PushKeeps ==
    ASSUME NotificationsInv, NEW c \in Calls, Push(c)
    PROVE  NotificationsInv'
<1>1. UNCHANGED <<clock, notice, stateRead, dismissed, used>> /\ call' = [call EXCEPT ![c] = Idle]
  BY DEF Push, Ends
<1>3. RowsTyped' BY <1>1 DEF NotificationsInv, RowsTyped
<1>4. \A d \in Calls : call'[d] # Idle => call'[d] = call[d]
  BY <1>1 DEF NotificationsInv, RowsTyped
<1>5. \A i \in Present' : i \in Present /\ notice'[i].to = notice[i].to BY <1>1 DEF Present
<1> QED BY <1>1, <1>3, <1>4, <1>5, CallsGoOn DEF NotificationsInv

LEMMA FindKeeps ==
    ASSUME NotificationsInv, NEW c \in Calls, NEW op \in {"read", "remove"}, NEW u \in Users,
           NEW i \in Ids, Find(c, op, u, i)
    PROVE  NotificationsInv'
<1> DEFINE new == [op |-> op, user |-> u, ids |-> {i}]
<1>1. new \in Call /\ new.op = op /\ new.user = u /\ new.ids = {i} BY DEF Call
<1>2. i \in Present /\ i \in used BY DEF Find, NotificationsInv, PresentIsUsed
<1>3. notice[i].to \in {u, Everyone} BY DEF Find
<1>4. UNCHANGED <<clock, notice, stateRead, dismissed, used>> /\ call' = [call EXCEPT ![c] = new]
  BY DEF Find, Turns
<1> HIDE DEF new
<1>5. RowsTyped' BY <1>1, <1>4 DEF NotificationsInv, RowsTyped
<1>6. \A j \in Present' : j \in Present /\ notice'[j].to = notice[j].to BY <1>4 DEF Present
<1> QED BY <1>1, <1>2, <1>3, <1>4, <1>5, <1>6, CallBegins DEF NotificationsInv, Readers

\* Whoever reads is a user, and a state is upserted for a notice that is there.
LEMMA ReadOneKeeps ==
    ASSUME NotificationsInv, NEW c \in Calls, NEW i \in Ids, ReadOne(c, i)
    PROVE  NotificationsInv'
<1>1. call[c].user \in Users BY DEF ReadOne, Runs, NotificationsInv, ReaderShape, Readers
<1>2. UNCHANGED <<clock, used, dismissed>> /\ call' = [call EXCEPT ![c] = Idle]
  BY DEF ReadOne, Ends, UpsertRead
<1>3. /\ notice' \in [Ids -> Notice \cup {NoNotice}]
      /\ \A j \in Ids : (notice'[j] = NoNotice <=> notice[j] = NoNotice) /\ notice'[j].to = notice[j].to
  <2>1. CASE i \in Present /\ notice[i].to # Everyone
    <3>1. notice[i] \in Notice BY <2>1 DEF Present, NotificationsInv, RowsTyped
    <3> DEFINE entry == [notice[i] EXCEPT !.readAt = clock]
    <3>2. entry \in Notice /\ entry.to = notice[i].to
      BY <3>1 DEF Notice, NotificationsInv, RowsTyped
    <3>3. notice' = [notice EXCEPT ![i] = entry] BY <2>1 DEF ReadOne
    <3> HIDE DEF entry
    <3> QED BY <2>1, <3>1, <3>2, <3>3 DEF NotificationsInv, RowsTyped
  <2>2. CASE ~(i \in Present /\ notice[i].to # Everyone)
    BY <2>2 DEF ReadOne, NotificationsInv, RowsTyped
  <2> QED BY <2>1, <2>2
<1>4. stateRead' \subseteq StatesOf(notice)
  BY <1>1 DEF ReadOne, UpsertRead, StatesOf, Present, NotificationsInv, RowsTyped
<1>5. StatesOf(notice) = StatesOf(notice)' BY <1>3 DEF StatesOf
<1>6. RowsTyped'
  BY <1>2, <1>3, <1>4, <1>5 DEF NotificationsInv, RowsTyped, StatesOf
<1>7. \A d \in Calls : call'[d] # Idle => call'[d] = call[d]
  BY <1>2 DEF NotificationsInv, RowsTyped
<1>8. \A j \in Present' : j \in Present /\ notice'[j].to = notice[j].to BY <1>3 DEF Present
<1> QED BY <1>2, <1>6, <1>7, <1>8, CallsGoOn DEF NotificationsInv

LEMMA RemoveKeeps ==
    ASSUME NotificationsInv, NEW c \in Calls, NEW i \in Ids, Remove(c, i)
    PROVE  NotificationsInv'
<1>1. call[c].user \in Users BY DEF Remove, Runs, NotificationsInv, ReaderShape, Readers
<1>2. UNCHANGED <<clock, used>> /\ call' = [call EXCEPT ![c] = Idle] BY DEF Remove, Ends
<1>3. /\ notice' \in [Ids -> Notice \cup {NoNotice}]
      /\ stateRead' \cup dismissed' \subseteq StatesOf(notice')
      /\ \A j \in Present' : j \in Present /\ notice'[j] = notice[j]
  <2>1. CASE i \in Present /\ notice[i].to # Everyone
    <3>1. Delete({i}) /\ {i} \in SUBSET Ids BY <2>1 DEF Remove
    <3> QED BY <3>1, DeleteKeeps
  <2>2. CASE ~(i \in Present /\ notice[i].to # Everyone)
    <3>1. notice' = notice BY <2>2 DEF Remove
    <3>2. stateRead' \cup dismissed' \subseteq StatesOf(notice)
      BY <1>1, <2>2 DEF Remove, StatesOf, Present, NotificationsInv, RowsTyped
    <3> QED BY <3>1, <3>2 DEF Present, NotificationsInv, RowsTyped
  <2> QED BY <2>1, <2>2
<1>4. RowsTyped' BY <1>2, <1>3 DEF NotificationsInv, RowsTyped, StatesOf
<1>5. \A d \in Calls : call'[d] # Idle => call'[d] = call[d]
  BY <1>2 DEF NotificationsInv, RowsTyped
<1> QED BY <1>2, <1>3, <1>4, <1>5, CallsGoOn DEF NotificationsInv

LEMMA ReadAllKeeps ==
    ASSUME NotificationsInv, NEW c \in Calls, NEW u \in Users, ReadAll(c, u)
    PROVE  NotificationsInv'
<1> DEFINE new == [op |-> "markAll", user |-> u, ids |-> {}]
<1>1. new \in Call /\ new.op = "markAll" /\ new.user = u /\ new.ids = {} BY DEF Call
<1>2. UNCHANGED <<clock, stateRead, dismissed, used>> /\ call' = [call EXCEPT ![c] = new]
  BY DEF ReadAll, Turns
<1>3. ASSUME NEW i \in Ids
      PROVE  /\ notice'[i] \in Notice \cup {NoNotice}
             /\ notice'[i] = NoNotice <=> notice[i] = NoNotice
             /\ notice'[i].to = notice[i].to
  <2> DEFINE entry == [notice[i] EXCEPT !.readAt = clock]
  <2>1. notice'[i] = IF i \in Present /\ notice[i].to = u /\ notice[i].readAt = Never
                     THEN entry ELSE notice[i]
    BY DEF ReadAll
  <2>2. ASSUME i \in Present PROVE entry \in Notice /\ entry.to = notice[i].to
    <3>1. notice[i] \in Notice BY <2>2 DEF Present, NotificationsInv, RowsTyped
    <3> QED BY <3>1 DEF Notice, NotificationsInv, RowsTyped
  <2> HIDE DEF entry
  <2> QED BY <2>1, <2>2 DEF Present, NotificationsInv, RowsTyped
<1>4. notice' \in [Ids -> Notice \cup {NoNotice}] BY <1>3 DEF ReadAll
<1> HIDE DEF new
<1>5. StatesOf(notice) = StatesOf(notice)' BY <1>3 DEF StatesOf
<1>6. RowsTyped'
  BY <1>1, <1>2, <1>4, <1>5 DEF NotificationsInv, RowsTyped, StatesOf
<1>7. \A j \in Present' : j \in Present /\ notice'[j].to = notice[j].to BY <1>3 DEF Present
<1> QED BY <1>1, <1>2, <1>6, <1>7, CallBegins DEF NotificationsInv

LEMMA ReadAllFindsKeeps ==
    ASSUME NotificationsInv, NEW c \in Calls, ReadAllFinds(c)
    PROVE  NotificationsInv'
<1>1. call[c].user \in Users BY DEF ReadAllFinds, Runs, NotificationsInv, ReaderShape, Readers
<1> DEFINE new == [op |-> "readAll", user |-> call[c].user,
                   ids |-> {i \in Present : notice[i].to = Everyone}]
<1>2. new \in Call /\ new.op = "readAll" /\ new.user \in Users /\ new.ids \subseteq Present
  BY <1>1 DEF Call, Present
<1>3. UNCHANGED <<clock, notice, stateRead, dismissed, used>> /\ call' = [call EXCEPT ![c] = new]
  BY DEF ReadAllFinds, Turns
<1> HIDE DEF new
<1>4. RowsTyped' BY <1>2, <1>3 DEF NotificationsInv, RowsTyped
<1>5. \A j \in Present' : j \in Present /\ notice'[j].to = notice[j].to BY <1>3 DEF Present
<1>6. new.ids \subseteq used BY <1>2 DEF NotificationsInv, PresentIsUsed
<1> QED BY <1>2, <1>3, <1>4, <1>5, <1>6, CallBegins DEF NotificationsInv

LEMMA ReadAllOneKeeps ==
    ASSUME NotificationsInv, NEW c \in Calls, NEW i \in Ids, ReadAllOne(c, i)
    PROVE  NotificationsInv'
<1>1. call[c].user \in Users /\ call[c].op = "readAll" /\ call[c] # Idle /\ call[c] \in Call
  BY DEF ReadAllOne, Runs, NotificationsInv, RowsTyped, ReaderShape, Readers
<1> DEFINE new == [call[c] EXCEPT !.ids = @ \ {i}]
<1>2. /\ new \in Call /\ new.op = "readAll" /\ new.user = call[c].user
      /\ new.ids \subseteq call[c].ids
  BY <1>1 DEF Call
<1>3. UNCHANGED <<clock, notice, dismissed, used>> /\ call' = [call EXCEPT ![c] = new]
  BY DEF ReadAllOne, UpsertRead
<1> HIDE DEF new
<1>4. stateRead' \subseteq StatesOf(notice)
  BY <1>1 DEF ReadAllOne, UpsertRead, StatesOf, Present, NotificationsInv, RowsTyped
<1>5. RowsTyped'
  BY <1>2, <1>3, <1>4 DEF NotificationsInv, RowsTyped, StatesOf
<1>6. \A d \in Calls : call'[d] = IF d = c THEN new ELSE call[d]
  BY <1>3 DEF NotificationsInv, RowsTyped
<1>7. \A j \in Present' : j \in Present /\ notice'[j].to = notice[j].to BY <1>3 DEF Present
<1> QED BY <1>1, <1>2, <1>3, <1>5, <1>6, <1>7, CallsGoOn DEF NotificationsInv

LEMMA EndsKeeps ==
    ASSUME NotificationsInv, NEW c \in Calls, ReadAllEnds(c) \/ CountAnswers(c)
    PROVE  NotificationsInv'
<1>1. /\ UNCHANGED <<clock, notice, stateRead, dismissed, used>>
      /\ call' = [call EXCEPT ![c] = Idle]
  BY DEF ReadAllEnds, CountAnswers, Ends
<1>2. RowsTyped' BY <1>1 DEF NotificationsInv, RowsTyped
<1>3. \A d \in Calls : call'[d] # Idle => call'[d] = call[d]
  BY <1>1 DEF NotificationsInv, RowsTyped
<1>4. \A i \in Present' : i \in Present /\ notice'[i].to = notice[i].to BY <1>1 DEF Present
<1> QED BY <1>1, <1>2, <1>3, <1>4, CallsGoOn DEF NotificationsInv

LEMMA PurgeStartsKeeps ==
    ASSUME NotificationsInv, NEW c \in Calls, PurgeStarts(c)
    PROVE  NotificationsInv'
<1> DEFINE new == [op |-> "expired", since |-> clock]
<1>1. new \in Call /\ new.op = "expired" /\ new.since = clock /\ clock <= clock
  BY DEF Call, Times, NotificationsInv, RowsTyped
<1>2. /\ UNCHANGED <<clock, notice, stateRead, dismissed, used>>
      /\ call' = [call EXCEPT ![c] = new]
  BY DEF PurgeStarts
<1> HIDE DEF new
<1>3. RowsTyped' BY <1>1, <1>2 DEF NotificationsInv, RowsTyped
<1>4. \A j \in Present' : j \in Present /\ notice'[j].to = notice[j].to BY <1>2 DEF Present
<1> QED BY <1>1, <1>2, <1>3, <1>4, CallBegins DEF NotificationsInv, Readers

LEMMA PurgeBatchKeeps ==
    ASSUME NotificationsInv, NEW c \in Calls, PurgeBatch(c)
    PROVE  NotificationsInv'
<1>1. UNCHANGED <<clock, used>> BY DEF PurgeBatch
<1>2. CASE Purgeable(c) # {}
  <2>1. PICK i \in Purgeable(c) : Delete({i}) /\ call' = call BY <1>2 DEF PurgeBatch
  <2>2. {i} \in SUBSET Ids BY DEF Purgeable, Present
  <2>3. RowsTyped'
    BY <1>1, <2>1, <2>2, DeleteKeeps DEF NotificationsInv, RowsTyped, StatesOf
  <2>4. \A j \in Present' : j \in Present /\ notice'[j].to = notice[j].to
    BY <2>1, <2>2, DeleteKeeps
  <2> QED BY <1>1, <2>1, <2>3, <2>4, CallsGoOn DEF NotificationsInv
<1>3. CASE Purgeable(c) = {}
  <2>1. UNCHANGED <<notice, stateRead, dismissed>> BY <1>3 DEF PurgeBatch
  <2>2. \A j \in Present' : j \in Present /\ notice'[j].to = notice[j].to BY <2>1 DEF Present
  <2>3. /\ call' \in [Calls -> Call \cup {Idle}]
        /\ \A d \in Calls : call'[d] # Idle =>
              \/ call'[d] = call[d]
              \/ Runs(d, "expired") /\ call'[d].op = "retained" /\ call'[d].since = call[d].since
    <3>1. CASE Runs(c, "expired")
      <4> DEFINE new == [call[c] EXCEPT !.op = "retained"]
      <4>1. call[c] \in Call /\ call[c].op = "expired"
        BY <3>1 DEF Runs, NotificationsInv, RowsTyped
      <4>2. new \in Call /\ new.op = "retained" /\ new.since = call[c].since BY <4>1 DEF Call
      <4>3. call' = [call EXCEPT ![c] = new] BY <1>3, <3>1 DEF PurgeBatch
      <4> HIDE DEF new
      <4> QED BY <3>1, <4>2, <4>3 DEF NotificationsInv, RowsTyped
    <3>2. CASE ~Runs(c, "expired")
      BY <1>3, <3>2 DEF PurgeBatch, Ends, NotificationsInv, RowsTyped
    <3> QED BY <3>1, <3>2
  <2>4. RowsTyped' BY <1>1, <2>1, <2>3 DEF NotificationsInv, RowsTyped
  <2> QED BY <1>1, <2>2, <2>3, <2>4, CallsGoOn DEF NotificationsInv
<1> QED BY <1>2, <1>3

LEMMA CountTargetedKeeps ==
    ASSUME NotificationsInv, NEW c \in Calls, NEW u \in Users, CountTargeted(c, u)
    PROVE  NotificationsInv'
<1> DEFINE new == [op |-> "count", user |-> u, since |-> clock,
                   ids |-> {i \in Present : notice[i].to = u /\ notice[i].readAt = Never}]
<1>1. new \in Call /\ new.op = "count" /\ new.since = clock /\ clock <= clock
  BY DEF Call, Present, Times, NotificationsInv, RowsTyped
<1>2. UNCHANGED <<clock, notice, stateRead, dismissed, used>> /\ call' = [call EXCEPT ![c] = new]
  BY DEF CountTargeted
<1> HIDE DEF new
<1>3. RowsTyped' BY <1>1, <1>2 DEF NotificationsInv, RowsTyped
<1>4. \A j \in Present' : j \in Present /\ notice'[j].to = notice[j].to BY <1>2 DEF Present
<1> QED BY <1>1, <1>2, <1>3, <1>4, CallBegins DEF NotificationsInv, Readers

\* The call of a count whose second query has been made.
LEMMA CountedCall ==
    ASSUME NotificationsInv, NEW c \in Calls, CountBroadcasts(c)
    PROVE  /\ call' \in [Calls -> Call \cup {Idle}]
           /\ \A d \in Calls \ {c} : call'[d] = call[d]
           /\ call'[c] \in Call /\ call'[c].op = "counted" /\ call'[c].user = call[c].user
           /\ call'[c].since = call[c].since
           /\ call'[c].ids = call[c].ids \cup UnreadBroadcasts(c)
<1>1. call[c] \in Call /\ call[c].op = "count" /\ UnreadBroadcasts(c) \in SUBSET Ids
  BY DEF CountBroadcasts, Runs, NotificationsInv, RowsTyped, UnreadBroadcasts, Present
<1> DEFINE some == UnreadBroadcasts(c)
           new == [op |-> "counted", user |-> call[c].user, since |-> call[c].since,
                   ids |-> call[c].ids \cup some]
<1>2. call' = [call EXCEPT ![c] = new] BY DEF CountBroadcasts
<1> HIDE DEF some
<1>3. call[c].user \in Users /\ call[c].ids \in SUBSET Ids /\ call[c].since \in Times
  BY <1>1 DEF Call
<1>4. call[c].ids \cup some \in SUBSET Ids BY <1>1, <1>3 DEF some
<1>5. /\ new \in Call /\ new.op = "counted" /\ new.user = call[c].user
      /\ new.since = call[c].since /\ new.ids = call[c].ids \cup some
  BY <1>3, <1>4 DEF Call
<1> HIDE DEF new
<1> QED BY <1>2, <1>5 DEF some, NotificationsInv, RowsTyped

LEMMA CountBroadcastsKeeps ==
    ASSUME NotificationsInv, NEW c \in Calls, CountBroadcasts(c)
    PROVE  NotificationsInv'
<1>1. UNCHANGED <<clock, notice, stateRead, dismissed, used>> /\ Runs(c, "count")
  BY DEF CountBroadcasts
<1>2. RowsTyped' BY <1>1, CountedCall DEF NotificationsInv, RowsTyped
<1>3. \A j \in Present' : j \in Present /\ notice'[j].to = notice[j].to BY <1>1 DEF Present
<1> QED BY <1>1, <1>2, <1>3, CountedCall, CallsGoOn DEF NotificationsInv

LEMMA NoticesTickKeeps ==
    ASSUME NotificationsInv, Tick
    PROVE  NotificationsInv'
<1>1. clock \in Nat /\ clock' = clock + 1 /\ clock' \in Times
  BY DEF Tick, NotificationsInv, RowsTyped, Times
<1>2. UNCHANGED <<notice, stateRead, dismissed, used, call>> BY DEF Tick
<1>3. RowsTyped' BY <1>1, <1>2 DEF NotificationsInv, RowsTyped
<1>4. PresentIsUsed' /\ ReaderShape' /\ RemoveFound'
  BY <1>2 DEF NotificationsInv, PresentIsUsed, ReaderShape, RemoveFound, Present, Runs
<1>5. ASSUME NEW c \in Calls, Runs(c, "expired") \/ Runs(c, "retained") \/ Counts(c)
      PROVE  call[c].since <= clock'
  <2>1. call[c].since <= clock BY <1>5 DEF NotificationsInv, TimedBegan
  <2>2. call[c].since \in Nat
    BY <1>5 DEF Runs, Counts, Call, Times, NotificationsInv, RowsTyped
  <2> QED BY <1>1, <2>1, <2>2
<1>6. TimedBegan' BY <1>2, <1>5 DEF TimedBegan, Runs, Counts
<1> QED BY <1>3, <1>4, <1>6 DEF NotificationsInv

LEMMA StepNotifications ==
    ASSUME NotificationsInv, NotificationsSteps
    PROVE  NotificationsInv'
<1>1. ASSUME NEW c \in Calls, NEW k \in Keys, NEW to \in Users \cup {Everyone},
             NEW t \in {Never, clock + 1}, t \in Times \cup {Never}, Notify(c, k, to, t)
      PROVE  NotificationsInv'
  BY <1>1, NotifyKeeps
<1>2. ASSUME NEW c \in Calls, NEW u \in Users, NEW i \in Ids,
             Find(c, "read", u, i) \/ Find(c, "remove", u, i)
      PROVE  NotificationsInv'
  BY <1>2, FindKeeps
<1>3. ASSUME NEW c \in Calls, NEW u \in Users, ReadAll(c, u) \/ CountTargeted(c, u)
      PROVE  NotificationsInv'
  BY <1>3, ReadAllKeeps, CountTargetedKeeps
<1>4. ASSUME NEW c \in Calls, NEW i \in Ids, ReadOne(c, i) \/ Remove(c, i) \/ ReadAllOne(c, i)
      PROVE  NotificationsInv'
  BY <1>4, ReadOneKeeps, RemoveKeeps, ReadAllOneKeeps
<1>5. ASSUME NEW c \in Calls,
             \/ Push(c) \/ ReadAllFinds(c) \/ ReadAllEnds(c) \/ PurgeStarts(c) \/ PurgeBatch(c)
             \/ CountBroadcasts(c) \/ CountAnswers(c)
      PROVE  NotificationsInv'
  BY <1>5, PushKeeps, ReadAllFindsKeeps, EndsKeeps, PurgeStartsKeeps, PurgeBatchKeeps,
     CountBroadcastsKeeps
<1>6. CASE Tick BY <1>6, NoticesTickKeeps
<1> QED BY <1>1, <1>2, <1>3, <1>4, <1>5, <1>6 DEF NotificationsSteps

-----------------------------------------------------------------------------
(* Notifications: what a count answers *)

\* A notification keeps its recipient.
LEMMA RecipientsStay ==
    ASSUME NotificationsInv, NotificationsSteps, NEW i \in Present, i \in Present'
    PROVE  notice'[i].to = notice[i].to
<1>1. i \in Ids /\ notice[i] \in Notice /\ notice'[i] # NoNotice
  BY DEF Present, NotificationsInv, RowsTyped
<1>2. ASSUME NEW ids, Delete(ids) PROVE notice'[i].to = notice[i].to BY <1>1, <1>2 DEF Delete
<1> DEFINE entry == [notice[i] EXCEPT !.readAt = clock]
<1>3. entry.to = notice[i].to BY <1>1 DEF Notice
<1>4. ASSUME NEW c \in Calls, NEW k \in Keys, NEW to \in Users \cup {Everyone},
             NEW t \in {Never, clock + 1}, Notify(c, k, to, t)
      PROVE  notice'[i].to = notice[i].to
  <2>1. i \in used BY DEF NotificationsInv, PresentIsUsed
  <2>2. PICK j \in Ids \ used : notice'= [notice EXCEPT ![j] =
           [key |-> k, to |-> to, readAt |-> Never, expiresAt |-> t]]
    BY <1>4 DEF Notify
  <2> QED BY <1>1, <2>1, <2>2 DEF NotificationsInv, RowsTyped
<1>5. ASSUME NEW c \in Calls, NEW j \in Ids, ReadOne(c, j) PROVE notice'[i].to = notice[i].to
  <2>1. notice' = notice \/ notice' = [notice EXCEPT ![j] = [notice[j] EXCEPT !.readAt = clock]]
    BY <1>5 DEF ReadOne
  <2>2. notice'[i] \in {notice[i], entry} BY <1>1, <2>1 DEF NotificationsInv, RowsTyped
  <2> QED BY <1>3, <2>2
<1>6. ASSUME NEW c \in Calls, NEW u \in Users, ReadAll(c, u) PROVE notice'[i].to = notice[i].to
  <2>1. notice'[i] \in {notice[i], entry} BY <1>1, <1>6 DEF ReadAll
  <2> QED BY <1>3, <2>1
<1>7. ASSUME NEW c \in Calls, NEW j \in Ids, Remove(c, j) PROVE notice'[i].to = notice[i].to
  BY <1>2, <1>7 DEF Remove
<1>8. ASSUME NEW c \in Calls, PurgeBatch(c) PROVE notice'[i].to = notice[i].to
  BY <1>2, <1>8 DEF PurgeBatch
<1>9. ASSUME NEW c \in Calls,
             \/ \E u \in Users, j \in Ids : Find(c, "read", u, j) \/ Find(c, "remove", u, j)
             \/ \E u \in Users : CountTargeted(c, u)
             \/ \E j \in Ids : ReadAllOne(c, j)
             \/ Push(c) \/ ReadAllFinds(c) \/ ReadAllEnds(c) \/ PurgeStarts(c)
             \/ CountBroadcasts(c) \/ CountAnswers(c)
      PROVE  notice' = notice
  BY <1>9 DEF Find, CountTargeted, ReadAllOne, Push, ReadAllFinds, ReadAllEnds, PurgeStarts,
              CountBroadcasts, CountAnswers
<1>10. CASE Tick BY <1>10 DEF Tick
<1> QED BY <1>4, <1>5, <1>6, <1>7, <1>8, <1>9, <1>10 DEF NotificationsSteps

\* What a step leaves of a count: it goes on as it was, begins or makes its second query.
LEMMA CountsMove ==
    ASSUME NotificationsInv, NotificationsSteps, NEW d \in Calls, Counts(d)'
    PROVE  \/ call'[d] = call[d]
           \/ \E u \in Users : CountTargeted(d, u)
           \/ CountBroadcasts(d)
<1>1. ASSUME NEW c \in Calls, NEW new, new = Idle \/ new.op \notin {"count", "counted"},
             call' = [call EXCEPT ![c] = new]
      PROVE  call'[d] = call[d]
  BY <1>1 DEF Counts, Runs, NotificationsInv, RowsTyped
<1>2. ASSUME NEW c \in Calls, NEW op, NEW u, NEW ids, Turns(c, op, u, ids),
             op \notin {"count", "counted"}
      PROVE  call'[d] = call[d]
  <2> DEFINE new == [op |-> op, user |-> u, ids |-> ids]
  <2>1. new.op \notin {"count", "counted"} /\ call' = [call EXCEPT ![c] = new] BY <1>2 DEF Turns
  <2> HIDE DEF new
  <2> QED BY <1>1, <2>1
<1>3. ASSUME NEW c \in Calls, Ends(c) PROVE call'[d] = call[d] BY <1>1, <1>3 DEF Ends
<1>4. ASSUME NEW c \in Calls,
             \/ \E k \in Keys, to \in Users \cup {Everyone}, t \in {Never, clock + 1} : Notify(c, k, to, t)
             \/ \E u \in Users, j \in Ids : Find(c, "read", u, j) \/ Find(c, "remove", u, j)
             \/ \E u \in Users : ReadAll(c, u)
             \/ ReadAllFinds(c)
      PROVE  call'[d] = call[d]
  <2>1. \E op \in {"push", "read", "remove", "markAll", "readAll"} : \E u, ids : Turns(c, op, u, ids)
    <3>1. ASSUME NEW k \in Keys, NEW to \in Users \cup {Everyone}, NEW t \in {Never, clock + 1},
                 Notify(c, k, to, t)
          PROVE  \E u, ids : Turns(c, "push", u, ids)
      BY <3>1 DEF Notify
    <3>2. ASSUME NEW u \in Users, NEW j \in Ids, NEW op \in {"read", "remove"}, Find(c, op, u, j)
          PROVE  \E v, ids : Turns(c, op, v, ids)
      BY <3>2 DEF Find
    <3>3. ASSUME NEW u \in Users, ReadAll(c, u) PROVE \E v, ids : Turns(c, "markAll", v, ids)
      BY <3>3 DEF ReadAll
    <3>4. ASSUME ReadAllFinds(c) PROVE \E u, ids : Turns(c, "readAll", u, ids)
      BY <3>4 DEF ReadAllFinds
    <3> QED BY <1>4, <3>1, <3>2, <3>3, <3>4
  <2> QED BY <1>2, <2>1
<1>5. ASSUME NEW c \in Calls,
             \/ \E j \in Ids : ReadOne(c, j) \/ Remove(c, j)
             \/ Push(c) \/ ReadAllEnds(c) \/ CountAnswers(c)
      PROVE  call'[d] = call[d]
  BY <1>3, <1>5 DEF ReadOne, Remove, Push, ReadAllEnds, CountAnswers
<1>6. ASSUME NEW c \in Calls, NEW j \in Ids, ReadAllOne(c, j) PROVE call'[d] = call[d]
  <2>1. call[c] \in Call /\ call[c].op = "readAll"
    BY <1>6 DEF ReadAllOne, Runs, NotificationsInv, RowsTyped
  <2> DEFINE new == [call[c] EXCEPT !.ids = @ \ {j}]
  <2>2. new.op = "readAll" /\ call' = [call EXCEPT ![c] = new] BY <1>6, <2>1 DEF ReadAllOne, Call
  <2> HIDE DEF new
  <2> QED BY <1>1, <2>2
<1>7. ASSUME NEW c \in Calls, PurgeStarts(c) PROVE call'[d] = call[d]
  BY <1>1, <1>7 DEF PurgeStarts
<1>8. ASSUME NEW c \in Calls, PurgeBatch(c) PROVE call'[d] = call[d]
  <2>1. CASE Purgeable(c) = {} /\ Runs(c, "expired")
    <3> DEFINE new == [call[c] EXCEPT !.op = "retained"]
    <3>1. call[c] \in Call BY <2>1 DEF Runs, NotificationsInv, RowsTyped
    <3>2. new.op = "retained" /\ call' = [call EXCEPT ![c] = new]
      BY <1>8, <2>1, <3>1 DEF PurgeBatch, Call
    <3> HIDE DEF new
    <3> QED BY <1>1, <3>2
  <2>2. CASE ~(Purgeable(c) = {} /\ Runs(c, "expired")) BY <1>3, <1>8, <2>2 DEF PurgeBatch
  <2> QED BY <2>1, <2>2
<1>9. ASSUME NEW c \in Calls, \E u \in Users : CountTargeted(c, u)
      PROVE  call'[d] = call[d] \/ \E u \in Users : CountTargeted(d, u)
  BY <1>9 DEF CountTargeted, NotificationsInv, RowsTyped
<1>10. ASSUME NEW c \in Calls, CountBroadcasts(c) PROVE call'[d] = call[d] \/ CountBroadcasts(d)
  BY <1>10, CountedCall
<1>11. CASE Tick BY <1>11 DEF Tick
<1> QED BY <1>4, <1>5, <1>6, <1>7, <1>8, <1>9, <1>10, <1>11 DEF NotificationsSteps

\* What a count has seen all along is shown now; and between its queries, what it has
\* counted was unread in its time, and it has counted every notification to its user
\* that the list has shown unread since it began.
StillShown == \A c \in Calls : Counts(c) => seen[c].still \subseteq ShownTo(c)
TargetedCounted ==
    \A c \in Calls : Runs(c, "count") =>
        /\ call[c].ids \subseteq seen[c].was
        /\ \A i \in seen[c].still : notice[i].to = call[c].user => i \in call[c].ids
CountsInv ==
    /\ NotificationsInv
    /\ seen \in [Calls -> Seen] /\ StillShown /\ TargetedCounted /\ CountIsOfItsTime

LEMMA InitCounts == NotificationsInit => CountsInv
<1> SUFFICES ASSUME NotificationsInit PROVE CountsInv OBVIOUS
<1>1. seen \in [Calls -> Seen] BY DEF NotificationsInit, Seen, Nothing
<1>2. \A c \in Calls : ~Counts(c) /\ ~Runs(c, "count") /\ ~Runs(c, "counted")
  BY DEF NotificationsInit, Counts, Runs
<1> QED BY <1>1, <1>2, InitNotifications DEF CountsInv, StillShown, TargetedCounted, CountIsOfItsTime

\* The three facts about one count, whatever the step did to it.
LEMMA CountKeeps ==
    ASSUME CountsInv, NotificationsInv', NotificationsSteps, Watch, NEW c \in Calls, Counts(c)'
    PROVE  /\ seen'[c] \in Seen
           /\ seen'[c].still \subseteq ShownTo(c)'
           /\ Runs(c, "count")' =>
                /\ call'[c].ids \subseteq seen'[c].was
                /\ \A i \in seen'[c].still : notice'[i].to = call'[c].user => i \in call'[c].ids
           /\ Runs(c, "counted")' =>
                /\ call'[c].ids \subseteq seen'[c].was
                /\ seen'[c].still \subseteq call'[c].ids
<1> USE DEF CountsInv
<1>1. UnreadFor(c)' \in SUBSET Ids /\ ShownTo(c)' \subseteq UnreadFor(c)'
  BY DEF UnreadFor, ShownTo, Unread, Present
<1>2. CASE \E u \in Users : CountTargeted(c, u)
  <2>1. PICK u \in Users : CountTargeted(c, u) BY <1>2
  <2>2. ~Counts(c) BY <2>1 DEF CountTargeted, Counts, Runs
  <2>3. seen'[c] = [was |-> UnreadFor(c)', still |-> ShownTo(c)'] BY <2>2 DEF Watch
  <2>4. /\ call'[c].op = "count" /\ call'[c].user = u
        /\ call'[c].ids = {i \in Present : notice[i].to = u /\ notice[i].readAt = Never}
    BY <2>1 DEF CountTargeted, NotificationsInv, RowsTyped
  <2>5. UNCHANGED <<clock, notice, stateRead, dismissed>> BY <2>1 DEF CountTargeted
  <2>6. call'[c].ids = {i \in UnreadFor(c)' : notice'[i].to = u}
    BY <2>4, <2>5, NullsAssumption DEF UnreadFor, Unread, Visible, IsRead, Present
  <2>7. ~Runs(c, "counted")' BY <2>4 DEF Runs
  <2> HIDE DEF CountsInv
  <2> QED BY <1>1, <2>3, <2>4, <2>6, <2>7 DEF Seen
<1>3. ASSUME call'[c] = call[c] \/ CountBroadcasts(c)
      PROVE  /\ Counts(c) /\ call'[c].user = call[c].user
             /\ seen'[c] = [was |-> seen[c].was \cup UnreadFor(c)', still |-> seen[c].still \cap ShownTo(c)']
             /\ seen[c] \in Seen
             /\ seen'[c] \in Seen /\ seen[c].was \subseteq seen'[c].was
             /\ UnreadFor(c)' \subseteq seen'[c].was
             /\ seen'[c].still \subseteq seen[c].still /\ seen'[c].still \subseteq ShownTo(c)'
             /\ \A i \in seen'[c].still : notice'[i].to = notice[i].to
  <2>1. Counts(c) /\ call'[c].user = call[c].user
    BY <1>3, CountedCall DEF CountBroadcasts, Counts, Runs
  <2>2. seen'[c] = [was |-> seen[c].was \cup UnreadFor(c)', still |-> seen[c].still \cap ShownTo(c)']
    BY <2>1 DEF Watch
  <2>3. seen[c] \in Seen OBVIOUS
  <2>4. /\ seen'[c].was = seen[c].was \cup UnreadFor(c)'
        /\ seen'[c].still = seen[c].still \cap ShownTo(c)'
    BY <2>2
  <2>5. seen'[c] \in Seen BY <1>1, <2>2, <2>3 DEF Seen
  <2>6. ASSUME NEW i \in seen'[c].still PROVE notice'[i].to = notice[i].to
    <3>1. i \in ShownTo(c) BY <2>1, <2>4, <2>6 DEF StillShown
    <3>2. i \in Present /\ i \in Present' BY <2>4, <2>6, <3>1 DEF ShownTo, UnreadFor, Unread
    <3> QED BY <3>2, RecipientsStay
  <2> HIDE DEF CountsInv
  <2> QED BY <2>1, <2>2, <2>3, <2>4, <2>5, <2>6
<1>4. CASE call'[c] = call[c]
  <2>1. (Runs(c, "count")' <=> Runs(c, "count")) /\ (Runs(c, "counted")' <=> Runs(c, "counted"))
    BY <1>4 DEF Runs
  <2> QED BY <1>3, <1>4, <2>1 DEF TargetedCounted, CountIsOfItsTime
<1>5. CASE CountBroadcasts(c)
  <2>1. /\ Runs(c, "count") /\ call'[c].op = "counted"
        /\ call'[c].ids = call[c].ids \cup UnreadBroadcasts(c)
        /\ UNCHANGED <<clock, notice, stateRead, dismissed>>
    BY <1>5, CountedCall DEF CountBroadcasts
  <2>2. UnreadBroadcasts(c) \subseteq UnreadFor(c)'
    BY <1>3, <1>5, <2>1 DEF UnreadBroadcasts, UnreadFor, Unread, Visible, IsRead, Present
  <2>3. ASSUME NEW i \in seen'[c].still PROVE i \in call'[c].ids
    <3>1. /\ i \in Present /\ Visible(call[c].user, i) /\ ~IsRead(call[c].user, i) /\ ~Expired(i)
          /\ i \in seen[c].still
      BY <1>3, <1>5, <2>1, <2>3 DEF ShownTo, UnreadFor, Unread, Listed, Visible, IsRead, Expired, Present
    <3>2. CASE notice[i].to = call[c].user BY <2>1, <3>1, <3>2 DEF TargetedCounted
    <3>3. CASE notice[i].to # call[c].user
      <4>1. notice[i].to = Everyone /\ <<call[c].user, i>> \notin stateRead \cup dismissed
        BY <3>1, <3>3 DEF Visible, IsRead
      <4>2. call[c].since \in Nat /\ call[c].since <= clock /\ clock \in Nat
        BY <2>1 DEF Runs, Counts, Call, Times, NotificationsInv, RowsTyped, TimedBegan
      <4>3. notice[i] \in Notice BY <3>1 DEF Present, NotificationsInv, RowsTyped
      <4>4. notice[i].expiresAt # Never => notice[i].expiresAt > call[c].since
        BY <3>1, <4>2, <4>3 DEF Expired, Notice, Times
      <4> QED BY <2>1, <3>1, <4>1, <4>4 DEF UnreadBroadcasts
    <3> QED BY <3>2, <3>3
  <2>4. call[c].ids \subseteq seen[c].was BY <2>1 DEF TargetedCounted
  <2>5. ~Runs(c, "count")' BY <2>1 DEF Runs
  <2> QED BY <1>3, <1>5, <2>1, <2>2, <2>3, <2>4, <2>5
<1>6. NotificationsInv OBVIOUS
<1> QED BY <1>2, <1>4, <1>5, <1>6, CountsMove

LEMMA StepCounts == CountsInv /\ [NotificationsNext]_notificationsVars => CountsInv'
<1> SUFFICES ASSUME CountsInv, [NotificationsNext]_notificationsVars PROVE CountsInv'
  OBVIOUS
<1>1. CASE NotificationsNext
  <2>1. NotificationsSteps /\ Watch BY <1>1 DEF NotificationsNext
  <2>2. NotificationsInv' BY <2>1, StepNotifications DEF CountsInv
  <2>3. seen' \in [Calls -> Seen]
    <3>1. ASSUME NEW c \in Calls, ~Counts(c)' PROVE seen'[c] \in Seen
      BY <2>1, <3>1 DEF Watch, Seen, Nothing
    <3>2. \A c \in Calls : seen'[c] \in Seen BY <2>1, <2>2, <3>1, CountKeeps
    <3>3. seen' = [c \in Calls |-> seen'[c]] BY <2>1 DEF Watch
    <3> QED BY <3>2, <3>3
  <2>4. StillShown' BY <2>1, <2>2, CountKeeps DEF StillShown
  <2>5. \A c \in Calls : (Runs(c, "count") \/ Runs(c, "counted"))' => Counts(c)' BY DEF Counts
  <2>6. TargetedCounted' BY <2>1, <2>2, <2>5, CountKeeps DEF TargetedCounted
  <2>7. CountIsOfItsTime' BY <2>1, <2>2, <2>5, CountKeeps DEF CountIsOfItsTime
  <2> QED BY <2>2, <2>3, <2>4, <2>6, <2>7 DEF CountsInv
<1>2. CASE UNCHANGED notificationsVars
  BY <1>2 DEF notificationsVars, CountsInv, NotificationsInv, RowsTyped, PresentIsUsed, ReaderShape,
              RemoveFound, TimedBegan, StillShown, TargetedCounted, CountIsOfItsTime, Present, Runs,
              Counts, ShownTo, UnreadFor, Unread, Listed, Visible, IsRead, Expired
<1> QED BY <1>1, <1>2

LEMMA SpecNotifications == NotificationsSpec => []CountsInv
BY InitCounts, StepCounts, PTL DEF NotificationsSpec

\* Notices, states of readers and calls keep their types: no state outlives its notice.
THEOREM NotificationsTyped == NotificationsSpec => []NotificationsTypeOK
<1>1. CountsInv => NotificationsTypeOK
  BY DEF CountsInv, NotificationsInv, RowsTyped, NotificationsTypeOK
<1> QED BY <1>1, SpecNotifications, PTL

\* The badge of a user counts nothing that was read, dismissed or gone before the
\* count began, and all that the list has shown unread since, whatever is read,
\* dismissed, created or purged between its two queries.
THEOREM BadgeIsOfItsTime == NotificationsSpec => []CountIsOfItsTime
<1>1. CountsInv => CountIsOfItsTime BY DEF CountsInv
<1> QED BY <1>1, SpecNotifications, PTL

\* A notice goes only by the hand of its recipient, or by a purge that found it past
\* its expiry or its retention when it began, and so now.
LEMMA GoneIsDone ==
    ASSUME NotificationsInv, [NotificationsNext]_notificationsVars,
           NEW i \in Present, notice'[i] = NoNotice
    PROVE  \/ Past(notice[i].expiresAt)
           \/ notice[i].readAt # Never /\ notice[i].readAt + Retention < clock
           \/ \E c \in Calls : /\ Runs(c, "remove") /\ i \in call[c].ids
                               /\ call[c].user = notice[i].to
<1>1. i \in Ids /\ notice[i] \in Notice /\ notice[i] # NoNotice /\ clock \in Nat
  BY DEF Present, NotificationsInv, RowsTyped, Times
<1>2. ASSUME NEW c \in Calls, NEW j \in Ids, Remove(c, j)
      PROVE  Runs(c, "remove") /\ i \in call[c].ids /\ call[c].user = notice[i].to
  <2>1. j \in Present /\ notice[j].to # Everyone /\ Delete({j}) BY <1>1, <1>2 DEF Remove
  <2>2. i = j BY <1>1, <2>1 DEF Delete
  <2> QED BY <1>2, <2>1, <2>2 DEF Remove, NotificationsInv, RemoveFound
<1>3. ASSUME NEW c \in Calls, PurgeBatch(c)
      PROVE  \/ Past(notice[i].expiresAt)
             \/ notice[i].readAt # Never /\ notice[i].readAt + Retention < clock
  <2>1. i \in Purgeable(c)
    <3>1. PICK j \in Purgeable(c) : Delete({j}) BY <1>1, <1>3 DEF PurgeBatch
    <3> QED BY <1>1, <3>1 DEF Delete
  <2>2. call[c].since \in Nat /\ call[c].since <= clock
    BY <1>3 DEF PurgeBatch, Runs, Call, Times, NotificationsInv, RowsTyped, TimedBegan
  <2>3. notice[i].expiresAt \in Times \cup {Never} /\ notice[i].readAt \in Times \cup {Never}
    BY <1>1 DEF Notice
  <2> QED BY <1>1, <2>1, <2>2, <2>3 DEF Purgeable, Past, Times
<1>4. ASSUME NEW c \in Calls, NEW j \in Ids, ReadOne(c, j) PROVE FALSE
  <2>1. CASE j \in Present /\ notice[j].to # Everyone
    <3>1. notice[j] \in Notice BY <2>1 DEF Present, NotificationsInv, RowsTyped
    <3>2. [notice[j] EXCEPT !.readAt = clock] \in Notice
      BY <3>1 DEF Notice, NotificationsInv, RowsTyped
    <3> QED BY <1>1, <1>4, <2>1, <3>2 DEF ReadOne, NotificationsInv, RowsTyped
  <2>2. CASE ~(j \in Present /\ notice[j].to # Everyone) BY <1>1, <1>4, <2>2 DEF ReadOne
  <2> QED BY <2>1, <2>2
<1>5. ASSUME NEW c \in Calls, NEW u \in Users, ReadAll(c, u) PROVE FALSE
  <2>1. [notice[i] EXCEPT !.readAt = clock] \in Notice
    BY <1>1 DEF Notice, NotificationsInv, RowsTyped
  <2> QED BY <1>1, <1>5, <2>1 DEF ReadAll
<1>6. ASSUME NEW c \in Calls, NEW k \in Keys, NEW to \in Users \cup {Everyone},
             NEW t \in {Never, clock + 1}, t \in Times \cup {Never}, Notify(c, k, to, t)
      PROVE  FALSE
  <2>1. i \in used BY DEF NotificationsInv, PresentIsUsed
  <2>2. PICK j \in Ids \ used : notice'= [notice EXCEPT ![j] =
           [key |-> k, to |-> to, readAt |-> Never, expiresAt |-> t]]
    BY <1>6 DEF Notify
  <2> QED BY <1>1, <2>1, <2>2 DEF NotificationsInv, RowsTyped
<1>7. ASSUME NEW c \in Calls,
             \/ \E u \in Users, j \in Ids : Find(c, "read", u, j) \/ Find(c, "remove", u, j)
             \/ \E u \in Users : CountTargeted(c, u)
             \/ \E j \in Ids : ReadAllOne(c, j)
             \/ Push(c) \/ ReadAllFinds(c) \/ ReadAllEnds(c) \/ PurgeStarts(c)
             \/ CountBroadcasts(c) \/ CountAnswers(c)
      PROVE  FALSE
  BY <1>1, <1>7 DEF Find, CountTargeted, ReadAllOne, Push, ReadAllFinds, ReadAllEnds, PurgeStarts,
                    CountBroadcasts, CountAnswers
<1>8. CASE Tick BY <1>1, <1>8 DEF Tick
<1>9. CASE UNCHANGED notificationsVars BY <1>1, <1>9 DEF notificationsVars
<1> QED BY <1>2, <1>3, <1>4, <1>5, <1>6, <1>7, <1>8, <1>9
   DEF NotificationsNext, NotificationsSteps

\* Nobody loses a notification they could still read, however reading, removing
\* and the batches of the purge fall.
THEOREM NothingUnreadGoes == NotificationsSpec => OnlyTheDoneGo
<1>1. NotificationsInv /\ [NotificationsNext]_notificationsVars =>
        [\A i \in Present : notice'[i] = NoNotice =>
          \/ Past(notice[i].expiresAt)
          \/ notice[i].readAt # Never /\ notice[i].readAt + Retention < clock
          \/ \E c \in Calls : /\ Runs(c, "remove") /\ i \in call[c].ids
                              /\ call[c].user = notice[i].to]_notificationsVars
  BY GoneIsDone
<1>2. CountsInv => NotificationsInv BY DEF CountsInv
<1> QED BY <1>1, <1>2, SpecNotifications, PTL DEF NotificationsSpec, OnlyTheDoneGo
=============================================================================
