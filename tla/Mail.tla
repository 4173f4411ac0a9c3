-------------------------------- MODULE Mail --------------------------------
(***************************************************************************)
(* The mail queue (MailService, MailProcessor) and the table of mails that *)
(* could not be sent, with their retries by hand (MailFailedService).      *)
(*                                                                         *)
(* A job is kept by BullMQ, which survives the process: it runs it, runs   *)
(* it again after a failure until its attempts are used up, and once more  *)
(* when the process that ran it died.  The events that keep the table are  *)
(* of the process, and are lost with it.                                   *)
(***************************************************************************)
EXTENDS Naturals, FiniteSets

CONSTANTS
    Mails, Jobs, Rows,
    Attempts,      \* attempts of a job
    MaxCrashes,    \* at most one: a job that BullMQ finds stalled twice it fails
    NoJob, NoRow

ASSUME MailAssumption == Attempts \in Nat \ {0} /\ MaxCrashes \in {0, 1}

VARIABLES
    job,           \* the jobs, and the retries that are about to add one
    row,           \* mail_failed_jobs
    accepted,      \* mails that were asked for
    delivered,     \* mails that SMTP took
    hurt,          \* mails whose job or event a crash or a database error met
    crashes

vars == <<job, row, accepted, delivered, hurt, crashes>>

Job == [mail : Mails, from : Rows \cup {NoRow}, tries : 0 .. Attempts,
        at : {"asked", "wait", "active", "sent", "completed", "failed"}]
Row == [mail : Mails, status : {"pending", "abandoned"}]

\* NULL is no row, no job and no identifier.
ASSUME NullAssumption == NoJob \notin Job /\ NoRow \notin Row \cup Rows

TypeOK ==
    /\ job \in [Jobs -> Job \cup {NoJob}]
    /\ row \in [Rows -> Row \cup {NoRow}]
    /\ accepted \subseteq Mails
    /\ delivered \subseteq accepted /\ hurt \subseteq accepted
    /\ crashes \in 0 .. MaxCrashes

Init ==
    /\ job = [j \in Jobs |-> NoJob]
    /\ row = [r \in Rows |-> NoRow]
    /\ accepted = {} /\ delivered = {} /\ hurt = {}
    /\ crashes = 0

Live == {j \in Jobs : job[j] # NoJob}
At(j, place) == j \in Live /\ job[j].at = place
Moves(j, place) == job' = [job EXCEPT ![j].at = place]
Leaves(j) == job' = [job EXCEPT ![j] = NoJob]
NewJob(m, r, place) == [mail |-> m, from |-> r, tries |-> 0, at |-> place]

\* An identifier that no row has and no job remembers.
FreshRow(r) == row[r] = NoRow /\ \A j \in Live : job[j].from # r

-----------------------------------------------------------------------------
(* The queue *)

\* The methods of MailService differ in what the mail says.
Enqueue(j, m) ==
    /\ job[j] = NoJob /\ m \notin accepted
    /\ accepted' = accepted \cup {m}
    /\ job' = [job EXCEPT ![j] = NewJob(m, NoRow, "wait")]
    /\ UNCHANGED <<row, delivered, hurt, crashes>>

Start(j) ==
    /\ At(j, "wait") /\ Moves(j, "active")
    /\ UNCHANGED <<row, accepted, delivered, hurt, crashes>>

\* process: every type ends in one sendMail, which resolves ...
Process(j) ==
    /\ At(j, "active") /\ Moves(j, "sent")
    /\ delivered' = delivered \cup {job[j].mail}
    /\ UNCHANGED <<row, accepted, hurt, crashes>>

\* Mutant: the attempts are counted past their number.
SmtpFailsOffByOne(j) ==
    /\ At(j, "active")
    /\ job' = [job EXCEPT ![j].tries = @ + 1,
                          ![j].at = IF job[j].tries < Attempts THEN "wait" ELSE "failed"]
    /\ UNCHANGED <<row, accepted, delivered, hurt, crashes>>

\* ... or rejects; the listener ignores the attempts that are not the last.
SmtpFails(j) ==
    /\ At(j, "active")
    /\ job' = [job EXCEPT ![j].tries = @ + 1,
                          ![j].at = IF job[j].tries + 1 < Attempts THEN "wait" ELSE "failed"]
    /\ UNCHANGED <<row, accepted, delivered, hurt, crashes>>

Complete(j) ==
    /\ At(j, "sent") /\ Moves(j, "completed")
    /\ UNCHANGED <<row, accepted, delivered, hurt, crashes>>

-----------------------------------------------------------------------------
(* The events; both services swallow a database error *)

\* onJobCompleted, deleteOnSuccess.
OnJobCompleted(j) ==
    /\ At(j, "completed") /\ Leaves(j)
    /\ IF job[j].from = NoRow THEN UNCHANGED <<row, hurt>>
       ELSE \/ row' = [row EXCEPT ![job[j].from] = NoRow] /\ UNCHANGED hurt
            \/ hurt' = hurt \cup {job[j].mail} /\ UNCHANGED row
    /\ UNCHANGED <<accepted, delivered, crashes>>

\* saveFailedJob.
SaveFailedJob(j) ==
    \E r \in Rows : /\ FreshRow(r)
                    /\ row' = [row EXCEPT ![r] = [mail |-> job[j].mail, status |-> "pending"]]

\* updateFailedJob: an UPDATE, of no row when it is gone.
UpdateFailedJob(r) ==
    row' = IF row[r] = NoRow THEN row ELSE [row EXCEPT ![r].status = "pending"]

\* onJobFailed, once the attempts are used up.
OnJobFailed(j) ==
    /\ At(j, "failed") /\ Leaves(j)
    /\ \/ /\ IF job[j].from = NoRow THEN SaveFailedJob(j) ELSE UpdateFailedJob(job[j].from)
          /\ UNCHANGED hurt
       \/ hurt' = hurt \cup {job[j].mail} /\ UNCHANGED row
    /\ UNCHANGED <<accepted, delivered, crashes>>

-----------------------------------------------------------------------------
(* The back office *)

\* Mutant: the job does not say which row it retries.
RetryUntraced(j, r) ==
    /\ job[j] = NoJob
    /\ row[r] # NoRow /\ row[r].status = "pending"
    /\ job' = [job EXCEPT ![j] = NewJob(row[r].mail, NoRow, "asked")]
    /\ UNCHANGED <<row, accepted, delivered, hurt, crashes>>

\* retry: the row is read and must be pending.
Retry(j, r) ==
    /\ job[j] = NoJob
    /\ row[r] # NoRow /\ row[r].status = "pending"
    /\ job' = [job EXCEPT ![j] = NewJob(row[r].mail, r, "asked")]
    /\ UNCHANGED <<row, accepted, delivered, hurt, crashes>>

\* Mutant: the row goes as soon as its mail is queued again.
RetryAddForgets(j) ==
    /\ At(j, "asked") /\ Moves(j, "wait")
    /\ row' = [row EXCEPT ![job[j].from] = NoRow]
    /\ UNCHANGED <<accepted, delivered, hurt, crashes>>

\* Then the job is added, whatever the row has become.
RetryAdd(j) ==
    /\ At(j, "asked") /\ Moves(j, "wait")
    /\ UNCHANGED <<row, accepted, delivered, hurt, crashes>>

\* abandon, whatever the status.
Abandon(r) ==
    /\ row[r] # NoRow
    /\ row' = [row EXCEPT ![r].status = "abandoned"]
    /\ UNCHANGED <<job, accepted, delivered, hurt, crashes>>

\* What runs is run again, what was about to be recorded never is.
Crash ==
    /\ crashes < MaxCrashes
    /\ crashes' = crashes + 1
    /\ job' = [j \in Jobs |->
                  IF j \notin Live \/ job[j].at \in {"asked", "completed", "failed"} THEN NoJob
                  ELSE [job[j] EXCEPT !.at = "wait"]]
    /\ hurt' = hurt \cup {job[j].mail : j \in {i \in Live : job[i].at \in
                                                  {"sent", "completed", "failed"}}}
    /\ UNCHANGED <<row, accepted, delivered>>

Next ==
    \/ \E j \in Jobs :
          \/ \E m \in Mails : Enqueue(j, m)
          \/ Start(j) \/ Process(j) \/ SmtpFails(j) \/ Complete(j)
          \/ OnJobCompleted(j) \/ OnJobFailed(j)
          \/ \E r \in Rows : Retry(j, r)
          \/ RetryAdd(j)
    \/ \E r \in Rows : Abandon(r)
    \/ Crash

Spec == Init /\ [][Next]_vars

-----------------------------------------------------------------------------
(* Properties *)

InFlight(m) == \E j \in Live : job[j].mail = m
RowsOf(m) == {r \in Rows : row[r] # NoRow /\ row[r].mail = m}

\* A mail that was asked for is sent, on its way or in the table, however its
\* retries, their failures and its abandonment fall, unless a crash or a database
\* error met it.
NoMailLost ==
    \A m \in accepted \ hurt : m \in delivered \/ InFlight(m) \/ RowsOf(m) # {}

\* A mail left in the table with nothing on its way was never sent: to retry it
\* sends no second one.
RecordedIsUnsent ==
    \A m \in accepted \ hurt : RowsOf(m) # {} /\ ~InFlight(m) => m \notin delivered
=============================================================================
