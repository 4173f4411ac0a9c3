------------------------------- MODULE Liturgy -------------------------------
(***************************************************************************)
(* The schedules of celebrations, the terms (offering and lead time) that  *)
(* churches set for requests, and what a request must meet before it is    *)
(* saved: liturgy.util, ScheduleService, TariffService,                    *)
(* RequestService.validate and create.  Offering models the payment that   *)
(* create() makes in between.                                              *)
(*                                                                         *)
(* Every read and every write is a statement of its own; there is no       *)
(* transaction.  Days are numbered, an instant is a number of hours (UTC), *)
(* a time of day one of local hours; minutes are left out.  The tariffs    *)
(* are those of one type of request, which is read once by a request and   *)
(* may be any of Rules at that time (RequestTypeService changes it).  What *)
(* each church has set while a request searches is kept, by Watch.         *)
(*                                                                         *)
(* A request gives its date as a string, of any form that IsDateString     *)
(* lets through: "day" is YYYY-MM-DD, "timed" has a time behind the day,   *)
(* "basic" is YYYYMMDD.  The column keeps the day.                         *)
(***************************************************************************)
EXTENDS Integers, FiniteSets, FiniteSetsExt

CONSTANTS
    Requests, Schedules, Edits, Hierarchy,
    Parent,            \* the parent of each church, or Null
    WeekDay, MonthDay, Year, \* the calendar: functions of the days, which they bound
    Instants,          \* hours at which the clock is looked at
    Hours,             \* of schedules: two digits, nothing keeps them under 24
    Rows, RowPatches,  \* bodies of the creation and of the update of a schedule
    Rules,             \* the type of the requests, as it may be
    Leads, Amounts,    \* values of the terms; the DTO excludes 0, "0.00" is 0.001 rounded
    TariffRows, TariffBodies, \* the same of the tariff of each church
    Dates,             \* days that are asked for
    DateForms,         \* how a date is written: "day", "timed" or "basic"
    Offset,            \* BENIN_UTC_OFFSET_HOURS
    Horizon,           \* horizonDays
    MaxHops,           \* MAX_RESOLUTION_HOPS
    Null

Days == DOMAIN WeekDay

ASSUME LiturgyAssumption ==
    /\ {Offset, Horizon, MaxHops} \subseteq Nat
    /\ Instants \subseteq Nat /\ Instants # {}
    /\ Hours \subseteq Nat /\ Leads \subseteq Nat /\ Amounts \subseteq Nat
    /\ Days \subseteq Nat /\ DOMAIN MonthDay = Days /\ DOMAIN Year = Days /\ Dates \subseteq Days
    /\ Rules \subseteq [mass : BOOLEAN, lead : Nat]
    /\ Schedules \cap Hierarchy = {}

\* A church is of a lower rank than its parent (Church.HierarchyHolds), and there are
\* fewer ranks than MaxHops.
ASSUME HierarchyAssumption ==
    /\ Parent \in [Hierarchy -> Hierarchy \cup {Null}]
    /\ \E rank \in [Hierarchy -> 0 .. MaxHops - 1] :
          \A c \in Hierarchy : Parent[c] # Null => rank[Parent[c]] < rank[c]

\* The columns of the two tables, with their values.
ScheduleColumns ==
    [frequency |-> {"ONCE", "DAILY", "WEEKLY", "BIWEEKLY", "MONTHLY"},
     dayOfWeek |-> 0 .. 6 \cup {Null}, weekOfMonth |-> 1 .. 5 \cup {Null},
     time |-> Hours, duration |-> Nat, startDate |-> Nat \cup {Null}, endDate |-> Nat \cup {Null},
     church |-> Hierarchy, mass |-> BOOLEAN]
TariffColumns ==
    [amount |-> Amounts \cup {Null}, lead |-> Leads \cup {Null}, active |-> BOOLEAN]

Fits(patch, columns) == \A f \in DOMAIN patch : f \in DOMAIN columns /\ patch[f] \in columns[f]
IsRow(row, columns) == DOMAIN row = DOMAIN columns /\ Fits(row, columns)

ASSUME BodiesAssumption ==
    /\ \A row \in Rows : IsRow(row, ScheduleColumns)
    /\ \A patch \in RowPatches : Fits(patch, ScheduleColumns)
    /\ \A c \in Hierarchy : /\ \A row \in TariffRows[c] : IsRow(row, TariffColumns)
                           /\ \A body \in TariffBodies[c] : Fits(body, TariffColumns)

VARIABLES
    now,
    schedule,   \* rows of schedules
    tariff,     \* row of each church for the type: unique on church and type
    edit,       \* updates that have read their row
    request,    \* what each request asks, and what create() has found
    stage,      \* where it stands
    seen        \* history: what each church has set since the search of a term began

liturgyVars == <<now, schedule, tariff, edit, request, stage, seen>>

DefaultLeads == {type.lead : type \in Rules}
Request == [church : Hierarchy, date : Days, form : DateForms,
            schedule : Schedules \cup {Null}, type : Rules, time : Hours \cup {Null},
            at : Hierarchy \cup {Null}, hop : 0 .. MaxHops,
            checked : Instants \cup {Null}, lead : Leads \cup DefaultLeads \cup {Null},
            amount : Amounts \cup {Null}]

ASSUME NullIsNone == Null \notin Hierarchy \cup Schedules \cup Request

LiturgyTypeOK ==
    /\ now \in Instants
    /\ \A s \in Schedules : schedule[s] # Null => IsRow(schedule[s], ScheduleColumns)
    /\ \A c \in Hierarchy : tariff[c] # Null => IsRow(tariff[c], TariffColumns)
    /\ request \in [Requests -> Request \cup {Null}]
    /\ stage \in [Requests -> {"idle", "masses", "slot", "lead", "check", "amount", "save",
                               "saved", "refused"}]
    /\ seen \in [Requests -> [Hierarchy -> SUBSET (Leads \cup Amounts \cup {Null})]]

LiturgyInit ==
    /\ now = CHOOSE t \in Instants : \A u \in Instants : t <= u
    /\ schedule = [s \in Schedules |-> Null]
    /\ tariff = [c \in Hierarchy |-> Null]
    /\ edit = [e \in Edits |-> Null]
    /\ request = [r \in Requests |-> Null]
    /\ stage = [r \in Requests |-> "idle"]
    /\ seen = [r \in Requests |-> [c \in Hierarchy |-> {}]]

-----------------------------------------------------------------------------
(* liturgy.util *)

\* isValidScheduleOccurrence
IsOccurrence(s, d) ==
    /\ s.startDate # Null => d >= s.startDate
    /\ s.endDate # Null => d <= s.endDate
    /\ \/ s.frequency = "ONCE" /\ s.startDate = d
       \/ s.frequency = "DAILY"
       \/ /\ s.frequency \in {"WEEKLY", "BIWEEKLY"}
          /\ s.dayOfWeek \in {Null, WeekDay[d]}
       \/ /\ s.frequency = "MONTHLY"
          /\ \/ Null \in {s.dayOfWeek, s.weekOfMonth}
             \/ s.dayOfWeek = WeekDay[d] /\ s.weekOfMonth = (MonthDay[d] + 6) \div 7

Starts(s, d) == 24 * d + s.time - Offset
Ends(s, d) == Starts(s, d) + s.duration

\* Mutant: the local time is taken for UTC.
NextOccurrenceUTC(s, from) ==
    LET found == {d \in (from \div 24) .. (from \div 24) + Horizon :
                     d \in Days /\ IsOccurrence(s, d) /\ Ends(s, d) + Offset > from}
    IN  IF found = {} THEN Null ELSE Starts(s, Min(found))

\* nextScheduleOccurrence: day by day from the UTC day of the instant.
NextOccurrence(s, from) ==
    LET found == {d \in (from \div 24) .. (from \div 24) + Horizon :
                     d \in Days /\ IsOccurrence(s, d) /\ Ends(s, d) > from}
    IN  IF found = {} THEN Null ELSE Starts(s, Min(found))

\* Mutant: the hour of the celebration is not looked at.
RespectsLeadByDay(form, date, time, lead, at) ==
    LET day == (at + Offset + lead) \div 24
    IN  IF form = "basic" THEN Year[date] >= Year[day] ELSE date >= day

\* respectsLeadTime, with the first instant of earliestRequestLocal, written with
\* hyphens.  The dates are compared as strings: "20260301" comes after every
\* "2026-..."; a time behind the day only makes the string greater than the day.
RespectsLead(form, date, time, lead, at) ==
    LET earliest == at + Offset + lead
        day == earliest \div 24
    IN  IF form = "basic" THEN Year[date] >= Year[day]
        ELSE \/ date > day
             \/ date = day /\ (time = Null \/ time >= earliest % 24)

-----------------------------------------------------------------------------
(* ScheduleService *)

Recurring(frequency, day, week) ==
    /\ frequency \in {"WEEKLY", "BIWEEKLY", "MONTHLY"} => day # Null
    /\ frequency = "MONTHLY" => week # Null

\* Its identifier is a new one: nothing refers to it.
ScheduleCreate(s, row) ==
    /\ schedule[s] = Null
    /\ \A r \in Requests : request[r] # Null => request[r].schedule # s
    /\ Recurring(row.frequency, row.dayOfWeek, row.weekOfMonth)
    /\ row.frequency = "ONCE" => row.startDate # Null
    /\ schedule' = [schedule EXCEPT ![s] = row]
    /\ UNCHANGED <<now, tariff, edit, request, stage>>

\* update() writes the columns that the patch has.
Written(patch, row) == [f \in DOMAIN row |-> IF f \in DOMAIN patch THEN patch[f] ELSE row[f]]

Given(patch, row, f) == IF f \in DOMAIN patch /\ patch[f] # Null THEN patch[f] ELSE row[f]

\* update(): the row is read and checked with the patch over it, a NULL in the
\* patch counting as nothing ...
ScheduleEdit(e, s, patch) ==
    /\ edit[e] = Null
    /\ schedule[s] # Null
    /\ Recurring(Given(patch, schedule[s], "frequency"), Given(patch, schedule[s], "dayOfWeek"),
                 Given(patch, schedule[s], "weekOfMonth"))
    /\ edit' = [edit EXCEPT ![e] = [of |-> s, patch |-> patch]]
    /\ UNCHANGED <<now, schedule, tariff, request, stage>>

\* ... and its columns are written, over what the row has become by then.
ScheduleWrite(e) ==
    /\ edit[e] # Null
    /\ edit[e].of \in Schedules
    /\ schedule' = [schedule EXCEPT ![edit[e].of] = Written(edit[e].patch, @)]
    /\ edit' = [edit EXCEPT ![e] = Null]
    /\ UNCHANGED <<now, tariff, request, stage>>

\* SET NULL in the requests that are saved; the updates that have read it find none.
ScheduleDelete(s) ==
    /\ schedule[s] # Null
    /\ schedule' = [schedule EXCEPT ![s] = Null]
    /\ request' = [r \in Requests |->
          IF stage[r] = "saved" /\ request[r].schedule = s
          THEN [request[r] EXCEPT !.schedule = Null] ELSE request[r]]
    /\ edit' = [e \in Edits |-> IF edit[e] # Null /\ edit[e].of = s THEN Null ELSE edit[e]]
    /\ UNCHANGED <<now, tariff, stage>>

-----------------------------------------------------------------------------
(* TariffService *)

TariffCreate(c, row) ==
    /\ tariff[c] = Null
    /\ row.active
    /\ row.amount # Null \/ row.lead # Null
    /\ tariff' = [tariff EXCEPT ![c] = row]
    /\ UNCHANGED <<now, schedule, edit, request, stage>>

\* Mutant: only the columns of the body are written.
TariffEditSparse(e, c, body) ==
    LET row == tariff[c]
        patch == [f \in DOMAIN body \cup {"amount", "lead"} |->
                     IF f \in DOMAIN body THEN body[f] ELSE row[f]]
    IN  /\ edit[e] = Null
        /\ row # Null
        /\ patch.amount # Null \/ patch.lead # Null
        /\ edit' = [edit EXCEPT ![e] = [of |-> c, patch |-> body]]
        /\ UNCHANGED <<now, schedule, tariff, request, stage>>

\* update(): what the body does not give is taken from the row read; active is
\* written only if it is given.  At least one of the two terms must remain ...
TariffEdit(e, c, body) ==
    LET row == tariff[c]
        patch == [f \in DOMAIN body \cup {"amount", "lead"} |->
                     IF f \in DOMAIN body THEN body[f] ELSE row[f]]
    IN  /\ edit[e] = Null
        /\ row # Null
        /\ patch.amount # Null \/ patch.lead # Null
        /\ edit' = [edit EXCEPT ![e] = [of |-> c, patch |-> patch]]
        /\ UNCHANGED <<now, schedule, tariff, request, stage>>

\* ... and both are written, by the identifier of the row read.
TariffWrite(e) ==
    /\ edit[e] # Null
    /\ edit[e].of \in Hierarchy
    /\ tariff' = [tariff EXCEPT ![edit[e].of] = Written(edit[e].patch, @)]
    /\ edit' = [edit EXCEPT ![e] = Null]
    /\ UNCHANGED <<now, schedule, request, stage>>

\* The updates that have read the row find none: a row made again has a new identifier.
TariffDelete(c) ==
    /\ tariff[c] # Null
    /\ tariff' = [tariff EXCEPT ![c] = Null]
    /\ edit' = [e \in Edits |-> IF edit[e] # Null /\ edit[e].of = c THEN Null ELSE edit[e]]
    /\ UNCHANGED <<now, schedule, request, stage>>

Sets(c, field) == tariff[c] # Null /\ tariff[c].active /\ tariff[c][field] # Null

-----------------------------------------------------------------------------
(* RequestService.validate, create *)

Upward(cs) == \A b \in cs : Parent[b] # Null => Parent[b] \in cs

\* The church and its ancestors.
Chain(c) == {b \in Hierarchy : \A cs \in SUBSET Hierarchy : c \in cs /\ Upward(cs) => b \in cs}

RequestGoto(r, s) == stage' = [stage EXCEPT ![r] = s]
Refuse(r) == RequestGoto(r, "refused") /\ request' = [request EXCEPT ![r] = Null]

\* The type is read here, once.
Ask(r, type, c, d, form, s) ==
    /\ stage[r] = "idle"
    /\ request' = [request EXCEPT ![r] =
          [church |-> c, date |-> d, form |-> form, schedule |-> s, type |-> type, time |-> Null,
           at |-> c, hop |-> 0, checked |-> Null, lead |-> Null, amount |-> Null]]
    /\ RequestGoto(r, IF type.mass THEN "masses" ELSE "slot")
    /\ UNCHANGED <<now, schedule, tariff, edit>>

Published(s, c) == schedule[s] # Null /\ schedule[s].church = c /\ schedule[s].mass

\* An intention is for a mass that the church has published.
FindMass(r) ==
    LET s == request[r].schedule
    IN  /\ stage[r] = "masses"
        /\ IF s # Null /\ Published(s, request[r].church)
           THEN RequestGoto(r, "slot") /\ UNCHANGED request
           ELSE Refuse(r)
        /\ UNCHANGED <<now, schedule, tariff, edit>>

\* The schedule is read again, with its time; a date is an occurrence only in the
\* form YYYY-MM-DD, as no other makes an instant with the "T00:00:00Z" put behind it.
Celebrates(s, q) ==
    /\ schedule[s] # Null /\ schedule[s].church = q.church
    /\ q.form = "day" /\ IsOccurrence(schedule[s], q.date)

\* Mutant: the notice is counted to the end of the celebration.
FindSlotEnd(r) ==
    LET s == request[r].schedule
    IN  /\ stage[r] = "slot"
        /\ IF s = Null THEN RequestGoto(r, "lead") /\ UNCHANGED request
           ELSE IF Celebrates(s, request[r])
           THEN /\ RequestGoto(r, "lead")
                /\ request' = [request EXCEPT ![r].time = schedule[s].time + schedule[s].duration]
           ELSE Refuse(r)
        /\ UNCHANGED <<now, schedule, tariff, edit>>

FindSlot(r) ==
    LET s == request[r].schedule
    IN  /\ stage[r] = "slot"
        /\ IF s = Null THEN RequestGoto(r, "lead") /\ UNCHANGED request
           ELSE IF Celebrates(s, request[r])
           THEN /\ RequestGoto(r, "lead")
                /\ request' = [request EXCEPT ![r].time = schedule[s].time]
           ELSE Refuse(r)
        /\ UNCHANGED <<now, schedule, tariff, edit>>

\* Mutant: the search starts above the church.
HopFromParent(r, field) ==
    LET c == request[r].at
    IN  IF c = Null \/ request[r].hop = MaxHops THEN "none"
        ELSE IF request[r].hop > 0 /\ Sets(c, field) THEN "found" ELSE "up"

\* findInHierarchy, one church after another.
Hop(r, field) ==
    LET c == request[r].at
    IN  IF c = Null \/ request[r].hop = MaxHops THEN "none"
        ELSE IF Sets(c, field) THEN "found" ELSE "up"

GoUp(r) == request' = [request EXCEPT ![r].at = Parent[@], ![r].hop = @ + 1]

ResolveLead(r) ==
    /\ stage[r] = "lead"
    /\ \/ Hop(r, "lead") = "up" /\ GoUp(r) /\ UNCHANGED stage
       \/ /\ Hop(r, "lead") = "found"
          /\ request' = [request EXCEPT ![r].lead = tariff[request[r].at].lead]
          /\ RequestGoto(r, "check")
       \/ /\ Hop(r, "lead") = "none"
          /\ request' = [request EXCEPT ![r].lead = request[r].type.lead]
          /\ RequestGoto(r, "check")
    /\ UNCHANGED <<now, schedule, tariff, edit>>

CheckLead(r) ==
    /\ stage[r] = "check"
    /\ IF RespectsLead(request[r].form, request[r].date, request[r].time, request[r].lead, now)
       THEN /\ request' = [request EXCEPT ![r].checked = now, ![r].at = request[r].church,
                                             ![r].hop = 0]
            /\ RequestGoto(r, "amount")
       ELSE Refuse(r)
    /\ UNCHANGED <<now, schedule, tariff, edit>>

\* The tariff prevails over the amount of the client, which Null stands for.
ResolveAmount(r) ==
    /\ stage[r] = "amount"
    /\ \/ Hop(r, "amount") = "up" /\ GoUp(r) /\ UNCHANGED stage
       \/ /\ Hop(r, "amount") = "found"
          /\ request' = [request EXCEPT ![r].amount = tariff[request[r].at].amount]
          /\ RequestGoto(r, "save")
       \/ Hop(r, "amount") = "none" /\ RequestGoto(r, "save") /\ UNCHANGED request
    /\ UNCHANGED <<now, schedule, tariff, edit>>

\* An offering that is due is not given, or PaymentService.submit refuses it.
OfferingRefused(r) ==
    /\ stage[r] = "save"
    /\ request[r].amount # 0
    /\ Refuse(r)
    /\ UNCHANGED <<now, schedule, tariff, edit>>

\* The payment, if there is one, and the request: its schedule must still be there.
SaveRequest(r) ==
    /\ stage[r] = "save"
    /\ IF request[r].schedule = Null \/ schedule[request[r].schedule] # Null
       THEN /\ RequestGoto(r, "saved")
            /\ request' = [request EXCEPT ![r].at = Null, ![r].hop = 0]
       ELSE Refuse(r)
    /\ UNCHANGED <<now, schedule, tariff, edit>>

Tick ==
    /\ \E t \in Instants : t > now /\ now' = t
    /\ UNCHANGED <<schedule, tariff, edit, request, stage>>

ScheduleStep ==
    \E s \in Schedules :
        \/ \E row \in Rows : ScheduleCreate(s, row)
        \/ \E e \in Edits, patch \in RowPatches : ScheduleEdit(e, s, patch)
        \/ ScheduleDelete(s)

TariffStep ==
    \E c \in Hierarchy :
        \/ \E row \in TariffRows[c] : TariffCreate(c, row)
        \/ \E e \in Edits, body \in TariffBodies[c] : TariffEdit(e, c, body)
        \/ TariffDelete(c)

RequestStep(r) ==
    \/ \E type \in Rules, c \in Hierarchy, d \in Dates, form \in DateForms,
          s \in Schedules \cup {Null} : Ask(r, type, c, d, form, s)
    \/ FindMass(r) \/ FindSlot(r) \/ ResolveLead(r) \/ CheckLead(r) \/ ResolveAmount(r)
    \/ OfferingRefused(r) \/ SaveRequest(r)

\* The term that a request searches, or has found and not yet used.
Seeks(r) ==
    IF stage[r] \in {"lead", "check"} THEN "lead"
    ELSE IF stage[r] \in {"amount", "save"} THEN "amount" ELSE "none"

SetNow(r, c) == IF Sets(c, Seeks(r)) THEN tariff[c][Seeks(r)] ELSE Null

Watch ==
    seen' = [r \in Requests |-> [c \in Hierarchy |->
        IF Seeks(r)' = "none" THEN {}
        ELSE {SetNow(r, c)'} \cup (IF Seeks(r) = Seeks(r)' THEN seen[r][c] ELSE {})]]

LiturgySteps ==
    \/ ScheduleStep \/ TariffStep
    \/ \E e \in Edits : ScheduleWrite(e) \/ TariffWrite(e)
    \/ \E r \in Requests : RequestStep(r)
    \/ Tick

LiturgyNext == LiturgySteps /\ Watch

LiturgySpec == LiturgyInit /\ [][LiturgyNext]_liturgyVars

-----------------------------------------------------------------------------
(* Properties *)

\* A tariff always sets an offering or a lead time, although two updates that each
\* take one away may both have read a row that had the two.
TariffsSaySomething ==
    \A c \in Hierarchy : tariff[c] # Null => tariff[c].amount # Null \/ tariff[c].lead # Null

\* nextScheduleOccurrence shows the earliest celebration that is not over, if it is
\* within the horizon and over by the end of its UTC day; and never one that is over.
NearbyShowsNext ==
    \A s \in Schedules : schedule[s] # Null =>
        LET row == schedule[s]
            live == {d \in Days : IsOccurrence(row, d) /\ now < Ends(row, d)}
            shown == NextOccurrence(row, now)
        IN  /\ shown # Null => \E d \in live : shown = Starts(row, d)
            /\ /\ live # {}
               /\ Min(live) <= now \div 24 + Horizon
               /\ row.time + row.duration <= 24 + Offset
               => shown = Starts(row, Min(live))

\* What a search up the hierarchy may answer while tariffs are edited: a value that a
\* church has set since it began, when each church nearer has been without one; the
\* default, when each church has.
Resolves(value, default, c, had) ==
    \/ \E b \in Chain(c) : /\ value \in had[b] \ {Null}
                           /\ \A a \in Chain(c) : b \in Chain(a) /\ a # b => Null \in had[a]
    \/ value = default /\ \A a \in Chain(c) : Null \in had[a]

\* The notice that is checked and the offering that is asked are those of the nearest
\* church up the hierarchy that sets one; if tariffs change between the reads, of no
\* church passed over that had set one all along.
TermsOfNearest ==
    \A r \in Requests : LET q == request[r] IN
        /\ stage[r] = "check" => Resolves(q.lead, q.type.lead, q.church, seen[r])
        /\ stage[r] = "save" => Resolves(q.amount, Null, q.church, seen[r])

\* The notice, in hours, up to the celebration or to the end of the day.
GivesNotice(q) ==
    24 * q.date + (IF q.time = Null THEN 23 ELSE q.time) >= q.checked + Offset + q.lead

\* A request that is saved for a date written with hyphens gave the notice that was
\* found for it, although its schedule may be changed or deleted after the check.
SavedGaveNotice ==
    \A r \in Requests : stage[r] = "saved" /\ request[r].form # "basic" => GivesNotice(request[r])
=============================================================================
