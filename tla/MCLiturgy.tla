----------------------------- MODULE MCLiturgy -----------------------------
(* The instance of Liturgy that TLC checks: the last days of February and *)
(* the first of March 2026, day 0 being Friday 27 February. *)
EXTENDS Liturgy, TLC

CONSTANTS parish, diocese

MCParent == parish :> diocese @@ diocese :> Null
MCWeekDay == [d \in 0 .. 20 |-> (d + 5) % 7]
MCYear == [d \in 0 .. 20 |-> 2026]
MCMonthDay == [d \in 0 .. 20 |-> IF d < 2 THEN d + 27 ELSE d - 1]
MCInstants == {22, 48}

Celebration(frequency, day, week, time, duration, start, end) ==
    [frequency |-> frequency, dayOfWeek |-> day, weekOfMonth |-> week, time |-> time,
     duration |-> duration, startDate |-> start, endDate |-> end,
     church |-> parish, mass |-> TRUE]

\* Every day until midnight, the first Sunday of the month at midnight, the
\* Saturdays from the 2nd to the 7th of March over midnight.
MCRows ==
    {Celebration("DAILY", Null, Null, 23, 1, Null, Null),
     Celebration("MONTHLY", 0, 1, 0, 1, Null, Null),
     Celebration("WEEKLY", 6, Null, 23, 2, 3, 8)}
MCRowPatches == {[dayOfWeek |-> Null]}

Symmetry == Permutations(Edits)

MCRules == {[mass |-> TRUE, lead |-> 0], [mass |-> FALSE, lead |-> 25]}
MCTariffRows ==
    parish :> {[amount |-> 0, lead |-> 25, active |-> TRUE]} @@
    diocese :> {[amount |-> 5, lead |-> 49, active |-> TRUE]}
MCTariffBodies ==
    parish :> {[amount |-> Null], [lead |-> Null], [active |-> FALSE]} @@ diocese :> {}
=============================================================================
