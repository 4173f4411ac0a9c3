\* One schedule, two updates, one request, a parish and its diocese with terms of their own.
CONSTANTS
    parish = parish
    diocese = diocese
    Requests = {r1}
    Schedules = {s1}
    Edits = {e1, e2}
    Hierarchy = {parish, diocese}
    Parent <- MCParent
    WeekDay <- MCWeekDay
    MonthDay <- MCMonthDay
    Year <- MCYear
    Instants <- MCInstants
    Hours = {0, 23}
    Rows <- MCRows
    RowPatches <- MCRowPatches
    Rules <- MCRules
    Leads = {25, 49}
    Amounts = {0, 5}
    TariffRows <- MCTariffRows
    TariffBodies <- MCTariffBodies
    Dates = {2}
    DateForms = {"day", "timed", "basic"}
    Offset = 1
    Horizon = 14
    MaxHops = 15
    Null = Null
SPECIFICATION LiturgySpec
SYMMETRY Symmetry
INVARIANTS
    LiturgyTypeOK
    TariffsSaySomething
    NearbyShowsNext
    TermsOfNearest
    SavedGaveNotice
CHECK_DEADLOCK FALSE
