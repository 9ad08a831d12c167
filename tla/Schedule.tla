------------------------------- MODULE Schedule -------------------------------
(***************************************************************************)
(* When a scheduled check is due: CalculateNextRunAt of                    *)
(* internal/scheduler/planner.go as the API calls it on POST and PATCH,    *)
(* and the maintenance windows of internal/scheduler/maintenance.go.       *)
(*                                                                         *)
(* Time is counted in elapsed hours.  The calendar is small but has what   *)
(* the code has to cope with: months of unequal length and days on which   *)
(* the clocks change.  On such a day one hour, its ChangeHour, is skipped  *)
(* or comes twice; depending on the zone that is an inner hour, the first  *)
(* or the last.                                                            *)
(***************************************************************************)
EXTENDS Integers, Sequences, FiniteSets

CONSTANTS
    Hours,         \* wall-clock hours of a day, 0 .. Hours - 1
    DaysPerWeek,   \* day 0 is a Sunday
    FirstDay,      \* the day each month begins, and the day after the last one
    Longest,       \* days of the longest month, 31 in the code
    Spring, Fall,  \* days on which the clocks go forward, and back
    ChangeHour,    \* the hour that such a day lacks, or has twice
    Schedules,     \* schedules that clients send
    Windows,       \* maintenance windows
    Horizon,       \* bound: the last moment of the model
    None           \* SQL NULL, an absent field of the expression

VARIABLES
    now,  \* the present
    row   \* the check's row: its schedule and next_run_at

planVars == <<now, row>>

\* A third field that the code refuses, as the star in "0 9 * * 1".
Star == -1

Calendar == {"daily", "weekly", "monthly"}

-----------------------------------------------------------------------------
(* Package time: between moments and wall clocks.                          *)

Before(days, d) == Cardinality({x \in days : x < d})

Months == 1 .. Len(FirstDay) - 1

MonthLength(m) == FirstDay[m + 1] - FirstDay[m]

LastDay == FirstDay[Len(FirstDay)] - 1

Days == 0 .. LastDay

\* The moment a day begins.
Midnight ==
    [d \in 0 .. LastDay + 1 |-> d * Hours - Before(Spring, d) + Before(Fall, d)]

Moments == 0 .. Midnight[LastDay + 1] - 1

Day ==
    [t \in Moments |->
        CHOOSE d \in Days : Midnight[d] <= t /\ t < Midnight[d + 1]]

Month ==
    [d \in Days |->
        CHOOSE m \in Months : FirstDay[m] <= d /\ d < FirstDay[m + 1]]

DayOfMonth(d) == d - FirstDay[Month[d]] + 1

Weekday(d) == d % DaysPerWeek

Hour ==
    [t \in Moments |->
        LET d == Day[t]
            h == t - Midnight[d]
        IN  CASE d \in Spring /\ h >= ChangeHour[d] -> h + 1
              [] d \in Fall /\ h > ChangeHour[d] -> h - 1
              [] OTHER -> h]

\* Day d has no hour h.
Skips(d, h) == d \in Spring /\ ChangeHour[d] = h

\* time.Date on day d: an hour that comes twice, or not at all, is read in
\* either of the two offsets of that day.  The first hour of a day that lacks
\* it may so be the last one of the day before.
OnDay(d, h) ==
    LET moments == {t \in Midnight[d] .. Midnight[d + 1] - 1 : Hour[t] = h}
    IN  IF moments /= {} THEN moments
        ELSE {Midnight[d] + h - 1, Midnight[d] + h}

\* time.Date carries a day past the end of its month into the next one.
Date(m, day, h) == OnDay(FirstDay[m] + day - 1, h)

\* The months follow each other, and all are longer than half the longest.
ASSUME CalendarAssumption ==
    /\ Hours \in Nat /\ Hours > 2
    /\ DaysPerWeek \in Nat \ {0}
    /\ Longest \in Nat /\ Longest > 2
    /\ FirstDay \in Seq(Nat) /\ Len(FirstDay) > 1 /\ FirstDay[1] = 0
    /\ \A m, n \in DOMAIN FirstDay : m < n => FirstDay[m] < FirstDay[n]
    /\ \A m \in Months :
           MonthLength(m) <= Longest /\ Longest < 2 * MonthLength(m)

\* The clocks change by an hour, at most once in two weeks and not on the
\* first day.
ASSUME ClockAssumption ==
    /\ Spring \subseteq Days \ {0} /\ Fall \subseteq Days /\ Spring \cap Fall = {}
    /\ ChangeHour \in [Spring \cup Fall -> 0 .. Hours - 1]
    /\ \A a, b \in Spring \cup Fall : a < b => b - a >= 2 * DaysPerWeek

\* What is planned before the horizon lies in the calendar.
ASSUME HorizonAssumption ==
    /\ Horizon \in Moments
    /\ Day[Horizon] + 2 * (Longest + DaysPerWeek + 1) <= LastDay

ASSUME ScheduleAssumption ==
    /\ None \notin Int
    /\ \A s \in Schedules : s.hour \in Int /\ s.day \in Int \cup {None}

ASSUME WindowAssumption ==
    \A w \in Windows :
        /\ w.start \in Moments /\ w.end \in Int /\ w.enabled \in BOOLEAN
        /\ w.recurrence \in {"", "daily", "weekly", "monthly"}

-----------------------------------------------------------------------------
(* The planner.  Each operator gives the set of possible results; None is  *)
(* the zero time, and also the errors, which the API drops.                *)

\* (Mutant) A run at the present hour is not pushed to the next day.
CandidatesFrom(h, from) ==
    {IF c >= from THEN c ELSE c + Hours : c \in OnDay(Day[from], h)}

\* Today at h, or 24 hours later.
Candidates(h, from) ==
    {IF c > from THEN c ELSE c + Hours : c \in OnDay(Day[from], h)}

\* 24 hours at a time until the weekday is right.
Hit(c, wd, k) == Weekday(Day[c + k * Hours]) = wd

OnWeekday(c, wd) ==
    LET k == CHOOSE n \in 0 .. 2 * DaysPerWeek :
                 Hit(c, wd, n) /\ \A j \in 0 .. n - 1 : ~Hit(c, wd, j)
    IN  c + k * Hours

\* (Mutant) The month after is always as many days away.
InMonthByDays(c, day, h, from) ==
    UNION {IF x > from THEN {x} ELSE OnDay(Day[x] + MonthLength(1), Hour[x]) :
              x \in Date(Month[Day[c]], day, h)}

\* AddDate(0, 1, 0) keeps day and hour of what it is given.
InMonth(c, day, h, from) ==
    UNION {IF x > from THEN {x}
           ELSE Date(Month[Day[x]] + 1, DayOfMonth(Day[x]), Hour[x]) :
              x \in Date(Month[Day[c]], day, h)}

CalcCronLike(s, from) ==
    IF s.hour \notin 0 .. Hours - 1 THEN {None}
    ELSE LET candidates == Candidates(s.hour, from)
         IN  CASE s.type = "daily" \/ s.day = None -> candidates
               [] s.type = "weekly" /\ s.day \in 0 .. DaysPerWeek - 1 ->
                      {OnWeekday(c, s.day) : c \in candidates}
               [] s.type = "monthly" /\ s.day \in 1 .. Longest ->
                      UNION {InMonth(c, s.day, s.hour, from) : c \in candidates}
               [] OTHER -> {None}

\* hour is the interval, or the moment of a run that happens once.
CalculateNextRunAt(s, from) ==
    CASE s.type \in Calendar -> CalcCronLike(s, from)
      [] s.type = "interval" /\ s.hour > 0 -> {from + s.hour}
      [] s.type = "one_time" /\ s.hour >= from -> {s.hour}
      [] OTHER -> {None}

\* Evaluated once.
NextRun == [s \in Schedules |-> [t \in 0 .. Horizon |-> CalculateNextRunAt(s, t)]]

-----------------------------------------------------------------------------
(* Maintenance windows.                                                    *)

\* The start of the window in the cycle of the moment at.
Projected(w, at) ==
    LET first == Day[w.start]
        h == Hour[w.start]
    IN  CASE w.recurrence = "" -> {w.start}
          [] w.recurrence = "daily" -> OnDay(Day[at], h)
          [] w.recurrence = "weekly" ->
                 LET days == Weekday(Day[at]) - Weekday(first)
                 IN  UNION {OnDay(Day[x] - days, Hour[x]) : x \in OnDay(Day[at], h)}
          [] w.recurrence = "monthly" ->
                 Date(Month[Day[at]], DayOfMonth(first), h)

\* (Mutant) The end belongs to the window.
IsActiveClosed(w, at) ==
    {w.enabled /\ w.end > w.start /\ s <= at /\ at <= s + (w.end - w.start) :
        s \in Projected(w, at)}

IsActive(w, at) ==
    {w.enabled /\ w.end > w.start /\ s <= at /\ at < s + (w.end - w.start) :
        s \in Projected(w, at)}

-----------------------------------------------------------------------------
(* The API.  Inputs that Validate refuses change nothing and are left out. *)

Save(s) == \E next \in NextRun[s][now] : row' = [schedule |-> s, next |-> next]

\* schedule_type is also written to cadence, whose CHECK knows the calendar
\* schedules only.
Post ==
    /\ row = None
    /\ \E s \in Schedules : s.type \in Calendar /\ Save(s)
    /\ UNCHANGED now

Patch ==
    /\ row /= None
    /\ \E s \in Schedules : Save(s)
    /\ UNCHANGED now

Delete ==
    /\ row /= None
    /\ row' = None
    /\ UNCHANGED now

\* An hour goes by.
HourPasses ==
    /\ now < Horizon
    /\ now' = now + 1
    /\ UNCHANGED row

PlanInit == now = 0 /\ row = None

PlanNext == Post \/ Patch \/ Delete \/ HourPasses

PlanSpec == PlanInit /\ [][PlanNext]_planVars

-----------------------------------------------------------------------------
(* Properties.                                                             *)

\* The row that a step writes, if it plans a calendar run.
Plans ==
    /\ row' /= row
    /\ row' /= None
    /\ row'.schedule.type \in Calendar
    /\ row'.next /= None

\* The clocks do not change on the days from d to e.
Steady(d, e) == (d .. e) \cap (Spring \cup Fall) = {}

\* The first day that the planner looks at: a monthly run is sought from the
\* beginning of the month, and where the clocks skip its hour, the hour it has
\* instead is kept for the next month.
LooksFrom(s, from) ==
    IF s.type = "monthly" THEN FirstDay[Month[Day[from]]] ELSE Day[from]

Matches(s, t) ==
    /\ Hour[t] = s.hour
    /\ (s.type = "weekly" /\ s.day /= None) => Weekday(Day[t]) = s.day
    /\ (s.type = "monthly" /\ s.day /= None) => DayOfMonth(Day[t]) = s.day

EveryMonthHas(s) ==
    (s.type = "monthly" /\ s.day /= None) =>
        \A m \in Months : s.day <= MonthLength(m)

FirstMatch(s, from, next) ==
    /\ next > from
    /\ Matches(s, next)
    /\ \A t \in from + 1 .. next - 1 : ~Matches(s, t)

FirstMatchStep ==
    LET s == row'.schedule
        next == row'.next
    IN  (/\ Plans
         /\ EveryMonthHas(s)
         /\ Steady(LooksFrom(s, now), Day[next])
         /\ ~Skips(Day[next] + 1, s.hour)) => FirstMatch(s, now, next)

\* While the clocks do not change, and for days that every month has, a check
\* is planned for the first moment after now that its expression names, across
\* midnight, the end of the week and the end of the month.  (A run on the eve
\* of a day that lacks its hour may be the one of that day.)
PlannedForFirstMatch == [][FirstMatchStep]_planVars

\* A month near the present one has no hour of the schedule on its day.
HourIsSkipped(s, from) ==
    \E m \in {Month[Day[from]], Month[Day[from]] + 1} :
        Skips(FirstDay[m] + s.day - 1, s.hour)

WithinCycle(s, from, next) ==
    /\ (s.day = None \/ s.type = "daily") => next <= from + Hours
    /\ (s.day /= None /\ s.type = "weekly") =>
           next <= from + 2 * DaysPerWeek * Hours
    /\ (s.day /= None /\ s.type = "monthly") =>
           /\ Month[Day[next]] <= Month[Day[from]] + 2
           /\ HourIsSkipped(s, from) \/ \E m \in Months : next \in Date(m, s.day, s.hour)

WithinCycleStep == Plans => WithinCycle(row'.schedule, now, row'.next)

\* The wait is bounded also when the clocks change: a day, two weeks (when the
\* clocks carry the planner past the weekday), the end of the month after next.
\* A monthly run is what time.Date makes of its day and hour in some month,
\* unless the clocks skip its hour on its day of this month or the next: then
\* the hour, and at either end of a day the day, is what AddDate carries over,
\* and the run may even be planned in the past.
PlannedWithinCycle == [][WithinCycleStep]_planVars

\* The days on which an occurrence of the window begins.
Begins(w, d) ==
    CASE w.recurrence = "" -> d = Day[w.start]
      [] w.recurrence = "daily" -> TRUE
      [] w.recurrence = "weekly" -> Weekday(d) = Weekday(Day[w.start])
      [] w.recurrence = "monthly" -> DayOfMonth(d) = DayOfMonth(Day[w.start])

SameCycle(w, d, e) ==
    CASE w.recurrence = "" -> TRUE
      [] w.recurrence = "daily" -> d = e
      [] w.recurrence = "weekly" -> d \div DaysPerWeek = e \div DaysPerWeek
      [] w.recurrence = "monthly" -> Month[d] = Month[e]

\* The occurrence of the window that begins on day d is under way, at some
\* reading of its hour; and at every reading.
Covers(w, d, at) ==
    /\ Begins(w, d)
    /\ \E s \in OnDay(d, Hour[w.start]) : s <= at /\ at < s + (w.end - w.start)

SurelyCovers(w, d, at) ==
    /\ Begins(w, d)
    /\ \A s \in OnDay(d, Hour[w.start]) : s <= at /\ at < s + (w.end - w.start)

\* The code projects the window by way of a day that lacks its hour but is not
\* the day on which it begins: the present day of a weekly one, the day to
\* which a short month carries a monthly one.
Astray(w, d) ==
    CASE w.recurrence = "weekly" -> Skips(d, Hour[w.start])
      [] w.recurrence = "monthly" ->
             LET day == DayOfMonth(Day[w.start])
             IN  /\ day > MonthLength(Month[d])
                 /\ Skips(FirstDay[Month[d]] + day - 1, Hour[w.start])
      [] OTHER -> FALSE

OpenOnTime(w, at) ==
    /\ TRUE \in IsActive(w, at) => w.enabled /\ \E d \in Days : Covers(w, d, at)
    /\ (w.enabled /\ \E d \in Days : SameCycle(w, d, Day[at]) /\ SurelyCovers(w, d, at))
           => IsActive(w, at) = {TRUE}

\* A window is open only inside one of its occurrences, and it is open in all
\* of the occurrence up to the end of the day, week or month in which that
\* began, before and after the clocks change and on that day.  The exception
\* are weekly windows on a day that lacks their hour, and monthly ones that a
\* short month carries to such a day: they are an hour, or a day, astray.
WindowsOpenOnTime ==
    \A w \in Windows : ~Astray(w, Day[now]) => OpenOnTime(w, now)
=============================================================================
