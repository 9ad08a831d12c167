------------------------------ MODULE MCSchedule ------------------------------
(***************************************************************************)
(* A small calendar for Schedule: days of three hours, weeks of three      *)
(* days, months of four and five days.  The clocks skip an inner hour on   *)
(* day 8, the first hour on day 14, which begins a month, and the last one *)
(* on day 26; the last hour of day 20 comes twice.  The horizon is day 21. *)
(***************************************************************************)
EXTENDS Schedule, TLC

MCFirstDay == <<0, 5, 9, 14, 19, 23, 28, 33, 38, 43>>

MCChangeHour == 8 :> 1 @@ 14 :> 0 @@ 20 :> 2 @@ 26 :> 2

Expression(types, days) == [type : types, hour : 0 .. Hours, day : days]

MCSchedules ==
    Expression({"daily"}, {None, Star})
        \cup Expression({"weekly"}, {None, Star} \cup 0 .. DaysPerWeek)
        \cup Expression({"monthly"}, {None, Star} \cup 0 .. Longest + 1)
        \cup [type : {"manual", "interval"}, hour : 0 .. 1, day : {None}]
        \cup [type : {"one_time"}, hour : {7, 20}, day : {None}]

\* Windows of two hours and of a day, on each weekday, before and across
\* midnight and the ends of week and month.
MCWindows ==
    {[start |-> s, end |-> s + n, enabled |-> TRUE, recurrence |-> r] :
        s \in 0 .. 20, n \in {2, 3}, r \in {"", "daily", "weekly", "monthly"}}
    \cup {[start |-> 3, end |-> 5, enabled |-> FALSE, recurrence |-> "daily"]}
=============================================================================
