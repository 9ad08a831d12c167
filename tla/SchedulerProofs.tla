---------------------------- MODULE SchedulerProofs ----------------------------
(***************************************************************************)
(* Proofs about the scheduler.                                             *)
(*                                                                         *)
(* First SchedulerLoop, for any number of checks and goroutines and any    *)
(* capacity of the semaphore.                                              *)
(*                                                                         *)
(* Then Schedule, for any calendar and any days on which the clocks        *)
(* change, as far as the assumptions of that module allow: how midnights,  *)
(* days, hours and months lie to each other, that the windows are open on  *)
(* time, and what the planner answers.                                     *)
(***************************************************************************)
EXTENDS SchedulerLoop, Schedule, FiniteSetTheorems, NaturalsInduction,
        WellFoundedInduction, TLAPS

-----------------------------------------------------------------------------
(* The loop and its goroutines.                                            *)

\* The loop holds a check only while it waits for the semaphore, has checks
\* left to start only within a tick, and waits for the group before it stops.
LoopInv ==
    /\ cur \in Check <=> pc = "acquire"
    /\ todo = {} \/ pc \in {"dispatch", "acquire"}

Inv == TypeOK /\ SlotsAccounted /\ LoopInv /\ DrainedWhenStopped

\* The goroutines are finitely many, so the live ones can be counted.
LEMMA LiveFinite == IsFiniteSet(Live) /\ Cardinality(Live) \in Nat
  <1>1. IsFiniteSet(Live)
    BY GoroutineAssumption, FS_Subset, Live \subseteq Goroutine DEF Live
  <1> QED  BY <1>1, FS_CardinalityType

\* The worker starts with no goroutine, no token taken and an empty group.
LEMMA InitInv == Init => Inv
  <1> SUFFICES ASSUME Init PROVE Inv
    OBVIOUS
  <1>1. Live = {}
    BY DEF Init, Live
  <1>2. Cardinality(Live) = 0
    BY <1>1, FS_EmptySet
  <1>3. TypeOK
    BY InputsAssumption, MaxRunsAssumption DEF Init, TypeOK, Row
  <1> QED  BY <1>1, <1>2, <1>3, NullAssumption, ConcurrencyAssumption
           DEF Init, Inv, SlotsAccounted, LoopInv, DrainedWhenStopped

\* Operators, the clock and main leave the loop and its counters alone.
LEMMA OutsideInv ==
    ASSUME Inv, (\E c \in Check : Operator(c)) \/ Main \/ UNCHANGED vars
    PROVE  Inv'
  <1>1. UNCHANGED <<loop, goroutines>>
    BY DEF Operator, CreateCheck, UpdateCheck, DeleteCheck, BecomeDue, Main,
       Signal, CloseDB, Cancel, Exit, vars, loop, goroutines
  <1>2. table' \in [Check -> Row \cup {NULL}]
    <2>1. CASE \E c \in Check : Operator(c)
      BY <2>1, InputsAssumption DEF Operator, CreateCheck, UpdateCheck,
         DeleteCheck, BecomeDue, Inv, TypeOK, Row
    <2> QED  BY <2>1 DEF Main, Signal, CloseDB, Cancel, Exit, vars, Inv, TypeOK
  <1>3. running' \in [Check -> 0 .. MaxRuns]
    BY MaxRunsAssumption DEF Operator, CreateCheck, UpdateCheck, DeleteCheck,
       BecomeDue, Main, Signal, CloseDB, Cancel, Exit, vars, Inv, TypeOK
  <1>4. db' \in BOOLEAN /\ proc' \in {"up", "closing", "cancelled", "exited"}
    BY DEF Operator, CreateCheck, UpdateCheck, DeleteCheck,
       BecomeDue, Main, Signal, CloseDB, Cancel, Exit, vars, main, Inv, TypeOK
  <1> QED  BY <1>1, <1>2, <1>3, <1>4 DEF Inv, TypeOK, SlotsAccounted, LoopInv,
              DrainedWhenStopped, Live, loop, goroutines

\* A started job takes one token, and the count it needs was taken before.
LEMMA StartInv == Inv /\ StartJob => Inv'
  <1> SUFFICES ASSUME Inv, StartJob PROVE Inv'
    OBVIOUS
  <1> DEFINE job == [check |-> cur, stage |-> "record"]
  <1>1. PICK g \in Goroutine : jobs[g] = NULL /\ jobs' = [jobs EXCEPT ![g] = job]
    BY DEF StartJob
  <1>2. job \in Job /\ job # NULL
    BY NullAssumption DEF StartJob, Inv, LoopInv, Job
  <1>3. g \notin Live /\ Live' = Live \cup {g}
    BY <1>1, <1>2 DEF Live, Inv, TypeOK
  <1>4. Cardinality(Live') = Cardinality(Live) + 1
    BY <1>3, LiveFinite, FS_AddElement
  <1>5. TypeOK'
    BY <1>1, <1>2 DEF StartJob, Inv, TypeOK, main
  <1>6. SlotsAccounted'
    BY <1>4, LiveFinite, ConcurrencyAssumption
       DEF StartJob, Inv, TypeOK, SlotsAccounted
  <1>7. LoopInv' /\ DrainedWhenStopped'
    <2>1. NULL \notin Check
      BY NullAssumption
    <2>2. cur' = NULL /\ pc' = "dispatch"
      BY DEF StartJob
    <2> QED  BY <2>1, <2>2 DEF LoopInv, DrainedWhenStopped
  <1> QED  BY <1>5, <1>6, <1>7 DEF Inv

\* The other steps of the loop; Stop is where the group is empty.
LEMMA LoopStepInv == Inv /\ Loop => Inv'
  <1> SUFFICES ASSUME Inv, Loop PROVE Inv'
    OBVIOUS
  <1>1. CASE Tick \/ AddJob \/ EndTick \/ Drain \/ Stop
    <2>1. jobs' = jobs /\ sem' = sem /\ Live' = Live
      BY <1>1 DEF Tick, AddJob, EndTick, Drain, Stop, goroutines, Live
    <2>2. TypeOK'
      BY <1>1 DEF Tick, AddJob, EndTick, Drain, Stop, goroutines, main, Inv, TypeOK
    <2>3. SlotsAccounted'
      BY <1>1, <2>1 DEF Tick, AddJob, EndTick, Drain, Stop, goroutines, Inv,
         TypeOK, SlotsAccounted
    <2>4. LoopInv'
      BY <1>1 DEF Tick, AddJob, EndTick, Drain, Stop, Inv, TypeOK, LoopInv
    <2>5. DrainedWhenStopped'
      <3>1. CASE Stop
        <4>1. Cardinality(Live) = 0
          BY <3>1, LiveFinite DEF Stop, Inv, SlotsAccounted
        <4>2. Live = {}
          BY <4>1, LiveFinite, FS_EmptySet
        <4> QED  BY <2>1, <3>1, <4>2 DEF Stop, Inv, TypeOK, LoopInv, DrainedWhenStopped
      <3> QED  BY <1>1, <3>1 DEF Tick, AddJob, EndTick, Drain, DrainedWhenStopped
    <2> QED  BY <2>2, <2>3, <2>4, <2>5 DEF Inv
  <1> QED  BY <1>1, StartInv DEF Loop

\* A goroutine keeps its token and its count until its deferred calls run.
LEMMA RunInv == ASSUME Inv, NEW g \in Goroutine, Run(g) PROVE Inv'
  <1>1. CASE Record(g) \/ RecordFails(g) \/ Handle(g)
    <2>1. PICK stage \in {"handle", "leave"} :
              /\ jobs[g] # NULL
              /\ jobs' = [jobs EXCEPT ![g].stage = stage]
              /\ UNCHANGED <<table, loop, sem, wg, main>>
      BY <1>1 DEF Record, RecordFails, Handle, Advance, At
    <2>2. [jobs[g] EXCEPT !.stage = stage] \in Job
      BY <2>1 DEF Inv, TypeOK, Job
    <2>3. running' \in [Check -> 0 .. MaxRuns]
      BY <1>1, MaxRunsAssumption
         DEF Record, RecordFails, Handle, Inv, TypeOK
    <2>4. TypeOK'
      BY <2>1, <2>2, <2>3 DEF Inv, TypeOK, loop, main
    <2>5. Live' = Live
      BY <2>1, <2>2, NullAssumption DEF Inv, TypeOK, Live
    <2> QED  BY <2>1, <2>4, <2>5
             DEF Inv, SlotsAccounted, LoopInv, DrainedWhenStopped, loop
  <1>2. CASE Leave(g)
    <2>1. g \in Live /\ Live' = Live \ {g}
      BY <1>2 DEF Leave, At, Live, Inv, TypeOK
    <2>2. Cardinality(Live') = Cardinality(Live) - 1 /\ Cardinality(Live') \in Nat
      <3>1. Cardinality(Live') = Cardinality(Live) - 1
        BY <2>1, LiveFinite, FS_RemoveElement
      <3>2. IsFiniteSet(Live')
        BY <2>1, LiveFinite, FS_Subset, Live' \subseteq Live
      <3> QED  BY <3>1, <3>2, FS_CardinalityType
    <2>3. sem' \in Nat /\ wg' \in Nat /\ SlotsAccounted'
      BY <1>2, <2>2, ConcurrencyAssumption DEF Leave, loop, Inv, TypeOK, SlotsAccounted
    <2>4. TypeOK'
      BY <1>2, <2>3 DEF Leave, loop, main, Inv, TypeOK
    <2> QED  BY <1>2, <2>1, <2>3, <2>4
             DEF Leave, loop, Inv, LoopInv, DrainedWhenStopped
  <1> QED  BY <1>1, <1>2 DEF Run

\* Every token and every count belongs to a live goroutine or to the check
\* that waits, in every state of every worker.
THEOREM Invariance == Spec => []Inv
  <1>1. Inv /\ [Next]_vars => Inv'
    BY OutsideInv, LoopStepInv, RunInv DEF Next
  <1> QED  BY <1>1, InitInv, PTL DEF Spec

\* The counters never go below zero and the tables keep their types.
THEOREM TypeCorrect == Spec => []TypeOK
  <1>1. Inv => TypeOK
    BY DEF Inv
  <1> QED  BY <1>1, Invariance, PTL

\* At most Concurrency jobs are in flight, and the WaitGroup counts exactly
\* them and the one that waits for the semaphore.
THEOREM SlotsHold == Spec => []SlotsAccounted
  <1>1. Inv => SlotsAccounted
    BY DEF Inv
  <1> QED  BY <1>1, Invariance, PTL

\* A loop that has stopped has left no job behind.
THEOREM StopsDrained == Spec => []DrainedWhenStopped
  <1>1. Inv => DrainedWhenStopped
    BY DEF Inv
  <1> QED  BY <1>1, Invariance, PTL

-----------------------------------------------------------------------------
(* Arithmetic.                                                             *)

\* Every set of naturals that is not empty has a least member.
LEMMA LeastMember ==
    ASSUME NEW S \in SUBSET Nat, S /= {}
    PROVE  \E n \in S : \A k \in S : n <= k
  <1> DEFINE R == OpToRel(<, Nat)
  <1>1. IsWellFoundedOn(R, Nat)
    BY NatLessThanWellFounded
  <1>2. PICK n \in S : \A k \in S : <<k, n>> \notin R
    BY <1>1, WFMin
  <1>3. \A k \in S : ~(k < n)
    BY <1>2 DEF OpToRel
  <1> QED  BY <1>3

\* Products of naturals are naturals.
LEMMA Product ==
    ASSUME NEW x \in Nat, NEW y \in Nat
    PROVE  x * y \in Nat
  OBVIOUS

\* So many whole units fit in once only.
LEMMA OneQuotient ==
    ASSUME NEW n \in Nat, n > 0, NEW x \in Int, NEW r \in Int,
           0 <= x * n + r, x * n + r < n, 0 <= r, r < n
    PROVE  x = 0
  <1>1. CASE x >= 1
    <2>1. (x - 1) * n \in Nat
      BY <1>1, Product
    <2>2. (x - 1) * n = x * n - n
      OBVIOUS
    <2> QED  BY <2>1, <2>2
  <1>2. CASE x <= -1
    <2>1. (-1 - x) * n \in Nat
      BY <1>2, Product
    <2>2. (-1 - x) * n = -n - x * n
      OBVIOUS
    <2> QED  BY <2>1, <2>2
  <1> QED  BY <1>1, <1>2

\* What the remainder of a day by the week is.
LEMMA Remainder ==
    ASSUME NEW n \in Nat, n > 0, NEW q \in Int, NEW r \in 0 .. n - 1
    PROVE  (q * n + r) % n = r /\ (q * n + r) \div n = q
  <1> DEFINE a == q * n + r
             m == a % n
             e == a \div n
  <1>1. a \in Int /\ m \in 0 .. n - 1 /\ e \in Int /\ a = e * n + m
    OBVIOUS
  <1>2. (e - q) * n + m = r
    BY <1>1
  <1> HIDE DEF a, m, e
  <1>3. e - q = 0
    BY <1>1, <1>2, OneQuotient
  <1> QED  BY <1>1, <1>2, <1>3 DEF a, m, e

\* Quotient and remainder of an integer.
LEMMA Quotient ==
    ASSUME NEW n \in Nat, n > 0, NEW a \in Int
    PROVE  /\ a % n \in 0 .. n - 1 /\ a \div n \in Int
           /\ a = (a \div n) * n + (a % n)
  <1>1. a % n \in 0 .. n - 1
    OBVIOUS
  <1>2. a \div n \in Int
    OBVIOUS
  <1>3. a = n * (a \div n) + (a % n)
    OBVIOUS
  <1> QED  BY <1>1, <1>2, <1>3

-----------------------------------------------------------------------------
(* The calendar.                                                           *)

\* What the assumptions say of the calendar's numbers.
LEMMA CalendarTypes ==
    /\ Hours \in Nat /\ Hours >= 3
    /\ DaysPerWeek \in Nat /\ DaysPerWeek > 0
    /\ Longest \in Nat
    /\ LastDay \in Nat
    /\ Days = 0 .. LastDay
  <1>1. Hours \in Nat /\ Hours >= 3
    BY CalendarAssumption
  <1>2. DaysPerWeek \in Nat /\ DaysPerWeek > 0 /\ Longest \in Nat
    BY CalendarAssumption
  <1>3. LastDay \in Nat
    <2>1. Len(FirstDay) \in Nat /\ Len(FirstDay) > 1 /\ DOMAIN FirstDay = 1 .. Len(FirstDay)
      BY CalendarAssumption
    <2>2. FirstDay[Len(FirstDay)] \in Nat /\ FirstDay[1] = 0
      BY <2>1, CalendarAssumption
    <2>3. FirstDay[1] < FirstDay[Len(FirstDay)]
      <3>1. 1 \in DOMAIN FirstDay /\ Len(FirstDay) \in DOMAIN FirstDay /\ 1 < Len(FirstDay)
        BY <2>1
      <3> QED  BY <3>1, CalendarAssumption
    <2> QED  BY <2>2, <2>3 DEF LastDay
  <1> QED  BY <1>1, <1>2, <1>3 DEF Days

\* A day and its successor have a midnight.
LEMMA DayType ==
    ASSUME NEW d \in Days
    PROVE  d \in Nat /\ d \in 0 .. LastDay + 1 /\ d + 1 \in 0 .. LastDay + 1
  BY CalendarTypes

\* The days of a set before a given one can be counted.
LEMMA BeforeType ==
    ASSUME NEW S \in SUBSET Days, NEW a \in Int
    PROVE  IsFiniteSet({x \in S : x < a}) /\ Before(S, a) \in Nat
  <1>1. IsFiniteSet(Days)
    BY CalendarTypes, FS_Interval
  <1>2. IsFiniteSet({x \in S : x < a})
    BY <1>1, FS_Subset
  <1> QED  BY <1>2, FS_CardinalityType DEF Before

\* The days of a set before a day: at most one more for each day.
LEMMA BeforeGrows ==
    ASSUME NEW S \in SUBSET Days, NEW a \in Int, NEW b \in Int, a <= b
    PROVE  Before(S, a) <= Before(S, b) /\ Before(S, b) <= Before(S, a) + (b - a)
  <1> DEFINE A == {x \in S : x < a}
             P == {x \in S : a <= x /\ x < b}
             B == {x \in S : x < b}
  <1>1. S \subseteq Int
    BY CalendarTypes
  <1>2. B = A \cup P /\ A \cap P = {}
    <2>1. \A x \in S : /\ x < b <=> (x < a \/ (a <= x /\ x < b))
                      /\ ~(x < a /\ a <= x)
      BY <1>1
    <2> QED  BY <2>1, Zenon
  <1>3. IsFiniteSet(A) /\ IsFiniteSet(B)
    BY BeforeType, Zenon
  <1>4. IsFiniteSet(a .. b - 1) /\ Cardinality(a .. b - 1) = b - a
    <2>1. b - 1 \in Int
      OBVIOUS
    <2>2. /\ IsFiniteSet(a .. b - 1)
          /\ Cardinality(a .. b - 1) = IF a > b - 1 THEN 0 ELSE (b - 1) - a + 1
      BY <2>1, FS_Interval, Zenon
    <2> QED  BY <2>2
  <1>5. P \subseteq a .. b - 1
    <2>1. \A x \in S : (a <= x /\ x < b) => x \in a .. b - 1
      BY <1>1
    <2> QED  BY <2>1, Zenon
  <1>6. IsFiniteSet(P) /\ Cardinality(P) <= b - a /\ Cardinality(P) \in Nat
    BY <1>4, <1>5, FS_Subset, FS_CardinalityType
  <1>7. Cardinality(A) \in Nat
    BY <1>3, FS_CardinalityType
  <1>8. Cardinality(A \cup P) = Cardinality(A) + Cardinality(P) - Cardinality(A \cap P)
    BY <1>3, <1>6, FS_Union
  <1>9. Cardinality(A \cap P) = 0
    BY <1>2, FS_EmptySet
  <1> HIDE DEF A, P, B
  <1>10. Cardinality(B) = Cardinality(A) + Cardinality(P)
    BY <1>2, <1>6, <1>7, <1>8, <1>9
  <1>11. Before(S, a) = Cardinality(A) /\ Before(S, b) = Cardinality(B)
    BY DEF A, B, Before
  <1> QED  BY <1>6, <1>7, <1>10, <1>11

\* They stay as many while no day of the set is passed.
LEMMA BeforeSame ==
    ASSUME NEW S \in SUBSET Days, NEW a \in Int, NEW b \in Int, a <= b,
           (a .. b - 1) \cap S = {}
    PROVE  Before(S, b) = Before(S, a)
  <1>1. S \subseteq Int
    BY CalendarTypes
  <1>2. \A x \in S : x < b <=> x < a
    <2>1. \A x \in S : x \notin a .. b - 1
      BY Zenon
    <2> QED  BY <1>1, <2>1
  <1>3. {x \in S : x < b} = {x \in S : x < a}
    BY <1>2, Zenon
  <1> QED  BY <1>3 DEF Before

\* They become one more when a day of the set is passed.
LEMMA BeforeOne ==
    ASSUME NEW S \in SUBSET Days, NEW x \in S
    PROVE  Before(S, x + 1) = Before(S, x) + 1
  <1> DEFINE A == {y \in S : y < x}
  <1>1. S \subseteq Int
    BY CalendarTypes
  <1>2. {y \in S : y < x + 1} = A \cup {x} /\ x \notin A
    <2>1. \A y \in S : y < x + 1 <=> (y < x \/ y = x)
      BY <1>1
    <2>2. ~(x < x)
      BY <1>1
    <2> QED  BY <2>1, <2>2, Zenon
  <1>3. IsFiniteSet(A)
    BY <1>1, BeforeType
  <1>4. Cardinality(A \cup {x}) = Cardinality(A) + 1
    BY <1>2, <1>3, FS_AddElement
  <1> QED  BY <1>2, <1>4 DEF Before

\* Where a day begins, counted in hours.
LEMMA MidnightValue ==
    ASSUME NEW d \in 0 .. LastDay + 1
    PROVE  /\ Midnight[d] = d * Hours - Before(Spring, d) + Before(Fall, d)
           /\ Midnight[d] \in Int
           /\ Before(Spring, d) \in Nat /\ Before(Fall, d) \in Nat
  <1>1. d \in Int
    BY CalendarTypes
  <1>2. Before(Spring, d) \in Nat /\ Before(Fall, d) \in Nat
    BY <1>1, BeforeType, ClockAssumption
  <1>3. d * Hours \in Int
    BY <1>1, CalendarTypes
  <1>4. Midnight[d] = d * Hours - Before(Spring, d) + Before(Fall, d)
    BY Zenon DEF Midnight
  <1> QED  BY <1>2, <1>3, <1>4

\* The first day begins at the first moment.
LEMMA FirstMidnight == Midnight[0] = 0
  <1>1. 0 \in 0 .. LastDay + 1 /\ 0 * Hours = 0
    BY CalendarTypes
  <1>2. \A S \in SUBSET Days : Before(S, 0) = 0
    <2> SUFFICES ASSUME NEW S \in SUBSET Days PROVE Before(S, 0) = 0
      OBVIOUS
    <2>1. {x \in S : x < 0} = {}
      <3>1. \A x \in S : ~(x < 0)
        BY CalendarTypes
      <3> QED  BY <3>1, Zenon
    <2> QED  BY <2>1, FS_EmptySet DEF Before
  <1>3. Before(Spring, 0) = 0 /\ Before(Fall, 0) = 0
    BY <1>2, ClockAssumption
  <1>4. Midnight[0] = 0 * Hours - Before(Spring, 0) + Before(Fall, 0)
    BY <1>1, MidnightValue
  <1> QED  BY <1>1, <1>3, <1>4

\* While the clocks do not change all days are equally long.
LEMMA MidnightSteady ==
    ASSUME NEW a \in 0 .. LastDay + 1, NEW b \in 0 .. LastDay + 1, a <= b,
           Steady(a, b - 1)
    PROVE  Midnight[b] = Midnight[a] + (b - a) * Hours
  <1>1. a \in Int /\ b \in Int
    BY CalendarTypes
  <1>2. (a .. b - 1) \cap Spring = {} /\ (a .. b - 1) \cap Fall = {}
    BY DEF Steady
  <1>3. Spring \in SUBSET Days /\ Fall \in SUBSET Days
    BY ClockAssumption
  <1>4. Before(Spring, b) = Before(Spring, a)
    BY <1>1, <1>2, <1>3, BeforeSame
  <1>5. Before(Fall, b) = Before(Fall, a)
    BY <1>1, <1>2, <1>3, BeforeSame
  <1>6. /\ Midnight[a] = a * Hours - Before(Spring, a) + Before(Fall, a)
        /\ Midnight[b] = b * Hours - Before(Spring, b) + Before(Fall, b)
        /\ Before(Spring, a) \in Nat /\ Before(Fall, a) \in Nat
    BY MidnightValue
  <1>7. b * Hours = a * Hours + (b - a) * Hours
    BY <1>1, CalendarTypes
  <1>8. a * Hours \in Int /\ b * Hours \in Int /\ (b - a) * Hours \in Int
    BY <1>1, CalendarTypes
  <1> DEFINE x == a * Hours
             y == b * Hours
             z == (b - a) * Hours
  <1>9. x \in Int /\ y \in Int /\ z \in Int /\ y = x + z
    BY <1>7, <1>8
  <1>10. /\ Midnight[a] = x - Before(Spring, a) + Before(Fall, a)
         /\ Midnight[b] = y - Before(Spring, b) + Before(Fall, b)
    BY <1>6
  <1>11. Midnight[b] = Midnight[a] + z
    <2> HIDE DEF x, y, z
    <2> QED  BY <1>4, <1>5, <1>6, <1>9, <1>10
  <1> QED  BY <1>11

\* How long a day is.
Long(d) == IF d \in Spring THEN Hours - 1 ELSE IF d \in Fall THEN Hours + 1 ELSE Hours

\* From one midnight to the next there are the hours of the day.
LEMMA MidnightStep ==
    ASSUME NEW d \in Days
    PROVE  /\ Midnight[d + 1] = Midnight[d] + Long(d)
           /\ Midnight[d] \in Int /\ Midnight[d + 1] \in Int
           /\ Long(d) \in Nat /\ Long(d) >= 2
  <1>1. d \in Int /\ d \in 0 .. LastDay + 1 /\ d + 1 \in 0 .. LastDay + 1
    BY CalendarTypes
  <1>2. Spring \in SUBSET Days /\ Fall \in SUBSET Days
    BY ClockAssumption
  <1>3. \A S \in SUBSET Days : d \notin S => Before(S, d + 1) = Before(S, d)
    <2> SUFFICES ASSUME NEW S \in SUBSET Days, d \notin S
                 PROVE  Before(S, d + 1) = Before(S, d)
      OBVIOUS
    <2>1. d + 1 \in Int /\ d <= d + 1 /\ (d .. (d + 1) - 1) \cap S = {}
      BY <1>1
    <2> QED  BY <1>1, <2>1, BeforeSame
  <1>4. \A S \in SUBSET Days : d \in S => Before(S, d + 1) = Before(S, d) + 1
    BY BeforeOne
  <1>5. /\ Midnight[d] = d * Hours - Before(Spring, d) + Before(Fall, d)
        /\ Midnight[d] \in Int
        /\ Before(Spring, d) \in Nat /\ Before(Fall, d) \in Nat
    BY <1>1, MidnightValue
  <1>6. /\ Midnight[d + 1] = (d + 1) * Hours - Before(Spring, d + 1) + Before(Fall, d + 1)
        /\ Midnight[d + 1] \in Int
    BY <1>1, MidnightValue
  <1>7. (d + 1) * Hours = d * Hours + Hours /\ d * Hours \in Int /\ Hours \in Nat
    BY <1>1, CalendarTypes
  <1> DEFINE x == d * Hours
             y == (d + 1) * Hours
  <1>8. /\ x \in Int /\ y = x + Hours /\ Hours \in Nat /\ Hours >= 3
        /\ Midnight[d] = x - Before(Spring, d) + Before(Fall, d)
        /\ Midnight[d + 1] = y - Before(Spring, d + 1) + Before(Fall, d + 1)
    BY <1>5, <1>6, <1>7, CalendarTypes
  <1> HIDE DEF x, y
  <1>9. CASE d \in Spring
    <2>1. d \notin Fall
      BY <1>9, ClockAssumption
    <2>2. /\ Before(Spring, d + 1) = Before(Spring, d) + 1
          /\ Before(Fall, d + 1) = Before(Fall, d)
      BY <1>2, <1>3, <1>4, <1>9, <2>1
    <2>3. Long(d) = Hours - 1
      BY <1>9 DEF Long
    <2>4. Midnight[d + 1] = Midnight[d] + (Hours - 1)
      BY <1>5, <1>8, <2>2
    <2> QED  BY <1>5, <1>6, <1>8, <2>3, <2>4
  <1>10. CASE d \in Fall
    <2>1. d \notin Spring
      BY <1>10, ClockAssumption
    <2>2. /\ Before(Spring, d + 1) = Before(Spring, d)
          /\ Before(Fall, d + 1) = Before(Fall, d) + 1
      BY <1>2, <1>3, <1>4, <1>10, <2>1
    <2>3. Long(d) = Hours + 1
      BY <1>10, <2>1 DEF Long
    <2>4. Midnight[d + 1] = Midnight[d] + (Hours + 1)
      BY <1>5, <1>8, <2>2
    <2> QED  BY <1>5, <1>6, <1>8, <2>3, <2>4
  <1>11. CASE d \notin Spring /\ d \notin Fall
    <2>1. /\ Before(Spring, d + 1) = Before(Spring, d)
          /\ Before(Fall, d + 1) = Before(Fall, d)
      BY <1>2, <1>3, <1>11
    <2>2. Long(d) = Hours
      BY <1>11 DEF Long
    <2> QED  BY <1>5, <1>6, <1>8, <2>1, <2>2
  <1> QED  BY <1>9, <1>10, <1>11

\* A day later begins later.
LEMMA MidnightGrows ==
    ASSUME NEW a \in 0 .. LastDay + 1, NEW b \in 0 .. LastDay + 1, a < b
    PROVE  Midnight[a] < Midnight[b]
  <1>1. a \in Int /\ b \in Int /\ a <= b
    BY CalendarTypes
  <1>2. Spring \in SUBSET Days /\ Fall \in SUBSET Days
    BY ClockAssumption
  <1>3. Before(Spring, b) <= Before(Spring, a) + (b - a)
    BY <1>1, <1>2, BeforeGrows
  <1>4. Before(Fall, a) <= Before(Fall, b)
    BY <1>1, <1>2, BeforeGrows
  <1>5. /\ Midnight[a] = a * Hours - Before(Spring, a) + Before(Fall, a)
        /\ Midnight[b] = b * Hours - Before(Spring, b) + Before(Fall, b)
        /\ Before(Spring, a) \in Nat /\ Before(Fall, a) \in Nat
        /\ Before(Spring, b) \in Nat /\ Before(Fall, b) \in Nat
    BY MidnightValue
  <1>6. b - a \in Nat /\ Hours - 2 \in Nat
    BY <1>1, CalendarTypes
  <1>7. (b - a) * (Hours - 2) \in Nat
    BY <1>6, Product
  <1>8. (b - a) * (Hours - 2) = b * Hours - a * Hours - 2 * (b - a)
    BY <1>1, CalendarTypes
  <1>9. a * Hours \in Int /\ b * Hours \in Int
    BY <1>1, CalendarTypes
  <1> DEFINE x == a * Hours
             y == b * Hours
  <1>10. /\ x \in Int /\ y \in Int /\ y - x - 2 * (b - a) >= 0
         /\ Midnight[a] = x - Before(Spring, a) + Before(Fall, a)
         /\ Midnight[b] = y - Before(Spring, b) + Before(Fall, b)
    BY <1>5, <1>7, <1>8, <1>9
  <1> HIDE DEF x, y
  <1> QED  BY <1>1, <1>3, <1>4, <1>5, <1>10

\* Later days begin later.
LEMMA MidnightOrder ==
    ASSUME NEW a \in 0 .. LastDay + 1, NEW b \in 0 .. LastDay + 1, a <= b
    PROVE  Midnight[a] <= Midnight[b] /\ Midnight[a] \in Int /\ Midnight[b] \in Int
  <1>1. Midnight[a] \in Int /\ Midnight[b] \in Int
    BY MidnightValue
  <1>2. CASE a = b
    BY <1>1, <1>2
  <1>3. CASE a < b
    BY <1>1, <1>3, MidnightGrows
  <1> QED  BY <1>1, <1>2, <1>3, CalendarTypes

\* A moment between two midnights lies on the day between them.
LEMMA DayIs ==
    ASSUME NEW d \in Days, NEW t \in Int, Midnight[d] <= t, t < Midnight[d + 1]
    PROVE  t \in Moments /\ Day[t] = d
  <1>1. d \in Int /\ d \in 0 .. LastDay + 1 /\ d + 1 \in 0 .. LastDay + 1
    BY CalendarTypes
  <1>2. t \in Moments
    <2>1. 0 \in 0 .. LastDay + 1 /\ LastDay + 1 \in 0 .. LastDay + 1 /\ LastDay + 1 \in Int
          /\ 0 <= d /\ d + 1 <= LastDay + 1
      BY CalendarTypes
    <2>2. Midnight[0] <= Midnight[d] /\ Midnight[0] \in Int /\ Midnight[d] \in Int
      BY <1>1, <2>1, MidnightOrder
    <2>3. /\ Midnight[d + 1] <= Midnight[LastDay + 1]
          /\ Midnight[d + 1] \in Int /\ Midnight[LastDay + 1] \in Int
      BY <1>1, <2>1, MidnightOrder
    <2>4. 0 <= t /\ t <= Midnight[LastDay + 1] - 1
      BY <2>2, <2>3, FirstMidnight
    <2> QED  BY <2>3, <2>4 DEF Moments
  <1>3. \A e \in Days : Midnight[e] <= t /\ t < Midnight[e + 1] => e = d
    <2> SUFFICES ASSUME NEW e \in Days, Midnight[e] <= t, t < Midnight[e + 1]
                 PROVE  e = d
      OBVIOUS
    <2>1. e \in Int /\ e \in 0 .. LastDay + 1 /\ e + 1 \in 0 .. LastDay + 1
      BY CalendarTypes
    <2>2. CASE e < d
      <3>1. Midnight[e + 1] <= Midnight[d] /\ Midnight[e + 1] \in Int /\ Midnight[d] \in Int
        BY <1>1, <2>1, <2>2, MidnightOrder
      <3> QED  BY <3>1
    <2>3. CASE d < e
      <3>1. Midnight[d + 1] <= Midnight[e] /\ Midnight[d + 1] \in Int /\ Midnight[e] \in Int
        BY <1>1, <2>1, <2>3, MidnightOrder
      <3> QED  BY <3>1
    <2> QED  BY <1>1, <2>1, <2>2, <2>3
  <1>4. (CHOOSE e \in Days : Midnight[e] <= t /\ t < Midnight[e + 1]) = d
    BY <1>3, Zenon
  <1> QED  BY <1>2, <1>4, Zenon DEF Day

\* Every moment lies on a day, between its midnight and the next.
LEMMA DayOf ==
    ASSUME NEW t \in Moments
    PROVE  /\ Day[t] \in Days /\ t \in Nat
           /\ Midnight[Day[t]] <= t /\ t < Midnight[Day[t] + 1]
           /\ Midnight[Day[t]] \in Int /\ Midnight[Day[t] + 1] \in Int
  <1> DEFINE S == {d \in 0 .. LastDay + 1 : t < Midnight[d]}
  <1>1. Midnight[LastDay + 1] \in Int /\ LastDay + 1 \in 0 .. LastDay + 1
    BY MidnightValue, CalendarTypes
  <1>2. t \in Nat /\ t < Midnight[LastDay + 1]
    BY <1>1 DEF Moments
  <1>3. S \in SUBSET Nat /\ S /= {}
    BY <1>1, <1>2, CalendarTypes
  <1>4. PICK n \in S : \A k \in S : n <= k
    BY <1>3, LeastMember, Zenon
  <1>5. n \in 0 .. LastDay + 1 /\ t < Midnight[n] /\ n \in Int
    BY <1>4, CalendarTypes
  <1>6. n /= 0
    BY <1>2, <1>5, FirstMidnight
  <1> DEFINE d == n - 1
  <1>7. d \in Days /\ d \in 0 .. LastDay + 1 /\ ~(n <= d) /\ d + 1 = n
    BY <1>5, <1>6, CalendarTypes
  <1>8. d \notin S
    BY <1>4, <1>7, Zenon
  <1>9. Midnight[d] \in Int /\ Midnight[n] \in Int
    BY <1>5, <1>7, MidnightValue
  <1>10. Midnight[d] <= t
    BY <1>2, <1>7, <1>8, <1>9
  <1>11. t \in Int
    BY <1>2
  <1>12. Day[t] = d
    BY <1>5, <1>7, <1>10, <1>11, DayIs
  <1> QED  BY <1>2, <1>5, <1>7, <1>9, <1>10, <1>12

\* Later moments lie on later days.
LEMMA DayOrder ==
    ASSUME NEW t \in Moments, NEW u \in Moments, t <= u
    PROVE  Day[t] <= Day[u]
  <1>1. /\ Day[t] \in Days /\ Midnight[Day[t]] <= t /\ Midnight[Day[t]] \in Int
        /\ Day[u] \in Days /\ u < Midnight[Day[u] + 1] /\ Midnight[Day[u] + 1] \in Int
        /\ t \in Int /\ u \in Int
    BY DayOf
  <1>2. Day[t] \in Int /\ Day[u] \in Int
        /\ Day[t] \in 0 .. LastDay + 1 /\ Day[u] + 1 \in 0 .. LastDay + 1
    BY <1>1, DayType
  <1>3. CASE Day[u] < Day[t]
    <2>1. Midnight[Day[u] + 1] <= Midnight[Day[t]]
      BY <1>2, <1>3, MidnightOrder
    <2> QED  BY <1>1, <2>1
  <1> QED  BY <1>2, <1>3

\* The months, and the days on which they begin.
LEMMA MonthsType ==
    /\ \A m \in Months : /\ m \in Nat /\ m >= 1 /\ m + 1 \in DOMAIN FirstDay
                         /\ m \in DOMAIN FirstDay
                         /\ FirstDay[m] \in Nat /\ FirstDay[m + 1] \in Nat
                         /\ FirstDay[m] < FirstDay[m + 1]
                         /\ FirstDay[m + 1] <= LastDay + 1
    /\ FirstDay[1] = 0 /\ Len(FirstDay) \in Nat /\ Len(FirstDay) > 1
    /\ FirstDay[Len(FirstDay)] = LastDay + 1
    /\ DOMAIN FirstDay = 1 .. Len(FirstDay)
  <1>1. /\ FirstDay \in Seq(Nat) /\ Len(FirstDay) > 1 /\ FirstDay[1] = 0
        /\ \A m, n \in DOMAIN FirstDay : m < n => FirstDay[m] < FirstDay[n]
    BY CalendarAssumption
  <1>2. /\ Len(FirstDay) \in Nat /\ DOMAIN FirstDay = 1 .. Len(FirstDay)
        /\ \A m \in DOMAIN FirstDay : FirstDay[m] \in Nat
    BY <1>1
  <1>3. FirstDay[Len(FirstDay)] = LastDay + 1
    BY <1>1, <1>2 DEF LastDay
  <1>4. ASSUME NEW m \in Months
        PROVE  /\ m \in Nat /\ m >= 1 /\ m + 1 \in DOMAIN FirstDay
               /\ m \in DOMAIN FirstDay
               /\ FirstDay[m] \in Nat /\ FirstDay[m + 1] \in Nat
               /\ FirstDay[m] < FirstDay[m + 1]
               /\ FirstDay[m + 1] <= LastDay + 1
    <2>1. m \in Nat /\ m >= 1 /\ m + 1 \in 1 .. Len(FirstDay) /\ m \in 1 .. Len(FirstDay)
      BY <1>2 DEF Months
    <2>2. FirstDay[m] \in Nat /\ FirstDay[m + 1] \in Nat
      BY <1>2, <2>1
    <2>3. FirstDay[m] < FirstDay[m + 1]
      <3>1. m < m + 1
        BY <2>1
      <3> QED  BY <1>1, <1>2, <2>1, <3>1
    <2>4. FirstDay[m + 1] <= LastDay + 1
      <3>1. CASE m + 1 = Len(FirstDay)
        BY <3>1, <1>3, <2>2
      <3>2. CASE m + 1 < Len(FirstDay)
        <4>1. Len(FirstDay) \in DOMAIN FirstDay /\ m + 1 \in DOMAIN FirstDay
          BY <1>1, <1>2, <2>1
        <4>2. FirstDay[m + 1] < FirstDay[Len(FirstDay)]
          BY <1>1, <3>2, <4>1
        <4>3. FirstDay[Len(FirstDay)] \in Nat
          BY <1>2, <4>1
        <4> QED  BY <1>3, <2>2, <4>2, <4>3, CalendarTypes
      <3>3. m + 1 <= Len(FirstDay) /\ Len(FirstDay) \in Nat
        BY <1>2, <2>1
      <3> QED  BY <2>1, <3>1, <3>2, <3>3
    <2> QED  BY <1>2, <2>1, <2>2, <2>3, <2>4
  <1> QED  BY <1>1, <1>2, <1>3, <1>4

\* Later months begin later.
LEMMA FirstDayOrder ==
    ASSUME NEW m \in DOMAIN FirstDay, NEW n \in DOMAIN FirstDay, m <= n
    PROVE  FirstDay[m] <= FirstDay[n] /\ FirstDay[m] \in Nat /\ FirstDay[n] \in Nat
  <1>1. FirstDay[m] \in Nat /\ FirstDay[n] \in Nat /\ m \in Nat /\ n \in Nat
    BY CalendarAssumption
  <1>2. CASE m = n
    BY <1>1, <1>2
  <1>3. CASE m < n
    <2>1. FirstDay[m] < FirstDay[n]
      BY <1>3, CalendarAssumption
    <2> QED  BY <1>1, <2>1
  <1> QED  BY <1>1, <1>2, <1>3

\* A day between the first days of two months lies in the first of them.
LEMMA MonthIs ==
    ASSUME NEW m \in Months, NEW d \in Int, FirstDay[m] <= d, d < FirstDay[m + 1]
    PROVE  d \in Days /\ Month[d] = m
  <1>1. /\ m \in Nat /\ m \in DOMAIN FirstDay /\ m + 1 \in DOMAIN FirstDay
        /\ FirstDay[m] \in Nat /\ FirstDay[m + 1] \in Nat /\ FirstDay[m + 1] <= LastDay + 1
    BY MonthsType
  <1>2. d \in Days
    BY <1>1, CalendarTypes
  <1>3. \A n \in Months : FirstDay[n] <= d /\ d < FirstDay[n + 1] => n = m
    <2> SUFFICES ASSUME NEW n \in Months, FirstDay[n] <= d, d < FirstDay[n + 1]
                 PROVE  n = m
      OBVIOUS
    <2>1. /\ n \in Nat /\ n \in DOMAIN FirstDay /\ n + 1 \in DOMAIN FirstDay
          /\ FirstDay[n] \in Nat /\ FirstDay[n + 1] \in Nat
      BY MonthsType
    <2>2. CASE n < m
      <3>1. FirstDay[n + 1] <= FirstDay[m]
        BY <1>1, <2>1, <2>2, FirstDayOrder
      <3> QED  BY <1>1, <2>1, <3>1
    <2>3. CASE m < n
      <3>1. FirstDay[m + 1] <= FirstDay[n]
        BY <1>1, <2>1, <2>3, FirstDayOrder
      <3> QED  BY <1>1, <2>1, <3>1
    <2> QED  BY <1>1, <2>1, <2>2, <2>3
  <1>4. (CHOOSE n \in Months : FirstDay[n] <= d /\ d < FirstDay[n + 1]) = m
    BY <1>3, Zenon
  <1> QED  BY <1>2, <1>4, Zenon DEF Month

\* Every day lies in a month.
LEMMA MonthOf ==
    ASSUME NEW d \in Days
    PROVE  /\ Month[d] \in Months /\ d \in Nat
           /\ FirstDay[Month[d]] <= d /\ d < FirstDay[Month[d] + 1]
           /\ FirstDay[Month[d]] \in Nat /\ FirstDay[Month[d] + 1] \in Nat
           /\ DayOfMonth(d) = d - FirstDay[Month[d]] + 1
  <1> DEFINE S == {m \in DOMAIN FirstDay : d < FirstDay[m]}
  <1>1. d \in Nat /\ d < FirstDay[Len(FirstDay)] /\ Len(FirstDay) \in DOMAIN FirstDay
    BY CalendarTypes, MonthsType
  <1>2. S \in SUBSET Nat /\ S /= {}
    BY <1>1, MonthsType
  <1>3. PICK n \in S : \A k \in S : n <= k
    BY <1>2, LeastMember, Zenon
  <1>4. n \in 1 .. Len(FirstDay) /\ d < FirstDay[n] /\ n \in Int
    BY <1>3, MonthsType
  <1>5. n /= 1
    BY <1>1, <1>4, MonthsType
  <1> DEFINE m == n - 1
  <1>6. m \in Months /\ m \in DOMAIN FirstDay /\ ~(n <= m) /\ m + 1 = n
    BY <1>4, <1>5, MonthsType DEF Months
  <1>7. m \notin S
    BY <1>3, <1>6, Zenon
  <1>8. FirstDay[m] \in Nat /\ FirstDay[m + 1] \in Nat
    BY <1>6, MonthsType
  <1>9. FirstDay[m] <= d
    BY <1>1, <1>6, <1>7, <1>8
  <1>10. Month[d] = m
    <2>1. d \in Int /\ d < FirstDay[m + 1]
      BY <1>1, <1>4, <1>6
    <2> QED  BY <1>6, <1>9, <2>1, MonthIs
  <1> QED  BY <1>1, <1>4, <1>6, <1>8, <1>9, <1>10 DEF DayOfMonth

\* Later days lie in later months.
LEMMA MonthOrder ==
    ASSUME NEW d \in Days, NEW e \in Days, d <= e
    PROVE  Month[d] <= Month[e]
  <1>1. /\ Month[d] \in Months /\ FirstDay[Month[d]] <= d /\ FirstDay[Month[d]] \in Nat
        /\ Month[e] \in Months /\ e < FirstDay[Month[e] + 1]
        /\ FirstDay[Month[e] + 1] \in Nat
        /\ d \in Int /\ e \in Int
    BY MonthOf
  <1>2. /\ Month[d] \in Nat /\ Month[e] \in Nat
        /\ Month[d] \in DOMAIN FirstDay /\ Month[e] + 1 \in DOMAIN FirstDay
    BY <1>1, MonthsType
  <1>3. CASE Month[e] < Month[d]
    <2>1. FirstDay[Month[e] + 1] <= FirstDay[Month[d]]
      BY <1>2, <1>3, FirstDayOrder
    <2> QED  BY <1>1, <2>1
  <1> QED  BY <1>2, <1>3

-----------------------------------------------------------------------------
(* Hours.                                                                  *)

\* What the clock shows i hours after the midnight that began day d.
Shows(d, i) ==
    CASE d \in Spring /\ i >= ChangeHour[d] -> i + 1
      [] d \in Fall /\ i > ChangeHour[d] -> i - 1
      [] OTHER -> i

\* The hour at which the clocks change is one of the day's.
LEMMA ChangeHourType ==
    ASSUME NEW d \in Spring \cup Fall
    PROVE  ChangeHour[d] \in 0 .. Hours - 1 /\ ChangeHour[d] \in Nat
  BY ClockAssumption, CalendarTypes

\* What the clock shows so many hours after midnight.
LEMMA HourValue ==
    ASSUME NEW d \in Days, NEW i \in Int, 0 <= i, i < Long(d)
    PROVE  /\ Midnight[d] + i \in Moments /\ Day[Midnight[d] + i] = d
           /\ Hour[Midnight[d] + i] = Shows(d, i)
  <1>1. /\ Midnight[d + 1] = Midnight[d] + Long(d)
        /\ Midnight[d] \in Int /\ Long(d) \in Nat
    BY MidnightStep
  <1> DEFINE t == Midnight[d] + i
  <1>2. t \in Int /\ Midnight[d] <= t /\ t < Midnight[d + 1] /\ t - Midnight[d] = i
    BY <1>1
  <1> HIDE DEF t
  <1>3. t \in Moments /\ Day[t] = d
    BY <1>2, DayIs
  <1>4. Hour[t] = Shows(d, i)
    BY <1>2, <1>3, Zenon DEF Hour, Shows
  <1> QED  BY <1>3, <1>4 DEF t

\* What the clock shows at a moment.
LEMMA HourOf ==
    ASSUME NEW t \in Moments
    PROVE  /\ t - Midnight[Day[t]] \in Int
           /\ 0 <= t - Midnight[Day[t]] /\ t - Midnight[Day[t]] < Long(Day[t])
           /\ Hour[t] = Shows(Day[t], t - Midnight[Day[t]])
           /\ Hour[t] \in 0 .. Hours - 1
  <1> DEFINE d == Day[t]
             i == t - Midnight[d]
  <1>1. /\ d \in Days /\ t \in Int /\ Midnight[d] <= t /\ t < Midnight[d + 1]
        /\ Midnight[d] \in Int
    BY DayOf
  <1>2. Midnight[d + 1] = Midnight[d] + Long(d) /\ Long(d) \in Nat
    BY <1>1, MidnightStep
  <1>3. i \in Int /\ 0 <= i /\ i < Long(d) /\ Midnight[d] + i = t
    BY <1>1, <1>2
  <1> HIDE DEF i
  <1>4. Hour[t] = Shows(d, i)
    BY <1>1, <1>3, HourValue
  <1>5. Shows(d, i) \in 0 .. Hours - 1
    <2>1. Hours \in Nat /\ Hours >= 3
      BY CalendarTypes
    <2>2. CASE d \in Spring
      <3>1. Long(d) = Hours - 1 /\ ChangeHour[d] \in Nat
        BY <2>2, ChangeHourType DEF Long
      <3>2. d \notin Fall
        BY <2>2, ClockAssumption
      <3> QED  BY <1>3, <2>1, <2>2, <3>1, <3>2 DEF Shows
    <2>3. CASE d \notin Spring /\ d \in Fall
      <3>1. /\ Long(d) = Hours + 1 /\ ChangeHour[d] \in Nat
            /\ ChangeHour[d] \in 0 .. Hours - 1
        BY <2>3, ChangeHourType DEF Long
      <3> QED  BY <1>3, <2>1, <2>3, <3>1 DEF Shows
    <2>4. CASE d \notin Spring /\ d \notin Fall
      <3>1. Long(d) = Hours
        BY <2>4 DEF Long
      <3> QED  BY <1>3, <2>1, <2>4, <3>1 DEF Shows
    <2> QED  BY <2>2, <2>3, <2>4
  <1> QED  BY <1>3, <1>4, <1>5 DEF i

\* On a day without a change the clock counts the hours from midnight.
LEMMA HourSteady ==
    ASSUME NEW t \in Moments, Day[t] \notin Spring \cup Fall
    PROVE  t = Midnight[Day[t]] + Hour[t]
  <1>1. Hour[t] = t - Midnight[Day[t]]
    BY HourOf DEF Shows
  <1> QED  BY <1>1, DayOf

\* A moment is one of those that its day and hour name.
LEMMA OnDayItself ==
    ASSUME NEW t \in Moments
    PROVE  t \in OnDay(Day[t], Hour[t])
  <1>1. /\ t \in Int /\ Midnight[Day[t]] <= t /\ t < Midnight[Day[t] + 1]
        /\ Midnight[Day[t]] \in Int /\ Midnight[Day[t] + 1] \in Int
    BY DayOf
  <1>2. t \in Midnight[Day[t]] .. Midnight[Day[t] + 1] - 1
    BY <1>1
  <1> QED  BY <1>2, Zenon DEF OnDay

\* A day shows every hour that the clocks do not skip.
LEMMA HourShown ==
    ASSUME NEW d \in Days, NEW h \in 0 .. Hours - 1, ~Skips(d, h)
    PROVE  \E t \in Midnight[d] .. Midnight[d + 1] - 1 : Hour[t] = h
  <1>1. /\ Midnight[d + 1] = Midnight[d] + Long(d)
        /\ Midnight[d] \in Int /\ Midnight[d + 1] \in Int
        /\ Long(d) \in Nat
    BY MidnightStep
  <1>2. h \in Nat /\ Hours \in Nat /\ Hours >= 3 /\ h <= Hours - 1
    BY CalendarTypes
  <1>3. \E i \in 0 .. Long(d) - 1 : Shows(d, i) = h
    <2>1. CASE d \in Spring
      <3>1. Long(d) = Hours - 1 /\ ChangeHour[d] \in Nat /\ h /= ChangeHour[d]
        BY <2>1, ChangeHourType DEF Long, Skips
      <3>2. CASE h < ChangeHour[d]
        <4>1. h \in 0 .. Long(d) - 1
          BY <1>2, <2>1, <3>1, <3>2, ChangeHourType
        <4>2. Shows(d, h) = h
          BY <1>2, <2>1, <3>1, <3>2, ClockAssumption DEF Shows
        <4> QED  BY <4>1, <4>2
      <3>3. CASE h > ChangeHour[d]
        <4>1. h - 1 \in 0 .. Long(d) - 1 /\ h - 1 >= ChangeHour[d]
          BY <1>2, <3>1, <3>3
        <4>2. Shows(d, h - 1) = (h - 1) + 1
          BY <2>1, <4>1, ClockAssumption DEF Shows
        <4> QED  BY <1>2, <4>1, <4>2
      <3> QED  BY <1>2, <3>1, <3>2, <3>3
    <2>2. CASE d \notin Spring /\ d \in Fall
      <3>1. Long(d) = Hours + 1 /\ ChangeHour[d] \in Nat
        BY <2>2, ChangeHourType DEF Long
      <3>2. CASE h <= ChangeHour[d]
        <4>1. h \in 0 .. Long(d) - 1 /\ Shows(d, h) = h
          BY <1>2, <2>2, <3>1, <3>2 DEF Shows
        <4> QED  BY <4>1
      <3>3. CASE h > ChangeHour[d]
        <4>1. h + 1 \in 0 .. Long(d) - 1 /\ h + 1 > ChangeHour[d]
          BY <1>2, <3>1, <3>3
        <4>2. Shows(d, h + 1) = (h + 1) - 1
          BY <2>2, <4>1 DEF Shows
        <4> QED  BY <1>2, <4>1, <4>2
      <3> QED  BY <1>2, <3>1, <3>2, <3>3
    <2>3. CASE d \notin Spring /\ d \notin Fall
      <3>1. Long(d) = Hours
        BY <2>3 DEF Long
      <3>2. h \in 0 .. Long(d) - 1 /\ Shows(d, h) = h
        BY <2>3, <3>1, <1>2 DEF Shows
      <3> QED  BY <3>2
    <2> QED  BY <2>1, <2>2, <2>3
  <1>4. PICK i \in 0 .. Long(d) - 1 : Shows(d, i) = h
    BY <1>3
  <1>5. i \in Int /\ 0 <= i /\ i < Long(d)
    BY <1>1
  <1>6. Hour[Midnight[d] + i] = h
    BY <1>4, <1>5, HourValue
  <1>7. Midnight[d] + i \in Midnight[d] .. Midnight[d + 1] - 1
    BY <1>1, <1>5
  <1> QED  BY <1>6, <1>7

\* It then names one or two moments of that day.
LEMMA OnDayWithin ==
    ASSUME NEW d \in Days, NEW h \in 0 .. Hours - 1, ~Skips(d, h)
    PROVE  /\ OnDay(d, h) /= {}
           /\ \A c \in OnDay(d, h) :
                  /\ c \in Moments /\ Day[c] = d /\ Hour[c] = h /\ c \in Int
                  /\ Midnight[d] <= c /\ c < Midnight[d + 1]
  <1>1. Midnight[d] \in Int /\ Midnight[d + 1] \in Int
    BY MidnightStep
  <1> DEFINE M == {t \in Midnight[d] .. Midnight[d + 1] - 1 : Hour[t] = h}
  <1>2. M /= {}
    BY HourShown, Zenon
  <1>3. OnDay(d, h) = M
    BY <1>2, Zenon DEF OnDay
  <1>4. ASSUME NEW c \in M
        PROVE  /\ c \in Moments /\ Day[c] = d /\ Hour[c] = h /\ c \in Int
               /\ Midnight[d] <= c /\ c < Midnight[d + 1]
    <2>1. c \in Int /\ Midnight[d] <= c /\ c < Midnight[d + 1] /\ Hour[c] = h
      BY <1>1
    <2>2. c \in Moments /\ Day[c] = d
      BY <2>1, DayIs
    <2> QED  BY <2>1, <2>2
  <1> HIDE DEF M
  <1> QED  BY <1>2, <1>3, <1>4

\* Also where the clocks skip the hour, it names a moment near that day.
LEMMA OnDayNear ==
    ASSUME NEW d \in Days, NEW h \in 0 .. Hours - 1
    PROVE  /\ OnDay(d, h) /= {}
           /\ \A c \in OnDay(d, h) :
                  /\ c \in Int /\ 0 <= c
                  /\ Midnight[d] - 1 <= c /\ c <= Midnight[d + 1]
                  /\ c <= Midnight[d] + Hours
  <1>1. /\ Midnight[d + 1] = Midnight[d] + Long(d)
        /\ Midnight[d] \in Int /\ Midnight[d + 1] \in Int
    BY MidnightStep
  <1>2. h \in Nat /\ Hours \in Nat /\ Hours >= 3 /\ h <= Hours - 1 /\ d \in Nat
    BY CalendarTypes
  <1>3. Long(d) \in Nat /\ Long(d) >= Hours - 1 /\ Long(d) <= Hours + 1
    BY <1>2 DEF Long
  <1>4. 0 <= Midnight[d] /\ (d /= 0 => 1 <= Midnight[d])
    <2>1. 0 \in 0 .. LastDay + 1 /\ d \in 0 .. LastDay + 1
      BY CalendarTypes
    <2>2. d /= 0 => 0 < d
      BY <1>2
    <2>3. d /= 0 => Midnight[0] < Midnight[d]
      BY <2>1, <2>2, MidnightGrows
    <2> QED  BY <1>1, <2>3, FirstMidnight
  <1>5. CASE ~Skips(d, h)
    <2>1. /\ OnDay(d, h) /= {}
          /\ \A c \in OnDay(d, h) :
                 c \in Int /\ Midnight[d] <= c /\ c < Midnight[d + 1]
      BY <1>5, OnDayWithin
    <2> QED  BY <1>1, <1>2, <1>3, <1>4, <2>1
  <1>6. CASE Skips(d, h)
    <2>1. d /= 0
      BY <1>6, ClockAssumption DEF Skips
    <2> DEFINE M == {t \in Midnight[d] .. Midnight[d + 1] - 1 : Hour[t] = h}
    <2>2. CASE M /= {}
      <3>1. OnDay(d, h) = M
        BY <2>2, Zenon DEF OnDay
      <3>2. \A c \in M : c \in Int /\ Midnight[d] <= c /\ c < Midnight[d + 1]
        BY <1>1
      <3> HIDE DEF M
      <3> QED  BY <1>1, <1>2, <1>3, <1>4, <2>2, <3>1, <3>2
    <2>3. CASE M = {}
      <3>1. OnDay(d, h) = {Midnight[d] + h - 1, Midnight[d] + h}
        BY <2>3, Zenon DEF OnDay
      <3> HIDE DEF M
      <3> QED  BY <1>1, <1>2, <1>3, <1>4, <2>1, <3>1
    <2> QED  BY <2>2, <2>3
  <1> QED  BY <1>5, <1>6

\* That is the day itself, the one before or the one after.
LEMMA OnNearDay ==
    ASSUME NEW d \in Days, d + 1 \in Days, NEW h \in 0 .. Hours - 1,
           NEW c \in OnDay(d, h)
    PROVE  /\ c \in Moments /\ Day[c] \in Days /\ Day[c] \in Nat
           /\ d - 1 <= Day[c] /\ Day[c] <= d + 1
  <1>1. /\ c \in Int /\ 0 <= c
        /\ Midnight[d] - 1 <= c /\ c <= Midnight[d + 1]
    BY OnDayNear
  <1>2. /\ d \in Nat /\ LastDay \in Nat
        /\ d \in 0 .. LastDay + 1 /\ (d + 1) + 1 \in 0 .. LastDay + 1
        /\ d + 1 \in 0 .. LastDay + 1 /\ LastDay + 1 \in 0 .. LastDay + 1
    BY CalendarTypes
  <1>3. /\ Midnight[(d + 1) + 1] = Midnight[d + 1] + Long(d + 1)
        /\ Long(d + 1) >= 2 /\ Long(d + 1) \in Nat
        /\ Midnight[d + 1] \in Int /\ Midnight[d] \in Int
    BY MidnightStep
  <1>4. Midnight[(d + 1) + 1] <= Midnight[LastDay + 1] /\ Midnight[LastDay + 1] \in Int
    <2>1. (d + 1) + 1 <= LastDay + 1
      BY <1>2
    <2> QED  BY <1>2, <2>1, MidnightOrder
  <1>5. c \in Moments
    BY <1>1, <1>3, <1>4 DEF Moments
  <1>6. /\ Day[c] \in Days /\ Day[c] \in Nat
        /\ Midnight[Day[c]] <= c /\ c < Midnight[Day[c] + 1]
        /\ Midnight[Day[c]] \in Int /\ Midnight[Day[c] + 1] \in Int
        /\ Day[c] \in 0 .. LastDay + 1 /\ Day[c] + 1 \in 0 .. LastDay + 1
    <2>1. /\ Day[c] \in Days
          /\ Midnight[Day[c]] <= c /\ c < Midnight[Day[c] + 1]
          /\ Midnight[Day[c]] \in Int /\ Midnight[Day[c] + 1] \in Int
      BY <1>5, DayOf
    <2>2. /\ Day[c] \in Nat
          /\ Day[c] \in 0 .. LastDay + 1 /\ Day[c] + 1 \in 0 .. LastDay + 1
      BY <2>1, DayType
    <2> QED  BY <2>1, <2>2
  <1>7. Day[c] <= d + 1
    <2> SUFFICES ASSUME (d + 1) + 1 <= Day[c] PROVE FALSE
      BY <1>2, <1>6
    <2>1. Midnight[(d + 1) + 1] <= Midnight[Day[c]]
      BY <1>2, <1>6, MidnightOrder
    <2> QED  BY <1>1, <1>3, <1>6, <2>1
  <1>8. d - 1 <= Day[c]
    <2> SUFFICES ASSUME Day[c] + 1 < d PROVE FALSE
      BY <1>2, <1>6
    <2>1. Midnight[Day[c] + 1] < Midnight[d]
      BY <1>2, <1>6, MidnightGrows
    <2> QED  BY <1>1, <1>3, <1>6, <2>1
  <1> QED  BY <1>5, <1>6, <1>7, <1>8

\* On a day on which the clocks do not change it is just one moment.
LEMMA OnSteadyDay ==
    ASSUME NEW d \in Days, d \notin Spring \cup Fall, NEW h \in 0 .. Hours - 1
    PROVE  /\ OnDay(d, h) = {Midnight[d] + h}
           /\ Midnight[d] + h \in Moments /\ Day[Midnight[d] + h] = d
           /\ Hour[Midnight[d] + h] = h
           /\ Midnight[d + 1] = Midnight[d] + Hours
  <1>1. Long(d) = Hours
    BY DEF Long
  <1>2. h \in Int /\ 0 <= h /\ h < Long(d) /\ Shows(d, h) = h
    BY <1>1, CalendarTypes DEF Shows
  <1>3. /\ Midnight[d] + h \in Moments /\ Day[Midnight[d] + h] = d
        /\ Hour[Midnight[d] + h] = h
    BY <1>2, HourValue
  <1>4. Midnight[d + 1] = Midnight[d] + Hours /\ Midnight[d] \in Int
    BY <1>1, MidnightStep
  <1>5. /\ Midnight[d] + h \in Midnight[d] .. Midnight[d + 1] - 1
        /\ Midnight[d + 1] \in Int
    <2>1. h < Hours /\ Hours \in Nat
      BY CalendarTypes
    <2>2. Midnight[d] <= Midnight[d] + h /\ Midnight[d] + h <= Midnight[d + 1] - 1
      BY <1>2, <1>4, <2>1
    <2> QED  BY <1>2, <1>4, <2>1, <2>2
  <1>6. \A t \in Midnight[d] .. Midnight[d + 1] - 1 : Hour[t] = h => t = Midnight[d] + h
    <2> SUFFICES ASSUME NEW t \in Midnight[d] .. Midnight[d + 1] - 1, Hour[t] = h
                 PROVE  t = Midnight[d] + h
      OBVIOUS
    <2>1. t \in Int /\ Midnight[d] <= t /\ t < Midnight[d + 1]
      BY <1>4, <1>5
    <2>2. t \in Moments /\ Day[t] = d
      BY <2>1, DayIs
    <2> QED  BY <2>2, HourSteady
  <1>7. OnDay(d, h) = {Midnight[d] + h}
    BY <1>3, <1>5, <1>6, Zenon DEF OnDay
  <1> QED  BY <1>3, <1>4, <1>7

-----------------------------------------------------------------------------
(* The windows.                                                            *)

\* What is planned until the horizon lies in the calendar.
LEMMA Room ==
    ASSUME NEW t \in 0 .. Horizon
    PROVE  /\ t \in Moments /\ t \in Nat
           /\ Day[t] \in Days /\ Day[t] \in Nat
           /\ Day[t] + 2 * (Longest + DaysPerWeek + 1) <= LastDay
           /\ Day[t] + Longest <= LastDay /\ Day[t] + DaysPerWeek <= LastDay
  <1>1. Horizon \in Moments /\ Day[Horizon] + 2 * (Longest + DaysPerWeek + 1) <= LastDay
    BY HorizonAssumption
  <1>2. Midnight[LastDay + 1] \in Int /\ Horizon \in Nat
    <2>1. LastDay + 1 \in 0 .. LastDay + 1
      BY CalendarTypes
    <2> QED  BY <2>1, <1>1, MidnightValue, DayOf
  <1>3. t \in Moments /\ t <= Horizon
    BY <1>1, <1>2 DEF Moments
  <1>4. Day[t] <= Day[Horizon] /\ Day[t] \in Days /\ Day[Horizon] \in Days
    BY <1>1, <1>3, DayOrder, DayOf
  <1> QED  BY <1>1, <1>3, <1>4, CalendarTypes, DayOf

\* The day of this week that has the weekday of another day.
LEMMA DayOfWeek ==
    ASSUME NEW d \in Days, NEW f \in Days, d + DaysPerWeek <= LastDay
    PROVE  LET e == d - (Weekday(d) - Weekday(f))
           IN  /\ e \in Days
               /\ Weekday(e) = Weekday(f)
               /\ \A x \in Days :
                      /\ x \div DaysPerWeek = d \div DaysPerWeek
                      /\ Weekday(x) = Weekday(f)
                      => x = e
  <1> DEFINE n == DaysPerWeek
             q == d \div n
             r == f % n
             e == d - (Weekday(d) - Weekday(f))
  <1>1. n \in Nat /\ n > 0 /\ d \in Nat /\ f \in Nat
    BY CalendarTypes
  <1>2. d % n \in 0 .. n - 1 /\ q \in Int /\ d = q * n + (d % n)
    BY <1>1, Quotient
  <1>3. r \in 0 .. n - 1
    BY <1>1, Quotient
  <1>4. q * n \in Int
    BY <1>1, <1>2
  <1>5. e = q * n + r
    <2>1. e = d - ((d % n) - r)
      BY DEF Weekday
    <2> HIDE DEF e, r, q, n
    <2> QED  BY <1>1, <1>2, <1>3, <1>4, <2>1
  <1>6. q * n \in Nat
    <2>1. CASE q >= 0
      BY <1>1, <1>2, <2>1, Product
    <2>2. CASE q <= -1
      <3>1. (-1 - q) * n \in Nat
        BY <1>1, <1>2, <2>2, Product
      <3>2. (-1 - q) * n = -n - q * n
        BY <1>1, <1>2
      <3> HIDE DEF q, n
      <3> QED  BY <1>1, <1>2, <1>4, <3>1, <3>2
    <2> HIDE DEF q
    <2> QED  BY <1>2, <2>1, <2>2
  <1>7. e % n = r
    <2> HIDE DEF e, r, q, n
    <2> QED  BY <1>1, <1>2, <1>3, <1>5, Remainder
  <1>8. e \in Days
    <2>1. d + n <= LastDay
      OBVIOUS
    <2> HIDE DEF e, r, q, n
    <2>2. e \in Nat /\ e <= d + n
      BY <1>1, <1>2, <1>3, <1>5, <1>6
    <2> QED  BY <1>1, <2>1, <2>2, CalendarTypes
  <1>9. ASSUME NEW x \in Days, x \div n = q, x % n = r
        PROVE  x = e
    <2>1. x \in Int
      BY CalendarTypes
    <2>2. x = (x \div n) * n + (x % n)
      BY <1>1, <2>1, Quotient
    <2> QED  BY <1>5, <1>9, <2>2
  <1> QED  BY <1>7, <1>8, <1>9 DEF Weekday

\* The day of this month that has the number of another day; the calendar
\* carries it into the next month when this one is too short.
LEMMA DayInMonth ==
    ASSUME NEW d \in Days, NEW f \in Days, d + Longest <= LastDay
    PROVE  LET e == FirstDay[Month[d]] + DayOfMonth(f) - 1
           IN  /\ e \in Days
               /\ \/ DayOfMonth(e) = DayOfMonth(f)
                  \/ e > d /\ DayOfMonth(f) > MonthLength(Month[d])
               /\ \A x \in Days :
                      Month[x] = Month[d] /\ DayOfMonth(x) = DayOfMonth(f) => x = e
  <1> DEFINE m == Month[d]
             n == Month[f]
             k == DayOfMonth(f)
             e == FirstDay[m] + k - 1
  <1>1. /\ m \in Months /\ d \in Nat
        /\ FirstDay[m] <= d /\ FirstDay[m] \in Nat
        /\ d < FirstDay[m + 1] /\ FirstDay[m + 1] \in Nat
    BY MonthOf
  <1>2. k \in Nat /\ k >= 1 /\ k <= Longest
    <2>1. /\ n \in Months /\ f \in Nat
          /\ FirstDay[n] <= f /\ f < FirstDay[n + 1]
          /\ FirstDay[n] \in Nat /\ FirstDay[n + 1] \in Nat
          /\ k = f - FirstDay[n] + 1
      BY MonthOf
    <2> HIDE DEF n, k
    <2>2. FirstDay[n + 1] - FirstDay[n] <= Longest
      BY <2>1, CalendarAssumption DEF MonthLength
    <2> QED  BY <2>1, <2>2, CalendarTypes
  <1> HIDE DEF m, k, n
  <1>3. e \in Days /\ e \in Nat
    BY <1>1, <1>2, CalendarTypes
  <1>4. DayOfMonth(e) = k \/ (e > d /\ k > MonthLength(m))
    <2>1. CASE e < FirstDay[m + 1]
      <3>1. FirstDay[m] <= e /\ e \in Int
        BY <1>1, <1>2, <1>3
      <3>2. Month[e] = m
        <4> HIDE DEF e
        <4> QED  BY <1>1, <2>1, <3>1, MonthIs
      <3>3. DayOfMonth(e) = e - FirstDay[m] + 1
        <4> HIDE DEF e
        <4> QED  BY <1>3, <3>2, MonthOf
      <3> QED  BY <1>1, <1>2, <3>3
    <2>2. CASE FirstDay[m + 1] <= e
      <3>1. e > d
        <4> HIDE DEF e
        <4> QED  BY <1>1, <1>3, <2>2
      <3>2. k > MonthLength(m)
        BY <1>1, <1>2, <2>2 DEF MonthLength
      <3> QED  BY <3>1, <3>2
    <2> HIDE DEF e
    <2> QED  BY <1>1, <1>3, <2>1, <2>2
  <1>5. ASSUME NEW x \in Days, Month[x] = m, DayOfMonth(x) = k
        PROVE  x = e
    <2>1. DayOfMonth(x) = x - FirstDay[m] + 1 /\ x \in Nat
      BY <1>5, MonthOf
    <2> QED  BY <1>1, <1>2, <1>5, <2>1
  <1> QED  BY <1>3, <1>4, <1>5 DEF m, k

\* Unless the way there leads astray, the cycle of a moment has the window
\* begin on one day: if that is over at the moment it is one of the window's
\* days, and where the calendar has such a day in the cycle it is the day.
LEMMA CycleDay ==
    ASSUME NEW w \in Windows, NEW t \in 0 .. Horizon, ~Astray(w, Day[t]),
           w.recurrence \in {"daily", "weekly", "monthly"}
    PROVE  \E d \in Days :
               /\ Projected(w, t) = OnDay(d, Hour[w.start])
               /\ \/ Begins(w, d)
                  \/ \A s \in OnDay(d, Hour[w.start]) : s > t
               /\ \A e \in Days : SameCycle(w, e, Day[t]) /\ Begins(w, e) => e = d
  <1> DEFINE D == Day[t]
             h == Hour[w.start]
             f == Day[w.start]
  <1>1. /\ D \in Days /\ t \in Moments /\ t \in Int
        /\ D + Longest <= LastDay /\ D + DaysPerWeek <= LastDay
    BY Room
  <1>2. w.start \in Moments
    BY WindowAssumption, Zenon
  <1>3. h \in 0 .. Hours - 1 /\ f \in Days
    BY <1>2, HourOf, DayOf
  <1>5. CASE w.recurrence = "daily"
    <2>1. Projected(w, t) = OnDay(D, h)
      BY <1>5 DEF Projected
    <2>2. Begins(w, D)
      BY <1>5 DEF Begins
    <2>3. \A e \in Days : SameCycle(w, e, D) => e = D
      BY <1>5 DEF SameCycle
    <2> QED  BY <1>1, <2>1, <2>2, <2>3
  <1>6. CASE w.recurrence = "weekly"
    <2> DEFINE d == D - (Weekday(D) - Weekday(f))
    <2>1. /\ d \in Days
          /\ Weekday(d) = Weekday(f)
          /\ \A e \in Days :
                 e \div DaysPerWeek = D \div DaysPerWeek /\ Weekday(e) = Weekday(f)
                 => e = d
      BY <1>1, <1>3, DayOfWeek, Zenon
    <2>2. ~Skips(D, h)
      BY <1>6 DEF Astray
    <2>3. OnDay(D, h) /= {} /\ \A y \in OnDay(D, h) : Day[y] = D /\ Hour[y] = h
      BY <1>1, <1>3, <2>2, OnDayWithin
    <2>4. Projected(w, t)
              = UNION {OnDay(Day[y] - (Weekday(D) - Weekday(f)), Hour[y]) : y \in OnDay(D, h)}
      BY <1>6 DEF Projected
    <2>5. Projected(w, t) = OnDay(d, h)
      <3> HIDE DEF h, D, f
      <3>1. {OnDay(Day[y] - (Weekday(D) - Weekday(f)), Hour[y]) : y \in OnDay(D, h)}
                = {OnDay(D - (Weekday(D) - Weekday(f)), h)}
        BY <2>3
      <3>2. UNION {OnDay(d, h)} = OnDay(d, h)
        BY Zenon
      <3> QED  BY <2>4, <3>1, <3>2, Zenon
    <2>6. Begins(w, d)
      BY <1>6, <2>1 DEF Begins
    <2>7. ASSUME NEW e \in Days, SameCycle(w, e, D), Begins(w, e)
          PROVE  e = d
      <3>1. e \div DaysPerWeek = D \div DaysPerWeek /\ Weekday(e) = Weekday(f)
        BY <1>6, <2>7 DEF SameCycle, Begins
      <3> QED  BY <2>1, <3>1, Zenon
    <2> QED  BY <2>1, <2>5, <2>6, <2>7, Zenon
  <1>7. CASE w.recurrence = "monthly"
    <2> DEFINE d == FirstDay[Month[D]] + DayOfMonth(f) - 1
    <2>2. /\ d \in Days
          /\ \/ DayOfMonth(d) = DayOfMonth(f)
             \/ d > D /\ DayOfMonth(f) > MonthLength(Month[D])
          /\ \A e \in Days :
                 Month[e] = Month[D] /\ DayOfMonth(e) = DayOfMonth(f) => e = d
      BY <1>1, <1>3, DayInMonth, Zenon
    <2>3. Projected(w, t) = OnDay(d, h)
      BY <1>7 DEF Projected, Date
    <2>4. Begins(w, d) \/ \A s \in OnDay(d, h) : s > t
      <3>1. CASE DayOfMonth(d) = DayOfMonth(f)
        BY <1>7, <3>1 DEF Begins
      <3>2. CASE d > D /\ DayOfMonth(f) > MonthLength(Month[D])
        <4>1. ~Skips(d, h)
          BY <1>7, <3>2 DEF Astray
        <4> SUFFICES ASSUME NEW s \in OnDay(d, h), ~(s > t) PROVE FALSE
          BY Zenon
        <4> HIDE DEF d, D, h
        <4>2. s \in Moments /\ Day[s] = d /\ s \in Int
          BY <1>3, <2>2, <4>1, OnDayWithin
        <4>3. Day[s] <= D
          <5>1. s <= t
            BY <1>1, <4>2
          <5> QED  BY <1>1, <4>2, <5>1, DayOrder DEF D
        <4> QED  BY <1>1, <2>2, <3>2, <4>2, <4>3, DayType
      <3> QED  BY <2>2, <3>1, <3>2, Zenon
    <2>5. ASSUME NEW e \in Days, SameCycle(w, e, D), Begins(w, e)
          PROVE  e = d
      <3>1. Month[e] = Month[D] /\ DayOfMonth(e) = DayOfMonth(f)
        BY <1>7, <2>5 DEF SameCycle, Begins
      <3> QED  BY <2>2, <3>1, Zenon
    <2> HIDE DEF d
    <2> QED  BY <2>2, <2>3, <2>4, <2>5, Zenon
  <1> QED  BY <1>5, <1>6, <1>7

\* A window that is not astray is open on time at every moment until the
\* horizon.
LEMMA Opens ==
    ASSUME NEW w \in Windows, NEW t \in 0 .. Horizon, ~Astray(w, Day[t])
    PROVE  OpenOnTime(w, t)
  <1> DEFINE h == Hour[w.start]
             span == w.end - w.start
             Open(s) == w.enabled /\ w.end > w.start /\ s <= t /\ t < s + span
  <1>1. /\ t \in Moments /\ t \in Nat /\ Day[t] \in Days /\ Day[t] \in Nat
    BY Room
  <1>2. /\ w.start \in Moments /\ w.start \in Nat /\ w.end \in Int
        /\ w.enabled \in BOOLEAN
    BY WindowAssumption, DayOf
  <1>3. h \in 0 .. Hours - 1 /\ Day[w.start] \in Days /\ w.start \in OnDay(Day[w.start], h)
    BY <1>2, HourOf, DayOf, OnDayItself
  <1>4. IsActive(w, t) = {Open(s) : s \in Projected(w, t)}
    BY DEF IsActive
  <1>5. w.recurrence = "" \/ w.recurrence \in {"daily", "weekly", "monthly"}
    BY WindowAssumption, Zenon
  <1>6. w.recurrence = "" => Projected(w, t) = {w.start}
    BY DEF Projected
  <1>7. ASSUME TRUE \in IsActive(w, t)
        PROVE  w.enabled /\ \E d \in Days : Covers(w, d, t)
    <2>1. PICK s \in Projected(w, t) : Open(s)
      <3> HIDE DEF Open
      <3>1. PICK s \in Projected(w, t) : TRUE = Open(s)
        BY <1>4, <1>7, Zenon
      <3>2. Open(s)
        BY <3>1
      <3> QED  BY <3>2, Zenon
    <2>2. CASE w.recurrence = ""
      <3>1. Covers(w, Day[w.start], t)
        <4>1. Begins(w, Day[w.start])
          BY <2>2 DEF Begins
        <4>2. s = w.start
          BY <1>6, <2>1, <2>2
        <4> QED  BY <1>3, <2>1, <4>1, <4>2, Zenon DEF Covers
      <3> QED  BY <1>3, <2>1, <3>1
    <2>3. CASE w.recurrence \in {"daily", "weekly", "monthly"}
      <3>1. PICK d \in Days :
                /\ Projected(w, t) = OnDay(d, h)
                /\ Begins(w, d) \/ \A x \in OnDay(d, h) : x > t
        BY <2>3, CycleDay
      <3>2. s \in OnDay(d, h) /\ s <= t /\ s \in Int
        BY <1>3, <2>1, <3>1, OnDayNear
      <3>3. Begins(w, d)
        BY <1>1, <3>1, <3>2
      <3>4. Covers(w, d, t)
        BY <2>1, <3>2, <3>3, Zenon DEF Covers
      <3> QED  BY <2>1, <3>4
    <2> QED  BY <2>2, <2>3, <1>5
  <1>8. ASSUME w.enabled, NEW e \in Days, SameCycle(w, e, Day[t]), SurelyCovers(w, e, t)
        PROVE  IsActive(w, t) = {TRUE}
    <2>1. Begins(w, e) /\ \A s \in OnDay(e, h) : s <= t /\ t < s + span
      BY <1>8 DEF SurelyCovers
    <2>2. Projected(w, t) \subseteq OnDay(e, h) /\ Projected(w, t) /= {}
      <3>1. CASE w.recurrence = ""
        <4>1. e = Day[w.start]
          BY <2>1, <3>1 DEF Begins
        <4> QED  BY <1>3, <1>6, <3>1, <4>1
      <3>2. CASE w.recurrence \in {"daily", "weekly", "monthly"}
        <4>1. PICK d \in Days :
                  /\ Projected(w, t) = OnDay(d, h)
                  /\ \A x \in Days : SameCycle(w, x, Day[t]) /\ Begins(w, x) => x = d
          BY <3>2, CycleDay
        <4>2. e = d
          BY <1>8, <2>1, <4>1
        <4> QED  BY <1>3, <4>1, <4>2, OnDayNear
      <3> QED  BY <1>5, <3>1, <3>2
    <2>3. \A s \in Projected(w, t) : Open(s) = TRUE
      <3> SUFFICES ASSUME NEW s \in Projected(w, t) PROVE Open(s) = TRUE
        OBVIOUS
      <3>1. s \in OnDay(e, h) /\ s \in Int
        BY <1>3, <2>2, OnDayNear
      <3> QED  BY <1>1, <1>2, <1>8, <2>1, <3>1
    <2> HIDE DEF Open
    <2> QED  BY <1>4, <2>2, <2>3, Zenon
  <1> QED  BY <1>7, <1>8 DEF OpenOnTime

-----------------------------------------------------------------------------
(* The behaviours.                                                         *)

\* The model's time does not pass the horizon.
WithinHorizon == now \in 0 .. Horizon

\* The steps of the API and of the clock keep within the horizon.
THEOREM PlanInvariance == PlanSpec => []WithinHorizon
  <1>1. Horizon \in Nat
    BY HorizonAssumption, DayOf
  <1>2. PlanInit => WithinHorizon
    BY <1>1 DEF PlanInit, WithinHorizon
  <1>3. WithinHorizon /\ [PlanNext]_planVars => WithinHorizon'
    BY <1>1 DEF WithinHorizon, PlanNext, planVars, Post, Patch, Delete, HourPasses
  <1> QED  BY <1>2, <1>3, PTL DEF PlanSpec

\* Whenever the way to its occurrence does not lead over a day that lacks its
\* hour, a window is open only inside one of its occurrences and open in all of
\* the occurrence that begins in this cycle.
THEOREM WindowsOpenOnTimeHolds == PlanSpec => []WindowsOpenOnTime
  <1>1. WithinHorizon => WindowsOpenOnTime
    BY Opens DEF WithinHorizon, WindowsOpenOnTime
  <1> QED  BY <1>1, PlanInvariance, PTL

-----------------------------------------------------------------------------
(* The next day at an hour.                                                *)

\* A candidate lies within a day's hours from now, on one of three days.
LEMMA CandidateWithin ==
    ASSUME NEW t \in 0 .. Horizon, NEW h \in 0 .. Hours - 1,
           NEW c \in Candidates(h, t)
    PROVE  /\ c \in Moments /\ c \in Nat /\ c <= t + Hours
           /\ Day[c] \in Days /\ Day[t] <= Day[c] /\ Day[c] <= Day[t] + 2
           /\ t \in Nat
  <1> DEFINE D == Day[t]
  <1>1. /\ t \in Moments /\ t \in Nat /\ D \in Days /\ D \in Nat
        /\ D + 2 * (Longest + DaysPerWeek + 1) <= LastDay
    BY Room
  <1>2. PICK x \in OnDay(D, h) : c = IF x > t THEN x ELSE x + Hours
    BY DEF Candidates
  <1>3. /\ x \in Int /\ Midnight[D] - 1 <= x /\ x <= Midnight[D + 1]
        /\ x <= Midnight[D] + Hours
    BY <1>1, <1>2, OnDayNear
  <1>4. /\ Midnight[D] <= t /\ t < Midnight[D + 1]
        /\ Midnight[D] \in Int /\ Midnight[D + 1] \in Int
    BY <1>1, DayOf
  <1>5. Hours \in Nat /\ Hours >= 3
    BY CalendarTypes
  <1>6. D + 1 \in Days /\ D + 2 \in Days /\ (D + 1) + 1 = D + 2 /\ (D + 2) + 1 = D + 3
    <2>1. D + 2 <= LastDay
      BY <1>1, CalendarTypes
    <2> HIDE DEF D
    <2> QED  BY <1>1, <2>1, CalendarTypes
  <1>7. /\ Midnight[D + 2] = Midnight[D + 1] + Long(D + 1) /\ Midnight[D + 2] \in Int
        /\ Midnight[D + 3] = Midnight[D + 2] + Long(D + 2) /\ Midnight[D + 3] \in Int
    BY <1>6, MidnightStep
  <1>8. Midnight[D + 1] = Midnight[D] + Long(D)
    BY <1>1, MidnightStep
  <1>9. /\ Long(D + 1) \in Nat /\ Long(D + 1) >= Hours - 1
        /\ Long(D + 2) \in Nat /\ Long(D + 2) >= Hours - 1
        /\ Long(D) \in Nat /\ Long(D) <= Hours + 1
    BY <1>5 DEF Long
  <1> HIDE DEF D
  <1>10. /\ c \in Int /\ Midnight[D] <= c /\ c < Midnight[D + 3]
         /\ c <= t + Hours
    <2>1. CASE x > t
      <3>1. c = x
        BY <1>2, <2>1
      <3> QED  BY <1>1, <1>3, <1>4, <1>5, <1>7, <1>9, <2>1, <3>1
    <2>2. CASE ~(x > t)
      <3>1. c = x + Hours
        BY <1>2, <2>2
      <3> QED  BY <1>1, <1>3, <1>4, <1>5, <1>7, <1>9, <2>2, <3>1
    <2> QED  BY <2>1, <2>2
  <1>11. /\ c \in Moments /\ c \in Nat
         /\ Day[c] \in Days /\ D <= Day[c] /\ Day[c] <= D + 2
    <2>1. CASE c < Midnight[D + 1]
      <3>1. c \in Moments /\ Day[c] = D
        BY <1>1, <1>10, <2>1, DayIs
      <3> QED  BY <1>1, <1>10, <3>1, DayOf
    <2>2. CASE Midnight[D + 1] <= c /\ c < Midnight[D + 2]
      <3>1. c \in Moments /\ Day[c] = D + 1
        BY <1>6, <1>10, <2>2, DayIs
      <3> QED  BY <1>1, <1>6, <1>10, <3>1, DayOf
    <2>3. CASE Midnight[D + 2] <= c
      <3>1. c \in Moments /\ Day[c] = D + 2
        BY <1>6, <1>10, <2>3, DayIs
      <3> QED  BY <1>1, <1>6, <1>10, <3>1, DayOf
    <2> QED  BY <1>4, <1>7, <1>10, <2>1, <2>2, <2>3
  <1> QED  BY <1>1, <1>10, <1>11 DEF D

\* On a day without a change the candidate is the first such hour after now:
\* every later moment at this hour lies on its day or after it.
LEMMA CandidateFirst ==
    ASSUME NEW t \in 0 .. Horizon, NEW h \in 0 .. Hours - 1,
           NEW c \in Candidates(h, t), Day[t] \notin Spring \cup Fall
    PROVE  \E d \in {Day[t], Day[t] + 1} :
               /\ d \in Days /\ c = Midnight[d] + h /\ c > t /\ c \in Int
               /\ d = Day[t] + 1 => Midnight[Day[t]] + h <= t
               /\ \A u \in Moments :
                      u > t /\ Hour[u] = h /\ Day[u] \notin Spring \cup Fall
                      => d <= Day[u]
  <1> DEFINE D == Day[t]
  <1>1. /\ t \in Moments /\ t \in Nat /\ D \in Days /\ D \in Nat
    BY Room
  <1>2. D + 1 \in Days
    <2>1. D + 2 * (Longest + DaysPerWeek + 1) <= LastDay
      BY Room
    <2> HIDE DEF D
    <2> QED  BY <1>1, <2>1, CalendarTypes
  <1>3. /\ OnDay(D, h) = {Midnight[D] + h}
        /\ Midnight[D + 1] = Midnight[D] + Hours
    BY <1>1, OnSteadyDay
  <1>4. /\ Midnight[D] \in Int /\ Midnight[D + 1] \in Int /\ Hours \in Nat /\ h \in Nat
        /\ Midnight[D] <= t /\ t < Midnight[D + 1]
    BY <1>1, DayOf, CalendarTypes
  <1>5. c = IF Midnight[D] + h > t THEN Midnight[D] + h ELSE (Midnight[D] + h) + Hours
    BY <1>3 DEF Candidates
  <1>6. \A u \in Moments : u > t => D <= Day[u] /\ Day[u] \in Nat /\ u \in Int
    <2> SUFFICES ASSUME NEW u \in Moments, u > t
                 PROVE  D <= Day[u] /\ Day[u] \in Nat /\ u \in Int
      OBVIOUS
    <2>1. t <= u /\ u \in Int
      BY <1>1, DayOf
    <2>2. D <= Day[u]
      BY <1>1, <2>1, DayOrder
    <2> QED  BY <2>1, <2>2, DayOf, CalendarTypes
  <1>7. CASE Midnight[D] + h > t
    <2>1. c = Midnight[D] + h /\ c > t /\ c \in Int
      BY <1>4, <1>5, <1>7
    <2>2. D /= D + 1
      BY <1>1
    <2> QED  BY <1>1, <1>6, <2>1, <2>2
  <1>8. CASE ~(Midnight[D] + h > t)
    <2>1. c = Midnight[D + 1] + h /\ c > t /\ c \in Int /\ Midnight[D] + h <= t
      <3>1. c = (Midnight[D] + h) + Hours
        BY <1>5, <1>8
      <3> HIDE DEF D
      <3> QED  BY <1>1, <1>3, <1>4, <1>8, <3>1
    <2>2. ASSUME NEW u \in Moments, u > t, Hour[u] = h, Day[u] \notin Spring \cup Fall
          PROVE  D + 1 <= Day[u]
      <3>1. u = Midnight[Day[u]] + h
        BY <2>2, HourSteady
      <3>2. D <= Day[u] /\ Day[u] \in Nat /\ u \in Int
        BY <1>6, <2>2
      <3>3. D /= Day[u]
        <4> HIDE DEF D
        <4> QED  BY <1>1, <2>1, <2>2, <3>1, <3>2
      <3> QED  BY <1>1, <3>2, <3>3
    <2> QED  BY <1>2, <2>1, <2>2
  <1> QED  BY <1>7, <1>8

-----------------------------------------------------------------------------
(* The weekday.                                                            *)

\* Within a week there is every weekday, and again a week later.
LEMMA WeekdayComes ==
    ASSUME NEW d \in Days, NEW wd \in 0 .. DaysPerWeek - 1
    PROVE  \E y \in Nat : /\ d <= y /\ y < d + DaysPerWeek
                          /\ y % DaysPerWeek = wd
                          /\ (y + DaysPerWeek) % DaysPerWeek = wd
  <1> DEFINE n == DaysPerWeek
             q == d \div n
             r == d % n
  <1>1. n \in Nat /\ n > 0 /\ d \in Nat
    BY CalendarTypes
  <1>2. r \in 0 .. n - 1 /\ q \in Int /\ d = q * n + r
    BY <1>1, Quotient
  <1> HIDE DEF q, r, n
  <1>3. /\ q * n \in Int /\ (q + 1) * n = q * n + n
        /\ (q + 2) * n = q * n + n + n /\ wd \in 0 .. n - 1
        /\ q + 1 \in Int /\ q + 2 \in Int
    BY <1>1, <1>2 DEF n
  <1>4. /\ (q * n + wd) % n = wd /\ ((q + 1) * n + wd) % n = wd
        /\ ((q + 2) * n + wd) % n = wd
    BY <1>1, <1>2, <1>3, Remainder
  <1>5. CASE wd >= r
    <2> DEFINE y == q * n + wd
    <2>1. y \in Nat /\ d <= y /\ y < d + n /\ y + n = (q + 1) * n + wd
      BY <1>1, <1>2, <1>3, <1>5
    <2> QED  BY <1>4, <2>1 DEF n
  <1>6. CASE wd < r
    <2> DEFINE y == (q + 1) * n + wd
    <2>1. y \in Nat /\ d <= y /\ y < d + n /\ y + n = (q + 2) * n + wd
      BY <1>1, <1>2, <1>3, <1>6
    <2> QED  BY <1>4, <2>1 DEF n
  <1> QED  BY <1>2, <1>3, <1>5, <1>6

\* Across the one change of the clocks that two weeks may have, midnights are
\* an hour nearer or farther.
LEMMA AcrossChange ==
    ASSUME NEW a \in Days, NEW b \in Days, b < a + 2 * DaysPerWeek,
           NEW x \in Spring \cup Fall, a <= x, x < b
    PROVE  /\ Midnight[b] = Midnight[a] + (b - a) * Hours + (Long(x) - Hours)
           /\ b \notin Spring \cup Fall
  <1>1. /\ a \in Nat /\ b \in Nat /\ x \in Nat /\ x \in Days
        /\ DaysPerWeek \in Nat /\ Hours \in Nat /\ LastDay \in Nat
        /\ a \in 0 .. LastDay + 1 /\ x \in 0 .. LastDay + 1
        /\ x + 1 \in 0 .. LastDay + 1 /\ b \in 0 .. LastDay + 1
    BY CalendarTypes, ClockAssumption
  <1>2. \A y \in a .. b : y \in Spring \cup Fall => y = x
    <2> SUFFICES ASSUME NEW y \in a .. b, y \in Spring \cup Fall PROVE y = x
      OBVIOUS
    <2>1. y \in Nat /\ y - x < 2 * DaysPerWeek /\ x - y < 2 * DaysPerWeek
      BY <1>1
    <2>2. ~(x < y)
      <3>1. x < y => y - x >= 2 * DaysPerWeek
        BY ClockAssumption
      <3> QED  BY <1>1, <2>1, <3>1
    <2>3. ~(y < x)
      <3>1. y < x => x - y >= 2 * DaysPerWeek
        BY ClockAssumption
      <3> QED  BY <1>1, <2>1, <3>1
    <2> QED  BY <1>1, <2>1, <2>2, <2>3
  <1>3. Steady(a, x - 1)
    <2>1. \A y \in a .. x - 1 : y \in a .. b /\ y /= x
      BY <1>1
    <2> QED  BY <1>2, <2>1, Zenon DEF Steady
  <1>4. Steady(x + 1, b - 1)
    <2>1. \A y \in x + 1 .. b - 1 : y \in a .. b /\ y /= x
      BY <1>1
    <2> QED  BY <1>2, <2>1, Zenon DEF Steady
  <1>5. b \notin Spring \cup Fall
    <2>1. b \in a .. b /\ b /= x
      BY <1>1
    <2> QED  BY <1>2, <2>1, Zenon
  <1>6. Midnight[x] = Midnight[a] + (x - a) * Hours
    BY <1>1, <1>3, MidnightSteady
  <1>7. Midnight[x + 1] = Midnight[x] + Long(x) /\ Long(x) \in Nat
    BY <1>1, MidnightStep
  <1>8. Midnight[b] = Midnight[x + 1] + (b - (x + 1)) * Hours
    <2>1. x + 1 <= b
      BY <1>1
    <2> QED  BY <1>1, <1>4, <2>1, MidnightSteady
  <1>9. Midnight[a] \in Int /\ Midnight[x] \in Int /\ Midnight[x + 1] \in Int
    BY <1>1, MidnightValue
  <1>10. /\ (b - a) * Hours = (x - a) * Hours + Hours + (b - (x + 1)) * Hours
         /\ (b - a) * Hours \in Int /\ (x - a) * Hours \in Int
         /\ (b - (x + 1)) * Hours \in Int
    BY <1>1
  <1> DEFINE p == (x - a) * Hours
             q == (b - (x + 1)) * Hours
             r == (b - a) * Hours
  <1>11. /\ p \in Int /\ q \in Int /\ r \in Int /\ r = p + Hours + q
         /\ Midnight[x] = Midnight[a] + p /\ Midnight[b] = Midnight[x + 1] + q
    BY <1>6, <1>8, <1>10
  <1>12. Midnight[b] = Midnight[a] + r + (Long(x) - Hours)
    <2> HIDE DEF p, q, r
    <2> QED  BY <1>1, <1>7, <1>9, <1>11
  <1> QED  BY <1>5, <1>12

\* The planner, stepping by the hours of a day, comes to a given day of the
\* next two weeks, unless it steps over the day on which the clocks go forward.
LEMMA DayHit ==
    ASSUME NEW c \in Moments, NEW y \in Nat, Day[c] <= y,
           y < Day[c] + 2 * DaysPerWeek, Day[c] + 2 * DaysPerWeek <= LastDay
    PROVE  \/ \E k \in 0 .. y - Day[c] + 1 :
                  c + k * Hours \in Moments /\ Day[c + k * Hours] = y
           \/ /\ y \in Spring /\ Day[c] < y
              /\ c - Midnight[Day[c]] = Hours - 1
  <1> DEFINE d == Day[c]
             i == c - Midnight[d]
             p == (y - d) * Hours
  <1>1. /\ d \in Days /\ d \in Nat /\ c \in Nat /\ Midnight[d] \in Int
        /\ i \in Int /\ 0 <= i /\ i < Long(d)
    BY DayOf, HourOf, CalendarTypes
  <1>2. /\ y \in Days /\ Hours \in Nat /\ Hours >= 3 /\ y - d \in Nat /\ p \in Nat
    <2>1. /\ y \in Days /\ Hours \in Nat /\ Hours >= 3 /\ y - d \in Nat
      BY <1>1, CalendarTypes
    <2> QED  BY <2>1, Product
  <1>3. Midnight[y + 1] = Midnight[y] + Long(y) /\ Midnight[y] \in Int /\ Long(y) \in Nat
    BY <1>2, MidnightStep
  <1>4. \A k \in Int : /\ Midnight[y] <= c + k * Hours
                       /\ c + k * Hours < Midnight[y] + Long(y)
                       => c + k * Hours \in Moments /\ Day[c + k * Hours] = y
    <2> SUFFICES ASSUME NEW k \in Int, Midnight[y] <= c + k * Hours,
                        c + k * Hours < Midnight[y] + Long(y)
                 PROVE  c + k * Hours \in Moments /\ Day[c + k * Hours] = y
      OBVIOUS
    <2>1. c + k * Hours \in Int
      BY <1>1, <1>2
    <2>2. c + k * Hours < Midnight[y + 1]
      BY <1>3
    <2> QED  BY <1>2, <2>1, <2>2, DayIs
  <1>5. /\ y - d \in 0 .. y - d + 1 /\ y - d + 1 \in 0 .. y - d + 1
        /\ (y - d + 1) * Hours = p + Hours
        /\ y > d => y - d - 1 \in 0 .. y - d + 1
        /\ (y - d - 1) * Hours = p - Hours
    BY <1>1, <1>2
  <1>6. CASE \E x \in Spring \cup Fall : d <= x /\ x < y
    <2>1. PICK x \in Spring \cup Fall : d <= x /\ x < y
      BY <1>6
    <2>2. /\ Midnight[y] = Midnight[d] + p + (Long(x) - Hours)
          /\ y \notin Spring \cup Fall
      BY <1>1, <1>2, <2>1, AcrossChange
    <2>3. Long(y) = Hours /\ x \in Nat
      BY <2>2, CalendarTypes, ClockAssumption DEF Long
    <2>4. d /= x => d \notin Spring \cup Fall
      <3> SUFFICES ASSUME d /= x, d \in Spring \cup Fall PROVE FALSE
        OBVIOUS
      <3>1. d < x /\ x - d < 2 * DaysPerWeek
        BY <1>1, <1>2, <2>1, <2>3, CalendarTypes
      <3>2. x - d >= 2 * DaysPerWeek
        BY <2>1, <3>1, ClockAssumption
      <3> QED  BY <1>1, <2>3, <3>1, <3>2, CalendarTypes
    <2>5. i < (IF d = x THEN Long(x) ELSE Hours)
      <3>1. d /= x => Long(d) = Hours
        BY <2>4 DEF Long
      <3> QED  BY <1>1, <3>1
    <2>6. y > d
      BY <1>1, <1>2, <2>1, <2>3
    <2>7. CASE x \in Spring
      <3>1. Long(x) = Hours - 1
        BY <2>7 DEF Long
      <3>2. Midnight[y] = Midnight[d] + p - 1
        BY <1>1, <1>2, <2>2, <3>1
      <3>3. i <= Hours - 1
        BY <1>1, <1>2, <2>5, <3>1
      <3> HIDE DEF p
      <3>4. CASE i < Hours - 1
        <4>1. /\ Midnight[y] <= c + (y - d) * Hours
              /\ c + (y - d) * Hours < Midnight[y] + Long(y)
          <5>1. Midnight[y] <= c + p /\ c + p < Midnight[y] + Long(y)
            BY <1>1, <1>2, <2>3, <3>2, <3>4
          <5> QED  BY <5>1 DEF p
        <4> QED  BY <1>4, <1>5, <4>1
      <3>5. CASE i = Hours - 1
        <4>1. /\ Midnight[y] <= c + (y - d - 1) * Hours
              /\ c + (y - d - 1) * Hours < Midnight[y] + Long(y)
          BY <1>1, <1>2, <1>5, <2>3, <3>2, <3>5
        <4>2. y - d - 1 \in Int
          BY <1>1
        <4> QED  BY <1>4, <1>5, <2>6, <4>1, <4>2
      <3> QED  BY <1>1, <1>2, <3>3, <3>4, <3>5
    <2>8. CASE x \in Fall
      <3>1. Long(x) = Hours + 1
        BY <2>8, ClockAssumption DEF Long
      <3>2. Midnight[y] = Midnight[d] + p + 1
        BY <1>1, <1>2, <2>2, <3>1
      <3>3. i <= Hours
        BY <1>1, <1>2, <2>5, <3>1
      <3> HIDE DEF p
      <3>4. CASE i >= 1
        <4>1. /\ Midnight[y] <= c + (y - d) * Hours
              /\ c + (y - d) * Hours < Midnight[y] + Long(y)
          <5>1. Midnight[y] <= c + p /\ c + p < Midnight[y] + Long(y)
            BY <1>1, <1>2, <2>3, <3>2, <3>3, <3>4
          <5> QED  BY <5>1 DEF p
        <4> QED  BY <1>4, <1>5, <4>1
      <3>5. CASE i = 0
        <4>1. /\ Midnight[y] <= c + (y - d + 1) * Hours
              /\ c + (y - d + 1) * Hours < Midnight[y] + Long(y)
          BY <1>1, <1>2, <1>5, <2>3, <3>2, <3>5
        <4>2. y - d + 1 \in Int
          BY <1>1
        <4> QED  BY <1>4, <1>5, <4>1, <4>2
      <3> QED  BY <1>1, <3>4, <3>5
    <2> QED  BY <2>1, <2>7, <2>8
  <1>7. CASE ~ \E x \in Spring \cup Fall : d <= x /\ x < y
    <2>1. Steady(d, y - 1)
      <3>1. \A x \in d .. y - 1 : d <= x /\ x < y
        BY <1>1, <1>2
      <3> QED  BY <1>7, <3>1, Zenon DEF Steady
    <2>2. Midnight[y] = Midnight[d] + p
      <3>1. d \in 0 .. LastDay + 1 /\ y \in 0 .. LastDay + 1 /\ d <= y
        BY <1>1, <1>2, CalendarTypes
      <3> QED  BY <2>1, <3>1, MidnightSteady
    <2>3. CASE i < Long(y)
      <3>1. /\ Midnight[y] <= c + (y - d) * Hours
            /\ c + (y - d) * Hours < Midnight[y] + Long(y)
        <4>1. Midnight[y] <= c + p /\ c + p < Midnight[y] + Long(y)
          <5> HIDE DEF p
          <5> QED  BY <1>1, <1>2, <1>3, <2>2, <2>3
        <4> QED  BY <4>1
      <3> QED  BY <1>4, <1>5, <3>1
    <2>4. CASE ~(i < Long(y))
      <3>1. d /= y
        BY <1>1, <2>4
      <3>2. d < y
        BY <1>1, <1>2, <3>1
      <3>3. d \notin Spring \cup Fall
        BY <1>1, <1>7, <3>2
      <3>4. i < Hours
        BY <1>1, <3>3 DEF Long
      <3>5. y \in Spring /\ i >= Hours - 1
        BY <1>1, <1>2, <2>4, <3>4 DEF Long
      <3>6. i = Hours - 1
        BY <1>1, <1>2, <3>4, <3>5
      <3> QED  BY <3>2, <3>5, <3>6
    <2> QED  BY <2>3, <2>4
  <1> QED  BY <1>6, <1>7

\* The planner finds a weekday within two weeks, and the first one it meets.
LEMMA WeekdayFound ==
    ASSUME NEW c \in Moments, Day[c] + 2 * DaysPerWeek <= LastDay,
           NEW wd \in 0 .. DaysPerWeek - 1
    PROVE  \E k \in Nat :
               /\ k <= 2 * DaysPerWeek - 1
               /\ OnWeekday(c, wd) = c + k * Hours
               /\ c + k * Hours \in Moments
               /\ Hit(c, wd, k)
               /\ \A j \in 0 .. k - 1 : ~Hit(c, wd, j)
  <1> DEFINE d == Day[c]
             n == DaysPerWeek
             i == c - Midnight[d]
             S == {k \in 0 .. 2 * n - 1 : Hit(c, wd, k)}
  <1>1. /\ d \in Days /\ d \in Nat /\ c \in Nat /\ Midnight[d] \in Int
        /\ n \in Nat /\ n > 0 /\ Hours \in Nat /\ Hours >= 3
    BY DayOf, CalendarTypes
  <1>2. PICK y \in Nat : /\ d <= y /\ y < d + n
                         /\ y % n = wd /\ (y + n) % n = wd
    BY <1>1, WeekdayComes
  <1>3. \E k \in 0 .. 2 * n - 1 : c + k * Hours \in Moments /\ Hit(c, wd, k)
    <2>1. \/ \E k \in 0 .. y - d + 1 :
                 c + k * Hours \in Moments /\ Day[c + k * Hours] = y
          \/ y \in Spring /\ d < y /\ i = Hours - 1
      <3>1. y < d + 2 * n
        BY <1>1, <1>2
      <3> QED  BY <1>2, <3>1, DayHit
    <2>2. CASE \E k \in 0 .. y - d + 1 :
                   c + k * Hours \in Moments /\ Day[c + k * Hours] = y
      <3>1. PICK k \in 0 .. y - d + 1 :
                c + k * Hours \in Moments /\ Day[c + k * Hours] = y
        BY <2>2
      <3>2. k \in 0 .. 2 * n - 1
        BY <1>1, <1>2
      <3>3. Hit(c, wd, k)
        BY <1>2, <3>1, Zenon DEF Hit, Weekday
      <3> QED  BY <3>1, <3>2, <3>3
    <2>3. CASE y \in Spring /\ d < y /\ i = Hours - 1
      <3> DEFINE z == y + n
                 k == z - d - 1
      <3>1. z \in Days /\ z < d + 2 * n /\ z \in Nat
        BY <1>1, <1>2, CalendarTypes
      <3>2. /\ Midnight[z] = Midnight[d] + (z - d) * Hours + (Long(y) - Hours)
            /\ z \notin Spring \cup Fall
        <4>1. y \in Spring \cup Fall /\ d <= y /\ y < z
          BY <1>1, <1>2, <2>3
        <4> HIDE DEF z
        <4> QED  BY <1>1, <3>1, <4>1, AcrossChange
      <3>3. Long(y) = Hours - 1
        BY <2>3 DEF Long
      <3>4. k * Hours = (z - d) * Hours - Hours /\ (z - d) * Hours \in Int
        BY <1>1, <3>1
      <3>5. c + k * Hours = Midnight[z]
        <4> HIDE DEF k, z
        <4> QED  BY <1>1, <2>3, <3>2, <3>3, <3>4
      <3>6. Midnight[z + 1] = Midnight[z] + Long(z) /\ Long(z) \in Nat /\ Long(z) >= 2
            /\ Midnight[z] \in Int
        BY <3>1, MidnightStep
      <3>7. c + k * Hours \in Moments /\ Day[c + k * Hours] = z
        <4>1. Midnight[z] \in Moments /\ Day[Midnight[z]] = z
          <5>1. Midnight[z] <= Midnight[z] /\ Midnight[z] < Midnight[z + 1]
            BY <3>6
          <5> HIDE DEF z
          <5> QED  BY <3>1, <3>6, <5>1, DayIs
        <4> QED  BY <3>5, <4>1
      <3>8. Hit(c, wd, k)
        BY <1>2, <3>7, Zenon DEF Hit, Weekday
      <3>9. k \in 0 .. 2 * n - 1
        BY <1>1, <1>2, <2>3
      <3> QED  BY <3>7, <3>8, <3>9
    <2> QED  BY <2>1, <2>2, <2>3
  <1>4. PICK K \in 0 .. 2 * n - 1 : c + K * Hours \in Moments /\ Hit(c, wd, K)
    BY <1>3
  <1>5. S \in SUBSET Nat /\ S /= {}
    <2>1. K \in S
      BY <1>4, Zenon
    <2>2. 0 .. 2 * n - 1 \subseteq Nat
      BY <1>1
    <2> QED  BY <2>1, <2>2, Zenon
  <1>6. PICK k \in S : \A j \in S : k <= j
    BY <1>5, LeastMember, Zenon
  <1>7. k \in Nat /\ k <= 2 * n - 1 /\ Hit(c, wd, k) /\ k <= K /\ K \in Nat
    BY <1>1, <1>4, <1>6
  <1>8. \A j \in 0 .. k - 1 : ~Hit(c, wd, j)
    <2> SUFFICES ASSUME NEW j \in 0 .. k - 1, Hit(c, wd, j) PROVE FALSE
      OBVIOUS
    <2>1. j \in 0 .. 2 * n - 1 /\ ~(k <= j)
      BY <1>1, <1>7
    <2>2. j \in S
      BY <2>1, Zenon
    <2> QED  BY <1>6, <2>1, <2>2, Zenon
  <1>9. c + k * Hours \in Moments
    <2>1. (K - k) * Hours \in Nat /\ k * Hours \in Nat /\ K * Hours \in Nat
      BY <1>1, <1>7, Product
    <2>2. (K - k) * Hours = K * Hours - k * Hours
      BY <1>1, <1>7
    <2>3. c + k * Hours \in Nat /\ c + k * Hours <= c + K * Hours
      BY <1>1, <2>1, <2>2
    <2>4. c + K * Hours < Midnight[LastDay + 1] /\ Midnight[LastDay + 1] \in Int
      <3>1. LastDay + 1 \in 0 .. LastDay + 1
        BY CalendarTypes
      <3>2. Midnight[LastDay + 1] \in Int
        BY <3>1, MidnightValue
      <3> QED  BY <1>4, <3>2 DEF Moments
    <2>5. c + K * Hours \in Int
      BY <1>1, <2>1
    <2> QED  BY <2>3, <2>4, <2>5 DEF Moments
  <1>10. \A m \in 0 .. 2 * n :
             Hit(c, wd, m) /\ (\A j \in 0 .. m - 1 : ~Hit(c, wd, j)) <=> m = k
    <2> SUFFICES ASSUME NEW m \in 0 .. 2 * n
                 PROVE  Hit(c, wd, m) /\ (\A j \in 0 .. m - 1 : ~Hit(c, wd, j)) <=> m = k
      OBVIOUS
    <2>1. m \in Nat
      BY <1>1
    <2>2. CASE m = k
      BY <1>7, <1>8, <2>2
    <2>3. CASE m < k
      <3>1. m \in 0 .. k - 1 /\ m /= k
        BY <1>7, <2>1, <2>3
      <3> QED  BY <1>8, <3>1
    <2>4. CASE k < m
      <3>1. k \in 0 .. m - 1 /\ m /= k
        BY <1>7, <2>1, <2>4
      <3> QED  BY <1>7, <3>1
    <2> QED  BY <1>7, <2>1, <2>2, <2>3, <2>4
  <1>11. (CHOOSE m \in 0 .. 2 * n :
              Hit(c, wd, m) /\ \A j \in 0 .. m - 1 : ~Hit(c, wd, j)) = k
    <2>1. k \in 0 .. 2 * n
      BY <1>1, <1>7
    <2> HIDE DEF n
    <2> QED  BY <1>10, <2>1, Zenon
  <1>12. OnWeekday(c, wd) = c + k * Hours
    BY <1>11, Zenon DEF OnWeekday
  <1> QED  BY <1>7, <1>8, <1>9, <1>12

-----------------------------------------------------------------------------
(* The first match.                                                        *)

\* The moments between two others, while the clocks do not change.
LEMMA Between ==
    ASSUME NEW t \in Moments, NEW v \in Moments, Steady(Day[t], Day[v]),
           NEW u \in t + 1 .. v - 1
    PROVE  /\ u \in Moments /\ u \in Int /\ u > t /\ u < v
           /\ Day[t] <= Day[u] /\ Day[u] <= Day[v] /\ Day[u] \in Days
           /\ Day[u] \notin Spring \cup Fall
           /\ u = Midnight[Day[u]] + Hour[u]
  <1>1. t \in Nat /\ v \in Nat /\ Day[t] \in Days /\ Day[v] \in Days
    BY DayOf
  <1>2. u \in Int /\ u > t /\ u < v
    BY <1>1
  <1>3. u \in Moments
    <2>1. LastDay + 1 \in 0 .. LastDay + 1
      BY CalendarTypes
    <2>2. Midnight[LastDay + 1] \in Int
      BY <2>1, MidnightValue
    <2> QED  BY <1>1, <1>2, <2>2 DEF Moments
  <1>4. Day[t] <= Day[u] /\ Day[u] <= Day[v] /\ Day[u] \in Days
    <2>1. t <= u /\ u <= v
      BY <1>1, <1>2
    <2> QED  BY <1>3, <2>1, DayOrder, DayOf
  <1>5. Day[u] \notin Spring \cup Fall
    <2>1. Day[u] \in Day[t] .. Day[v]
      BY <1>1, <1>4, CalendarTypes
    <2> QED  BY <2>1, Zenon DEF Steady
  <1>6. u = Midnight[Day[u]] + Hour[u]
    BY <1>3, <1>5, HourSteady
  <1> QED  BY <1>2, <1>3, <1>4, <1>5, <1>6

\* While the clocks do not change, a candidate is the first such hour after now.
LEMMA DailyFirst ==
    ASSUME NEW t \in 0 .. Horizon, NEW h \in 0 .. Hours - 1,
           NEW v \in Candidates(h, t), Steady(Day[t], Day[v])
    PROVE  /\ v > t /\ Hour[v] = h
           /\ \A u \in t + 1 .. v - 1 : Hour[u] /= h
  <1>1. /\ v \in Moments /\ t \in Moments /\ Day[t] \in Nat /\ Day[v] \in Nat
        /\ Day[t] \in Days /\ Day[v] \in Days
        /\ Day[t] <= Day[v]
    BY CandidateWithin, Room, CalendarTypes
  <1>2. Day[t] \notin Spring \cup Fall
    <2>1. Day[t] \in Day[t] .. Day[v]
      BY <1>1
    <2> QED  BY <2>1, Zenon DEF Steady
  <1>3. PICK d \in {Day[t], Day[t] + 1} :
            /\ d \in Days /\ v = Midnight[d] + h /\ v > t /\ v \in Int
            /\ \A u \in Moments :
                   u > t /\ Hour[u] = h /\ Day[u] \notin Spring \cup Fall => d <= Day[u]
    BY <1>2, CandidateFirst
  <1>4. h \in Nat /\ d \in Nat /\ Midnight[d] \in Int
    BY <1>3, CalendarTypes, MidnightStep
  <1>5. d <= Day[v] /\ Day[t] <= d
    <2>1. Day[v] < d => v < Midnight[d]
      <3> SUFFICES ASSUME Day[v] < d PROVE v < Midnight[d]
        OBVIOUS
      <3>1. Day[v] + 1 \in 0 .. LastDay + 1 /\ d \in 0 .. LastDay + 1 /\ Day[v] + 1 <= d
        BY <1>1, <1>3, <1>4, CalendarTypes
      <3>2. Midnight[Day[v] + 1] <= Midnight[d] /\ Midnight[Day[v] + 1] \in Int
        BY <3>1, MidnightOrder
      <3>3. v < Midnight[Day[v] + 1]
        BY <1>1, DayOf
      <3> QED  BY <1>3, <1>4, <3>2, <3>3
    <2>2. ~(v < Midnight[d])
      BY <1>3, <1>4
    <2>3. Day[t] <= d
      BY <1>1, <1>3
    <2> QED  BY <1>1, <1>4, <2>1, <2>2, <2>3
  <1>6. d \notin Spring \cup Fall
    <2>1. d \in Day[t] .. Day[v]
      BY <1>1, <1>4, <1>5
    <2> QED  BY <2>1, Zenon DEF Steady
  <1>7. Day[v] = d /\ Hour[v] = h
    BY <1>3, <1>6, OnSteadyDay
  <1>8. ASSUME NEW u \in t + 1 .. v - 1, Hour[u] = h
        PROVE  FALSE
    <2>1. /\ u \in Moments /\ u > t /\ u < v /\ u \in Int
          /\ Day[u] <= Day[v] /\ Day[u] \in Days
          /\ Day[u] \notin Spring \cup Fall
          /\ u = Midnight[Day[u]] + h
      BY <1>1, <1>8, Between
    <2>2. d <= Day[u]
      BY <1>3, <1>8, <2>1
    <2>3. Day[u] = d
      BY <1>4, <1>7, <2>1, <2>2, CalendarTypes
    <2> QED  BY <1>3, <2>1, <2>3
  <1> QED  BY <1>3, <1>7, <1>8

\* As many hours of a day as there are days, from one hour to another.
LEMMA SteadyHours ==
    ASSUME NEW a \in Days, NEW b \in Days, a <= b, Steady(a, b),
           NEW h \in 0 .. Hours - 1, NEW g \in 0 .. Hours - 1, NEW k \in Int,
           Midnight[a] + h + k * Hours = Midnight[b] + g
    PROVE  k = b - a /\ g = h
  <1>1. /\ a \in Nat /\ b \in Nat /\ Hours \in Nat /\ Hours >= 3
        /\ a \in 0 .. LastDay + 1 /\ b \in 0 .. LastDay + 1 /\ LastDay \in Nat
    BY CalendarTypes
  <1>2. Steady(a, b - 1)
    <2>1. \A y \in a .. b - 1 : y \in a .. b
      BY <1>1
    <2> QED  BY <2>1, Zenon DEF Steady
  <1>3. Midnight[b] = Midnight[a] + (b - a) * Hours /\ Midnight[a] \in Int
    BY <1>1, <1>2, MidnightSteady, MidnightValue
  <1> DEFINE x == k - (b - a)
  <1>4. x * Hours = k * Hours - (b - a) * Hours /\ k * Hours \in Int
        /\ (b - a) * Hours \in Int /\ x \in Int
    BY <1>1
  <1>5. x * Hours + h = g
    <2> HIDE DEF x
    <2> QED  BY <1>1, <1>3, <1>4
  <1>6. x = 0
    <2>1. /\ 0 <= x * Hours + h /\ x * Hours + h < Hours
          /\ 0 <= h /\ h < Hours /\ h \in Int /\ Hours > 0
      BY <1>1, <1>5
    <2> HIDE DEF x
    <2> QED  BY <1>1, <1>4, <2>1, OneQuotient
  <1>7. k = b - a
    BY <1>1, <1>6
  <1>8. g = h
    <2>1. 0 * Hours = 0
      BY <1>1
    <2> QED  BY <1>1, <1>5, <1>6, <2>1
  <1> QED  BY <1>7, <1>8

\* While they do not change, the planner finds the first such hour of the weekday.
LEMMA WeeklyFirst ==
    ASSUME NEW t \in 0 .. Horizon, NEW h \in 0 .. Hours - 1,
           NEW wd \in 0 .. DaysPerWeek - 1,
           NEW c \in Candidates(h, t), NEW v, v = OnWeekday(c, wd),
           Steady(Day[t], Day[v])
    PROVE  /\ v > t /\ Hour[v] = h /\ Weekday(Day[v]) = wd
           /\ \A u \in t + 1 .. v - 1 : ~(Hour[u] = h /\ Weekday(Day[u]) = wd)
  <1>1. /\ t \in Moments /\ t \in Nat /\ Day[t] \in Days /\ Day[t] \in Nat
        /\ Day[t] + 2 * (Longest + DaysPerWeek + 1) <= LastDay
        /\ Hours \in Nat /\ Hours >= 3 /\ DaysPerWeek \in Nat /\ Longest \in Nat
        /\ Longest > 2
    BY Room, CalendarTypes, CalendarAssumption
  <1>2. /\ c \in Moments /\ c \in Nat /\ Day[c] \in Days /\ Day[c] <= Day[t] + 2
        /\ Day[c] \in Nat
    BY CandidateWithin, CalendarTypes
  <1>3. PICK k \in Nat : /\ OnWeekday(c, wd) = c + k * Hours
                         /\ c + k * Hours \in Moments
                         /\ Hit(c, wd, k)
                         /\ \A j \in 0 .. k - 1 : ~Hit(c, wd, j)
    <2>1. Day[c] + 2 * DaysPerWeek <= LastDay
      BY <1>1, <1>2, CalendarTypes
    <2> QED  BY <1>2, <2>1, WeekdayFound
  <1>4. v = c + k * Hours /\ v \in Moments /\ k * Hours \in Nat
    BY <1>1, <1>3, Product
  <1>5. Weekday(Day[v]) = wd
    BY <1>3, <1>4 DEF Hit
  <1>6. v \in Nat /\ Day[v] \in Days /\ Day[v] \in Nat /\ Hour[v] \in 0 .. Hours - 1
    BY <1>4, DayOf, HourOf, CalendarTypes
  <1>7. \A y \in Day[t] .. Day[v] : y \notin Spring \cup Fall
    BY Zenon DEF Steady
  <1>8. Day[t] <= Day[c] /\ Day[c] <= Day[v]
    <2>1. c <= v
      BY <1>2, <1>4
    <2> QED  BY <1>2, <1>4, <2>1, CandidateWithin, DayOrder
  <1>9. Day[t] \notin Spring \cup Fall
    <2>1. Day[t] \in Day[t] .. Day[v]
      BY <1>1, <1>2, <1>6, <1>8
    <2> QED  BY <1>7, <2>1
  <1>10. PICK d \in {Day[t], Day[t] + 1} :
            /\ d \in Days /\ c = Midnight[d] + h /\ c > t /\ c \in Int
            /\ \A u \in Moments :
                   u > t /\ Hour[u] = h /\ Day[u] \notin Spring \cup Fall => d <= Day[u]
    BY <1>9, CandidateFirst
  <1>11. h \in Nat /\ d \in Nat /\ Midnight[d] \in Int /\ v > t
    <2>1. h \in Nat /\ d \in Nat /\ Midnight[d] \in Int
      BY <1>10, CalendarTypes, MidnightStep
    <2>2. v > t
      BY <1>1, <1>2, <1>4, <1>10
    <2> QED  BY <2>1, <2>2
  <1>12. d <= Day[v]
    <2>1. Day[c] < d => c < Midnight[d]
      <3> SUFFICES ASSUME Day[c] < d PROVE c < Midnight[d]
        OBVIOUS
      <3>1. Day[c] + 1 \in 0 .. LastDay + 1 /\ d \in 0 .. LastDay + 1 /\ Day[c] + 1 <= d
        BY <1>2, <1>10, <1>11, CalendarTypes
      <3>2. Midnight[Day[c] + 1] <= Midnight[d] /\ Midnight[Day[c] + 1] \in Int
        BY <3>1, MidnightOrder
      <3>3. c < Midnight[Day[c] + 1]
        BY <1>2, DayOf
      <3> QED  BY <1>10, <1>11, <3>2, <3>3
    <2>2. ~(c < Midnight[d])
      BY <1>10, <1>11
    <2> QED  BY <1>2, <1>6, <1>8, <1>11, <2>1, <2>2
  <1>13. Steady(d, Day[v])
    <2>1. Day[t] <= d
      BY <1>1, <1>10
    <2>2. \A y \in d .. Day[v] : y \in Day[t] .. Day[v]
      BY <1>1, <1>6, <1>11, <2>1
    <2> QED  BY <1>7, <2>2, Zenon DEF Steady
  <1>14. v = Midnight[Day[v]] + Hour[v] /\ Midnight[Day[v]] \in Int
    <2>1. Day[v] \in Day[t] .. Day[v]
      BY <1>1, <1>2, <1>6, <1>8
    <2> QED  BY <1>4, <1>7, <2>1, HourSteady, DayOf
  <1>15. k = Day[v] - d /\ Hour[v] = h
    <2>1. Midnight[d] + h + k * Hours = Midnight[Day[v]] + Hour[v]
      BY <1>4, <1>10, <1>14
    <2> QED  BY <1>6, <1>10, <1>12, <1>13, <2>1, SteadyHours
  <1>16. ASSUME NEW u \in t + 1 .. v - 1, Hour[u] = h, Weekday(Day[u]) = wd
         PROVE  FALSE
    <2>1. /\ u \in Moments /\ u > t /\ u < v /\ u \in Int
          /\ Day[u] <= Day[v] /\ Day[u] \in Days
          /\ Day[u] \notin Spring \cup Fall
          /\ u = Midnight[Day[u]] + h
      BY <1>1, <1>4, <1>16, Between
    <2>2. d <= Day[u] /\ Day[u] \in Nat
      BY <1>10, <1>16, <2>1, CalendarTypes
    <2> DEFINE j == Day[u] - d
    <2>3. j \in Nat
      BY <1>11, <2>2
    <2>4. Midnight[Day[u]] = Midnight[d] + j * Hours
      <3>1. Steady(d, Day[u] - 1)
        <4>1. \A y \in d .. Day[u] - 1 : y \in d .. Day[v]
          BY <1>6, <1>11, <2>1, <2>2
        <4> QED  BY <1>13, <4>1, Zenon DEF Steady
      <3>2. d \in 0 .. LastDay + 1 /\ Day[u] \in 0 .. LastDay + 1
        BY <1>10, <2>1, CalendarTypes
      <3> QED  BY <2>2, <3>1, <3>2, MidnightSteady
    <2>5. u = c + j * Hours
      <3>1. j * Hours \in Nat
        BY <1>1, <2>3, Product
      <3> HIDE DEF j
      <3> QED  BY <1>10, <1>11, <2>1, <2>4, <3>1
    <2>6. j < k
      <3> HIDE DEF j
      <3> SUFFICES ASSUME ~(j < k) PROVE FALSE
        OBVIOUS
      <3>1. j - k \in Nat
        BY <2>3
      <3>2. (j - k) * Hours \in Nat
        BY <1>1, <3>1, Product
      <3>3. (j - k) * Hours = j * Hours - k * Hours /\ j * Hours \in Int
        BY <1>1, <2>3
      <3> QED  BY <1>2, <1>4, <2>1, <2>5, <3>2, <3>3
    <2>7. j \in 0 .. k - 1
      BY <2>3, <2>6
    <2>8. Hit(c, wd, j)
      BY <1>16, <2>5, Zenon DEF Hit
    <2> QED  BY <1>3, <2>7, <2>8
  <1> QED  BY <1>5, <1>11, <1>15, <1>16

\* The weekday comes within two weeks, whatever the clocks do.
LEMMA WeeklyBound ==
    ASSUME NEW t \in 0 .. Horizon, NEW h \in 0 .. Hours - 1,
           NEW wd \in 0 .. DaysPerWeek - 1, NEW c \in Candidates(h, t)
    PROVE  OnWeekday(c, wd) <= t + 2 * DaysPerWeek * Hours
  <1>1. /\ t \in Moments /\ t \in Nat /\ Day[t] \in Nat
        /\ Day[t] + 2 * (Longest + DaysPerWeek + 1) <= LastDay
        /\ Hours \in Nat /\ DaysPerWeek \in Nat /\ Longest \in Nat
        /\ Longest > 2
    BY Room, CalendarTypes, CalendarAssumption
  <1>2. /\ c \in Moments /\ c \in Nat /\ Day[c] \in Nat /\ Day[c] <= Day[t] + 2
        /\ c <= t + Hours
    BY CandidateWithin, CalendarTypes
  <1>3. PICK k \in Nat : /\ k <= 2 * DaysPerWeek - 1
                         /\ OnWeekday(c, wd) = c + k * Hours
    <2>1. Day[c] + 2 * DaysPerWeek <= LastDay
      BY <1>1, <1>2, CalendarTypes
    <2> QED  BY <1>2, <2>1, WeekdayFound
  <1>4. (2 * DaysPerWeek - 1 - k) * Hours \in Nat
    <2>1. 2 * DaysPerWeek - 1 - k \in Nat
      BY <1>1, <1>3
    <2> QED  BY <1>1, <2>1, Product
  <1>5. /\ (2 * DaysPerWeek - 1 - k) * Hours
              = 2 * DaysPerWeek * Hours - Hours - k * Hours
        /\ k * Hours \in Int /\ 2 * DaysPerWeek * Hours \in Int
    BY <1>1, <1>3
  <1> QED  BY <1>1, <1>2, <1>3, <1>4, <1>5

-----------------------------------------------------------------------------
(* The month.                                                              *)

\* A month that begins early enough is followed by another.
LEMMA NextMonth ==
    ASSUME NEW m \in Months, FirstDay[m] + Longest <= LastDay
    PROVE  /\ m + 1 \in Months
           /\ FirstDay[m + 1] <= FirstDay[m] + Longest
  <1>1. /\ m \in Nat /\ m >= 1 /\ m + 1 \in DOMAIN FirstDay
        /\ FirstDay[m] \in Nat /\ FirstDay[m + 1] \in Nat
    BY MonthsType
  <1>2. FirstDay[m + 1] <= FirstDay[m] + Longest
    <2>1. MonthLength(m) <= Longest /\ Longest \in Nat
      BY CalendarAssumption
    <2> QED  BY <1>1, <2>1 DEF MonthLength
  <1>3. /\ FirstDay[Len(FirstDay)] = LastDay + 1 /\ LastDay \in Nat /\ Longest \in Nat
        /\ DOMAIN FirstDay = 1 .. Len(FirstDay) /\ Len(FirstDay) \in Nat
    BY MonthsType, CalendarTypes
  <1>4. m + 1 /= Len(FirstDay)
    <2> SUFFICES ASSUME m + 1 = Len(FirstDay) PROVE FALSE
      OBVIOUS
    <2>1. FirstDay[m + 1] = LastDay + 1
      BY <1>3
    <2> QED  BY <1>1, <1>2, <1>3, <2>1
  <1>5. m + 1 \in 1 .. Len(FirstDay) - 1
    <2>1. m + 1 \in 1 .. Len(FirstDay)
      BY <1>1, <1>3
    <2> QED  BY <1>3, <1>4, <2>1
  <1> QED  BY <1>2, <1>5 DEF Months

\* A day past the end of its month is one of the next month.
LEMMA CarriedDay ==
    ASSUME NEW m \in Months, m + 1 \in Months, NEW day \in 1 .. Longest,
           NEW e, e = FirstDay[m] + day - 1
    PROVE  /\ e \in Days /\ e \in Nat /\ FirstDay[m] <= e
           /\ Month[e] \in {m, m + 1}
           /\ e + 1 \in Days /\ Month[e + 1] <= m + 1
           /\ day <= MonthLength(m) => Month[e] = m
           /\ Month[e] = m => DayOfMonth(e) = day
  <1>1. /\ m \in Nat /\ FirstDay[m] \in Nat /\ FirstDay[m + 1] \in Nat
        /\ FirstDay[(m + 1) + 1] \in Nat
    BY MonthsType
  <1>2. /\ Longest \in Nat /\ day \in Nat /\ day >= 1 /\ day <= Longest
        /\ Longest < 2 * MonthLength(m) /\ Longest < 2 * MonthLength(m + 1)
    BY CalendarAssumption
  <1>3. /\ e \in Nat /\ FirstDay[m] <= e
        /\ e < FirstDay[(m + 1) + 1] /\ e + 1 < FirstDay[(m + 1) + 1]
    BY <1>1, <1>2 DEF MonthLength
  <1>6. e + 1 \in Days /\ Month[e + 1] <= m + 1
    <2>1. CASE e + 1 < FirstDay[m + 1]
      <3>1. e + 1 \in Int /\ FirstDay[m] <= e + 1
        BY <1>1, <1>3
      <3>2. e + 1 \in Days /\ Month[e + 1] = m
        BY <2>1, <3>1, MonthIs
      <3> QED  BY <1>1, <3>2
    <2>2. CASE FirstDay[m + 1] <= e + 1
      <3>1. e + 1 \in Int
        BY <1>3
      <3>2. e + 1 \in Days /\ Month[e + 1] = m + 1
        BY <1>3, <2>2, <3>1, MonthIs
      <3> QED  BY <1>1, <3>2
    <2> QED  BY <1>1, <1>3, <2>1, <2>2
  <1>4. CASE e < FirstDay[m + 1]
    <2>1. e \in Days /\ Month[e] = m
      BY <1>3, <1>4, MonthIs
    <2>2. DayOfMonth(e) = day
      BY <1>1, <1>2, <2>1 DEF DayOfMonth
    <2> QED  BY <1>3, <1>6, <2>1, <2>2
  <1>5. CASE FirstDay[m + 1] <= e
    <2>1. e \in Days /\ Month[e] = m + 1
      <3>1. e \in Int
        BY <1>3
      <3> QED  BY <1>3, <1>5, <3>1, MonthIs
    <2>2. ~(day <= MonthLength(m)) /\ m + 1 /= m
      BY <1>1, <1>2, <1>5 DEF MonthLength
    <2> QED  BY <1>3, <1>6, <2>1, <2>2
  <1> QED  BY <1>1, <1>3, <1>4, <1>5, <1>6

\* What time.Date makes of a day and an hour of a month lies no later than in
\* the next, and no earlier than the eve of that day.
LEMMA DateWithin ==
    ASSUME NEW m \in Months, m + 1 \in Months, NEW day \in 1 .. Longest,
           NEW h \in 0 .. Hours - 1, NEW v \in Date(m, day, h)
    PROVE  /\ v \in Moments /\ Day[v] \in Days /\ Day[v] \in Nat
           /\ FirstDay[m] + day - 2 <= Day[v]
           /\ Month[Day[v]] <= m + 1
  <1> DEFINE e == FirstDay[m] + day - 1
  <1>1. e \in Days /\ e + 1 \in Days /\ Month[e + 1] <= m + 1 /\ e \in Nat
    BY CarriedDay
  <1>2. v \in OnDay(e, h)
    BY DEF Date
  <1>3. /\ v \in Moments /\ Day[v] \in Days /\ Day[v] \in Nat
        /\ e - 1 <= Day[v] /\ Day[v] <= e + 1
    <2> HIDE DEF e
    <2> QED  BY <1>1, <1>2, OnNearDay
  <1>4. Month[Day[v]] <= Month[e + 1]
    BY <1>1, <1>3, MonthOrder
  <1>5. Month[Day[v]] \in Nat /\ Month[e + 1] \in Nat /\ m \in Nat /\ FirstDay[m] \in Nat
    BY <1>1, <1>3, MonthOf, MonthsType
  <1>6. day \in Nat
    BY CalendarTypes
  <1>7. Month[Day[v]] <= m + 1
    <2> HIDE DEF e
    <2> QED  BY <1>1, <1>4, <1>5
  <1> QED  BY <1>3, <1>5, <1>6, <1>7

\* The day in the candidate's month, or in the month after it if that is over.
\* Unless the clocks skip the hour, the candidate was then in the month of now.
LEMMA MonthlyDate ==
    ASSUME NEW t \in 0 .. Horizon, NEW h \in 0 .. Hours - 1,
           NEW day \in 1 .. Longest,
           NEW c \in Candidates(h, t), NEW v \in InMonth(c, day, h, t)
    PROVE  \E m \in {Month[Day[t]], Month[Day[t]] + 1} :
               /\ m = Month[Day[c]]
               /\ m \in Months /\ m + 1 \in Months /\ (m + 1) + 1 \in Months
               /\ \E x \in Date(m, day, h) :
                      \/ x > t /\ v = x
                      \/ /\ x <= t
                         /\ v \in Date(Month[Day[x]] + 1, DayOfMonth(Day[x]), Hour[x])
                         /\ ~Skips(FirstDay[m] + day - 1, h) =>
                                m = Month[Day[t]] /\ v \in Date(m + 1, day, h)
  <1> DEFINE D == Day[t]
             M == Month[D]
             m == Month[Day[c]]
             e == FirstDay[m] + day - 1
  <1>1. /\ t \in Moments /\ t \in Nat /\ D \in Days /\ D \in Nat
        /\ D + 2 * (Longest + DaysPerWeek + 1) <= LastDay
        /\ DaysPerWeek \in Nat /\ Longest \in Nat /\ Longest > 2 /\ LastDay \in Nat
    BY Room, CalendarTypes, CalendarAssumption
  <1>2. /\ Day[c] \in Days /\ D <= Day[c] /\ Day[c] <= D + 2 /\ Day[c] \in Nat
    BY CandidateWithin, CalendarTypes
  <1>3. /\ M \in Months /\ m \in Months /\ M \in Nat /\ m \in Nat
        /\ FirstDay[m] <= Day[c] /\ FirstDay[m] \in Nat
        /\ D < FirstDay[M + 1] /\ FirstDay[M + 1] \in Nat
    BY <1>1, <1>2, MonthOf, MonthsType
  <1>4. M <= m
    BY <1>1, <1>2, MonthOrder
  <1>5. /\ m + 1 \in Months /\ FirstDay[m + 1] <= FirstDay[m] + Longest
        /\ FirstDay[m + 1] \in Nat
    <2>1. FirstDay[m] + Longest <= LastDay
      <3> HIDE DEF m, D
      <3> QED  BY <1>1, <1>2, <1>3
    <2>2. m + 1 \in Months /\ FirstDay[m + 1] <= FirstDay[m] + Longest
      BY <1>3, <2>1, NextMonth
    <2> QED  BY <2>2, MonthsType
  <1>6. (m + 1) + 1 \in Months
    <2>1. FirstDay[m + 1] + Longest <= LastDay
      <3> HIDE DEF m, D
      <3> QED  BY <1>1, <1>2, <1>3, <1>5
    <2> QED  BY <1>5, <2>1, NextMonth
  <1>7. m \in {M, M + 1}
    <2> SUFFICES ASSUME M + 2 <= m PROVE FALSE
      <3> HIDE DEF m, M
      <3> QED  BY <1>3, <1>4
    <2> HIDE DEF m, M, D
    <2>1. /\ M + 1 \in Nat /\ m \in DOMAIN FirstDay
      BY <1>3, MonthsType
    <2>2. M + 1 \in Months /\ (M + 1) + 1 \in DOMAIN FirstDay
      BY <1>3 DEF Months
    <2>3. FirstDay[(M + 1) + 1] <= FirstDay[m] /\ FirstDay[(M + 1) + 1] \in Nat
      <3>1. (M + 1) + 1 <= m
        BY <1>3
      <3>2. (M + 1) + 1 \in DOMAIN FirstDay
        BY <2>2, MonthsType
      <3> QED  BY <2>1, <3>1, <3>2, FirstDayOrder
    <2>4. Longest < 2 * MonthLength(M + 1)
      BY <2>2, CalendarAssumption
    <2>5. FirstDay[(M + 1) + 1] >= FirstDay[M + 1] + 2
      BY <1>1, <1>3, <2>3, <2>4 DEF MonthLength
    <2> QED  BY <1>1, <1>2, <1>3, <2>3, <2>5
  <1>8. /\ e \in Days /\ e \in Nat /\ FirstDay[m] <= e
        /\ Month[e] \in {m, m + 1}
        /\ Month[e] = m => DayOfMonth(e) = day
    BY <1>3, <1>5, CarriedDay
  <1>9. PICK x \in Date(m, day, h) :
            v \in IF x > t THEN {x}
                  ELSE Date(Month[Day[x]] + 1, DayOfMonth(Day[x]), Hour[x])
    <2> HIDE DEF m
    <2> QED  BY DEF InMonth, m
  <1>10. x \in Moments /\ x \in Int
    BY <1>3, <1>5, <1>9, DateWithin, DayOf
  <1>11. CASE x > t
    BY <1>3, <1>5, <1>6, <1>7, <1>9, <1>11
  <1>12. CASE ~(x > t)
    <2>1. x <= t
      BY <1>1, <1>10, <1>12
    <2>2. v \in Date(Month[Day[x]] + 1, DayOfMonth(Day[x]), Hour[x])
      BY <1>9, <1>12
    <2>3. ASSUME ~Skips(e, h)
          PROVE  m = M /\ v \in Date(m + 1, day, h)
      <3>1. Day[x] = e /\ Hour[x] = h
        <4>1. x \in OnDay(e, h)
          BY <1>9 DEF Date
        <4> HIDE DEF e
        <4> QED  BY <1>8, <2>3, <4>1, OnDayWithin
      <3>2. e <= D
        BY <1>1, <1>10, <2>1, <3>1, DayOrder
      <3>3. Month[e] <= M
        BY <1>1, <1>8, <3>2, MonthOrder
      <3>4. m = M /\ Month[e] = m
        <4> HIDE DEF m, M, e
        <4> QED  BY <1>3, <1>4, <1>8, <3>3
      <3>5. DayOfMonth(e) = day
        BY <1>8, <3>4
      <3>6. v \in Date(m + 1, day, h)
        BY <2>2, <3>1, <3>4, <3>5
      <3> QED  BY <3>4, <3>6
    <2> HIDE DEF m, M, e
    <2> QED  BY <1>3, <1>5, <1>6, <1>7, <1>9, <2>1, <2>2, <2>3 DEF m, M, e
  <1> QED  BY <1>11, <1>12

\* While they do not change, and for a day that every month has, the planner
\* finds the first such hour of that day of the month.
LEMMA MonthlyFirst ==
    ASSUME NEW t \in 0 .. Horizon, NEW h \in 0 .. Hours - 1,
           NEW day \in 1 .. Longest, \A m \in Months : day <= MonthLength(m),
           NEW c \in Candidates(h, t), NEW v \in InMonth(c, day, h, t),
           Steady(FirstDay[Month[Day[t]]], Day[v]), ~Skips(Day[v] + 1, h)
    PROVE  /\ v > t /\ Hour[v] = h /\ DayOfMonth(Day[v]) = day
           /\ \A u \in t + 1 .. v - 1 : ~(Hour[u] = h /\ DayOfMonth(Day[u]) = day)
  <1> DEFINE D == Day[t]
             M == Month[D]
             F == FirstDay[M]
  <1>1. /\ t \in Moments /\ t \in Nat /\ D \in Days /\ D \in Nat
        /\ M \in Months /\ M \in Nat /\ F <= D /\ F \in Nat
        /\ D < FirstDay[M + 1] /\ FirstDay[M + 1] \in Nat
    BY Room, MonthOf, MonthsType
  <1>2. PICK m \in {M, M + 1} :
               /\ m = Month[Day[c]]
               /\ m \in Months /\ m + 1 \in Months /\ (m + 1) + 1 \in Months
               /\ \E x \in Date(m, day, h) :
                      \/ x > t /\ v = x
                      \/ /\ x <= t
                         /\ v \in Date(Month[Day[x]] + 1, DayOfMonth(Day[x]), Hour[x])
                         /\ ~Skips(FirstDay[m] + day - 1, h) =>
                                m = M /\ v \in Date(m + 1, day, h)
    BY MonthlyDate
  <1> DEFINE e == FirstDay[m] + day - 1
             g == FirstDay[m + 1] + day - 1
  <1>3. PICK x \in Date(m, day, h) :
            \/ x > t /\ v = x
            \/ /\ x <= t
               /\ v \in Date(Month[Day[x]] + 1, DayOfMonth(Day[x]), Hour[x])
               /\ ~Skips(e, h) => m = M /\ v \in Date(m + 1, day, h)
    BY <1>2
  <1>4. /\ e \in Days /\ e \in Nat /\ FirstDay[m] <= e /\ Month[e] = m
        /\ DayOfMonth(e) = day /\ FirstDay[m] \in Nat /\ m \in Nat
    <2>1. day <= MonthLength(m)
      BY <1>2
    <2>2. /\ e \in Days /\ e \in Nat /\ FirstDay[m] <= e /\ Month[e] = m
          /\ Month[e] = m => DayOfMonth(e) = day
      BY <1>2, <2>1, CarriedDay
    <2>3. FirstDay[m] \in Nat /\ m \in Nat
      BY <1>2, MonthsType
    <2> QED  BY <2>2, <2>3
  <1>5. /\ g \in Days /\ g \in Nat /\ FirstDay[m + 1] <= g /\ Month[g] = m + 1
        /\ DayOfMonth(g) = day /\ FirstDay[m + 1] \in Nat
    <2>1. day <= MonthLength(m + 1)
      BY <1>2
    <2>2. /\ g \in Days /\ g \in Nat /\ FirstDay[m + 1] <= g /\ Month[g] = m + 1
          /\ Month[g] = m + 1 => DayOfMonth(g) = day
      BY <1>2, <2>1, CarriedDay
    <2>3. FirstDay[m + 1] \in Nat
      BY <1>2, MonthsType
    <2> QED  BY <2>2, <2>3
  <1>6. F <= FirstDay[m]
    <2>1. M \in DOMAIN FirstDay /\ m \in DOMAIN FirstDay
      BY <1>1, <1>2, MonthsType
    <2>2. M <= m
      <3> HIDE DEF M
      <3> QED  BY <1>1, <1>2
    <2> QED  BY <2>1, <2>2, FirstDayOrder
  <1>7. \A y \in F .. Day[v] : y \notin Spring \cup Fall
    BY Zenon DEF Steady
  <1>12. /\ x \in Moments /\ x \in Int /\ Day[x] \in Days /\ Day[x] \in Nat
         /\ e - 1 <= Day[x]
    <2>1. /\ x \in Moments /\ Day[x] \in Days /\ Day[x] \in Nat
          /\ FirstDay[m] + day - 2 <= Day[x]
      BY <1>2, <1>3, DateWithin
    <2> QED  BY <1>4, <2>1, DayOf, CalendarTypes
  <1>13. v \in Moments /\ Day[v] \in Nat /\ e - 1 <= Day[v]
    <2>1. CASE x > t /\ v = x
      BY <1>12, <2>1
    <2>2. CASE x <= t /\ v \in Date(Month[Day[x]] + 1, DayOfMonth(Day[x]), Hour[x])
      <3> DEFINE n == Month[Day[x]]
                 k == DayOfMonth(Day[x])
      <3>1. /\ n \in Months /\ n \in Nat /\ FirstDay[n] \in Nat /\ FirstDay[n + 1] \in Nat
            /\ FirstDay[n] <= Day[x] /\ Day[x] < FirstDay[n + 1]
            /\ k = Day[x] - FirstDay[n] + 1
        BY <1>12, MonthOf, MonthsType
      <3>2. k \in 1 .. Longest
        <4>1. MonthLength(n) <= Longest /\ Longest \in Nat
          BY <3>1, CalendarAssumption
        <4> HIDE DEF n, k
        <4> QED  BY <1>12, <3>1, <4>1 DEF MonthLength
      <3>3. n + 1 \in Months /\ (n + 1) + 1 \in Months
        <4>1. n <= M
          <5>1. Day[x] <= D
            BY <1>1, <1>12, <2>2, DayOrder
          <5> QED  BY <1>1, <1>12, <5>1, MonthOrder
        <4>2. M <= m
          <5>1. m = M \/ m = M + 1
            BY <1>2
          <5> HIDE DEF M
          <5> QED  BY <1>1, <5>1
        <4>3. Len(FirstDay) \in Nat
          BY MonthsType
        <4>4. (m + 1) + 1 <= Len(FirstDay) - 1
          BY <1>2, <1>4, <4>3 DEF Months
        <4>5. M \in Nat /\ m \in Nat /\ n \in Nat /\ n >= 1
          BY <1>1, <1>4, <3>1 DEF Months
        <4> HIDE DEF n, M
        <4> QED  BY <4>1, <4>2, <4>3, <4>4, <4>5 DEF Months
      <3>4. /\ v \in Moments /\ Day[v] \in Nat
            /\ FirstDay[n + 1] + k - 2 <= Day[v]
        <4>1. v \in Date(n + 1, k, Hour[x]) /\ Hour[x] \in 0 .. Hours - 1
          BY <1>12, <2>2, HourOf
        <4> HIDE DEF n, k
        <4> QED  BY <3>2, <3>3, <4>1, DateWithin
      <3>5. e - 1 <= Day[v]
        <4>1. k \in Nat /\ k >= 1
          BY <3>2, CalendarTypes
        <4>2. e \in Nat /\ e - 1 <= Day[x] /\ Day[x] \in Nat
          BY <1>4, <1>12
        <4>3. Day[x] < FirstDay[n + 1] /\ FirstDay[n + 1] \in Nat
          BY <3>1
        <4> HIDE DEF n, k, e
        <4> QED  BY <3>4, <4>1, <4>2, <4>3
      <3> QED  BY <3>4, <3>5
    <2> QED  BY <1>3, <2>1, <2>2
  <1>14. ASSUME NEW y \in Nat, F <= y, y - 1 <= Day[v]
         PROVE  ~Skips(y, h)
    <2> SUFFICES ASSUME Skips(y, h) PROVE FALSE
      OBVIOUS
    <2>1. y \in Spring
      BY DEF Skips
    <2>2. CASE y <= Day[v]
      <3>1. y \in F .. Day[v]
        BY <1>1, <1>13, <1>14, <2>2
      <3> QED  BY <1>7, <2>1, <3>1
    <2>3. CASE y = Day[v] + 1
      BY <2>3
    <2> QED  BY <1>13, <1>14, <2>2, <2>3
  <1>15. ~Skips(e, h)
    <2>1. F <= e
      <3> HIDE DEF e, F
      <3> QED  BY <1>1, <1>4, <1>6
    <2> HIDE DEF e
    <2> QED  BY <1>4, <1>13, <1>14, <2>1
  <1>16. Day[x] = e
    <2>1. x \in OnDay(e, h)
      BY <1>3 DEF Date
    <2> HIDE DEF e
    <2> QED  BY <1>4, <1>15, <2>1, OnDayWithin
  <1>9. \A y \in Days : DayOfMonth(y) = day => y = FirstDay[Month[y]] + day - 1
    <2> SUFFICES ASSUME NEW y \in Days, DayOfMonth(y) = day
                 PROVE  y = FirstDay[Month[y]] + day - 1
      OBVIOUS
    <2> QED  BY MonthOf
  <1>10. CASE x <= t /\ m = M /\ v \in Date(m + 1, day, h)
    <2>1. v \in OnDay(g, h)
      BY <1>10 DEF Date
    <2>2. v \in Moments /\ Day[v] = g /\ v \in Nat
      <3>1. FirstDay[m + 1] + day - 2 <= Day[v]
        BY <1>2, <1>10, DateWithin
      <3>2. F <= g /\ g - 1 <= Day[v]
        <4>1. FirstDay[m] < FirstDay[m + 1]
          BY <1>2, MonthsType
        <4>2. F <= g
          <5> HIDE DEF g, F
          <5> QED  BY <1>1, <1>4, <1>5, <1>6, <4>1
        <4>3. day \in Nat
          BY CalendarTypes
        <4> QED  BY <1>5, <1>13, <3>1, <4>2, <4>3
      <3> HIDE DEF g
      <3>3. ~Skips(g, h)
        BY <1>5, <1>14, <3>2
      <3> QED  BY <1>5, <2>1, <3>3, OnDayWithin, DayOf
    <2>3. e \notin Spring \cup Fall /\ g \notin Spring \cup Fall
      <3>1. e <= D
        BY <1>1, <1>10, <1>12, <1>16, DayOrder
      <3>2. e \in F .. g /\ g \in F .. g
        <4> HIDE DEF e, g, D, F, M
        <4> QED  BY <1>1, <1>4, <1>5, <1>6, <1>10, <3>1
      <3> HIDE DEF e, g, F
      <3> QED  BY <1>7, <2>2, <3>2
    <2>4. x = Midnight[e] + h
      <3>1. x \in OnDay(e, h)
        BY <1>3 DEF Date
      <3> HIDE DEF e
      <3> QED  BY <1>4, <2>3, <3>1, OnSteadyDay
    <2>5. v = Midnight[g] + h /\ Hour[v] = h
      <3> HIDE DEF g
      <3> QED  BY <1>5, <2>1, <2>3, OnSteadyDay
    <2>6. D < g
      <3> HIDE DEF D, g, M
      <3> QED  BY <1>1, <1>5, <1>10
    <2>7. v > t
      <3> SUFFICES ASSUME v <= t PROVE FALSE
        BY <1>1, <2>2
      <3>1. g <= D
        BY <1>1, <2>2, DayOrder
      <3> HIDE DEF g, D
      <3> QED  BY <1>1, <1>5, <2>6, <3>1
    <2>8. ASSUME NEW u \in t + 1 .. v - 1, Hour[u] = h, DayOfMonth(Day[u]) = day
          PROVE  FALSE
      <3>1. Steady(D, Day[v])
        <4>1. \A y \in D .. Day[v] : y \in F .. Day[v]
          <5> HIDE DEF D, F, M
          <5> QED  BY <1>1, <1>5, <2>2
        <4> QED  BY <1>7, <4>1, Zenon DEF Steady
      <3>2. /\ u \in Moments /\ u > t /\ u < v /\ u \in Int
            /\ D <= Day[u] /\ Day[u] <= g /\ Day[u] \in Days
            /\ u = Midnight[Day[u]] + h
        BY <1>1, <2>2, <2>8, <3>1, Between
      <3>3. M <= Month[Day[u]] /\ Month[Day[u]] <= m + 1
        BY <1>1, <1>5, <3>2, MonthOrder
      <3>9. Month[Day[u]] \in Nat
        BY <3>2, MonthOf, MonthsType
      <3>4. Month[Day[u]] = m \/ Month[Day[u]] = m + 1
        <4> DEFINE y == Month[Day[u]]
        <4>1. m <= y /\ y <= m + 1 /\ y \in Nat
          BY <1>10, <3>3, <3>9
        <4> HIDE DEF y
        <4>2. y = m \/ y = m + 1
          BY <1>4, <4>1
        <4> QED  BY <4>2 DEF y
      <3>5. Day[u] = e \/ Day[u] = g
        BY <1>9, <2>8, <3>2, <3>4
      <3> HIDE DEF e, g
      <3>6. u = x \/ u = v
        BY <2>4, <2>5, <3>2, <3>5
      <3> QED  BY <1>1, <1>10, <1>12, <2>2, <3>2, <3>6
    <2>9. DayOfMonth(Day[v]) = day
      BY <1>5, <2>2
    <2> QED  BY <2>5, <2>7, <2>8, <2>9
  <1>11. CASE x > t /\ v = x
    <2>1. v \in Moments /\ Day[v] = e /\ v > t /\ v \in Nat
      BY <1>11, <1>12, <1>16, DayOf
    <2>2. e \notin Spring \cup Fall
      <3>1. e \in F .. e
        <4> HIDE DEF e, F
        <4> QED  BY <1>1, <1>4, <1>6
      <3> HIDE DEF e, F
      <3> QED  BY <1>7, <2>1, <3>1
    <2>3. v = Midnight[e] + h /\ Hour[v] = h
      <3>1. v \in OnDay(e, h)
        BY <1>3, <1>11 DEF Date
      <3> HIDE DEF e
      <3> QED  BY <1>4, <2>2, <3>1, OnSteadyDay
    <2>4. D <= e
      <3>1. t <= v
        BY <1>1, <2>1
      <3> QED  BY <1>1, <2>1, <3>1, DayOrder
    <2>5. ASSUME NEW u \in t + 1 .. v - 1, Hour[u] = h, DayOfMonth(Day[u]) = day
          PROVE  FALSE
      <3>1. Steady(D, Day[v])
        <4>1. \A y \in D .. Day[v] : y \in F .. Day[v]
          <5> HIDE DEF D, F, M, e
          <5> QED  BY <1>1, <1>4, <2>1
        <4> QED  BY <1>7, <4>1, Zenon DEF Steady
      <3>2. /\ u \in Moments /\ u > t /\ u < v /\ u \in Int
            /\ D <= Day[u] /\ Day[u] <= e /\ Day[u] \in Days /\ Day[u] \in Nat
            /\ u = Midnight[Day[u]] + h
        BY <1>1, <2>1, <2>5, <3>1, Between, CalendarTypes
      <3>3. M <= Month[Day[u]] /\ Month[Day[u]] <= m /\ Month[Day[u]] \in Nat
        BY <1>1, <1>4, <3>2, MonthOrder, MonthOf, MonthsType
      <3>4. CASE Month[Day[u]] = m
        <4>1. Day[u] = e
          BY <1>9, <2>5, <3>2, <3>4
        <4>2. u = v
          <5> HIDE DEF e
          <5> QED  BY <2>3, <3>2, <4>1
        <4> QED  BY <2>1, <3>2, <4>2
      <3>5. CASE Month[Day[u]] /= m
        <4>1. Month[Day[u]] < m
          <5> DEFINE y == Month[Day[u]]
          <5>1. y <= m /\ y /= m /\ y \in Nat
            BY <3>3, <3>5
          <5> HIDE DEF y
          <5>2. y < m
            BY <1>4, <5>1
          <5> QED  BY <5>2 DEF y
        <4>2. D \notin Spring \cup Fall
          <5>1. D \in F .. e
            <6> HIDE DEF e, F, D, M
            <6> QED  BY <1>1, <1>4, <2>4
          <5> HIDE DEF e, F, D
          <5> QED  BY <1>7, <2>1, <5>1
        <4>3. PICK d \in {D, D + 1} :
                /\ d \in Days /\ c = Midnight[d] + h
                /\ \A z \in Moments :
                       z > t /\ Hour[z] = h /\ Day[z] \notin Spring \cup Fall
                       => d <= Day[z]
          BY <4>2, CandidateFirst
        <4>4. Day[u] \notin Spring \cup Fall
          <5>1. Day[u] \in F .. e
            <6> HIDE DEF e, F, D, M
            <6> QED  BY <1>1, <1>4, <3>2
          <5> HIDE DEF e, F
          <5> QED  BY <1>7, <2>1, <5>1
        <4>5. d <= Day[u] /\ d \in Nat /\ D <= d
          <5>1. d <= Day[u]
            BY <2>5, <3>2, <4>3, <4>4
          <5> HIDE DEF D
          <5> QED  BY <1>1, <4>3, <5>1, CalendarTypes
        <4>6. d \notin Spring \cup Fall
          <5>1. d \in F .. e
            <6> HIDE DEF e, F, D, M
            <6> QED  BY <1>1, <1>4, <3>2, <4>5
          <5> HIDE DEF e, F
          <5> QED  BY <1>7, <2>1, <5>1
        <4>7. Day[c] = d
          BY <4>3, <4>6, OnSteadyDay
        <4>8. m <= Month[Day[u]]
          BY <1>2, <3>2, <4>3, <4>5, <4>7, MonthOrder
        <4> QED  BY <1>4, <3>3, <4>1, <4>8
      <3> QED  BY <3>4, <3>5
    <2>6. DayOfMonth(Day[v]) = day
      BY <1>4, <2>1
    <2> QED  BY <2>1, <2>3, <2>5, <2>6
  <1> QED  BY <1>3, <1>10, <1>11, <1>15

\* Whatever the clocks do, a monthly run is at most two months away, and unless
\* they skip its hour it is what time.Date makes of its day in some month.
LEMMA MonthlyBound ==
    ASSUME NEW t \in 0 .. Horizon, NEW h \in 0 .. Hours - 1,
           NEW day \in 1 .. Longest,
           NEW c \in Candidates(h, t), NEW v \in InMonth(c, day, h, t)
    PROVE  /\ Month[Day[v]] <= Month[Day[t]] + 2
           /\ \/ \E m \in {Month[Day[t]], Month[Day[t]] + 1} :
                     Skips(FirstDay[m] + day - 1, h)
              \/ \E m \in Months : v \in Date(m, day, h)
  <1> DEFINE M == Month[Day[t]]
  <1>1. M \in Months /\ M \in Nat /\ Day[t] \in Days /\ t \in Moments
    BY Room, MonthOf, MonthsType
  <1>2. PICK m \in {M, M + 1} :
               /\ m \in Months /\ m + 1 \in Months /\ (m + 1) + 1 \in Months
               /\ \E x \in Date(m, day, h) :
                      \/ x > t /\ v = x
                      \/ /\ x <= t
                         /\ v \in Date(Month[Day[x]] + 1, DayOfMonth(Day[x]), Hour[x])
                         /\ ~Skips(FirstDay[m] + day - 1, h) =>
                                m = M /\ v \in Date(m + 1, day, h)
    BY MonthlyDate
  <1>3. PICK x \in Date(m, day, h) :
            \/ x > t /\ v = x
            \/ /\ x <= t
               /\ v \in Date(Month[Day[x]] + 1, DayOfMonth(Day[x]), Hour[x])
               /\ ~Skips(FirstDay[m] + day - 1, h) =>
                      m = M /\ v \in Date(m + 1, day, h)
    BY <1>2
  <1>4. /\ x \in Moments /\ Day[x] \in Days /\ Day[x] \in Nat
        /\ Month[Day[x]] <= m + 1
    BY <1>2, <1>3, DateWithin
  <1>5. \/ \E n \in {M, M + 1} : Skips(FirstDay[n] + day - 1, h)
        \/ \E n \in Months : v \in Date(n, day, h)
    BY <1>2, <1>3
  <1>6. m \in Nat /\ M <= m /\ m <= M + 1
    BY <1>1, <1>2
  <1>7. CASE v = x
    <2>1. Month[Day[x]] \in Nat
      BY <1>4, MonthOf, MonthsType
    <2>2. Month[Day[x]] <= M + 2
      <3> HIDE DEF M
      <3> QED  BY <1>1, <1>4, <1>6, <2>1
    <2> QED  BY <1>5, <1>7, <2>2
  <1>8. CASE x <= t /\ v \in Date(Month[Day[x]] + 1, DayOfMonth(Day[x]), Hour[x])
    <2> DEFINE n == Month[Day[x]]
               k == DayOfMonth(Day[x])
    <2>1. /\ n \in Months /\ n \in Nat /\ FirstDay[n] \in Nat /\ FirstDay[n + 1] \in Nat
          /\ FirstDay[n] <= Day[x] /\ Day[x] < FirstDay[n + 1]
          /\ k = Day[x] - FirstDay[n] + 1
      BY <1>4, MonthOf, MonthsType
    <2>2. k \in 1 .. Longest
      <3>1. MonthLength(n) <= Longest /\ Longest \in Nat
        BY <2>1, CalendarAssumption
      <3> HIDE DEF n, k
      <3> QED  BY <1>4, <2>1, <3>1 DEF MonthLength
    <2>3. n <= M
      <3>1. Day[x] <= Day[t]
        BY <1>1, <1>4, <1>8, DayOrder
      <3> QED  BY <1>1, <1>4, <3>1, MonthOrder
    <2>4. n + 1 \in Months /\ (n + 1) + 1 \in Months
      <3>1. Len(FirstDay) \in Nat
        BY MonthsType
      <3> HIDE DEF n, M
      <3> QED  BY <1>1, <1>2, <1>6, <2>1, <2>3, <3>1 DEF Months
    <2>5. Month[Day[v]] <= (n + 1) + 1 /\ Day[v] \in Days
      <3>1. v \in Date(n + 1, k, Hour[x]) /\ Hour[x] \in 0 .. Hours - 1
        BY <1>4, <1>8, HourOf
      <3> HIDE DEF n, k
      <3> QED  BY <2>2, <2>4, <3>1, DateWithin
    <2>6. Month[Day[v]] <= M + 2
      <3>1. Month[Day[v]] \in Nat
        BY <2>5, MonthOf, MonthsType
      <3> HIDE DEF n, M
      <3> QED  BY <1>1, <2>1, <2>3, <2>5, <3>1
    <2> QED  BY <1>5, <2>6
  <1> QED  BY <1>3, <1>7, <1>8

-----------------------------------------------------------------------------
(* What a client's schedule gets.                                          *)

\* An absent day is none of those that the code accepts.
LEMMA NoneIsNoDay == None \notin 0 .. DaysPerWeek - 1 /\ None \notin 1 .. Longest
  <1>1. DaysPerWeek \in Nat /\ Longest \in Nat
    BY CalendarTypes
  <1>2. 0 .. DaysPerWeek - 1 \subseteq Int /\ 1 .. Longest \subseteq Int
    BY <1>1
  <1> QED  BY <1>2, ScheduleAssumption

\* Today is no earlier than the beginning of the month.
LEMMA SteadyFromToday ==
    ASSUME NEW t \in 0 .. Horizon, NEW v \in Moments,
           Steady(FirstDay[Month[Day[t]]], Day[v])
    PROVE  Steady(Day[t], Day[v])
  <1> DEFINE D == Day[t]
             F == FirstDay[Month[D]]
             E == Day[v]
  <1>1. F <= D /\ D \in Nat /\ F \in Nat /\ E \in Nat
    BY Room, MonthOf, DayOf, CalendarTypes
  <1> HIDE DEF D, F, E
  <1>2. \A y \in D .. E : y \in F .. E
    BY <1>1
  <1> QED  BY <1>2, Zenon DEF Steady, D, E, F

\* What CalculateNextRunAt answers for a calendar schedule, case by case.
LEMMA PlannedFrom ==
    ASSUME NEW s \in Schedules, NEW t \in 0 .. Horizon, s.type \in Calendar,
           NEW next \in NextRun[s][t], next /= None
    PROVE  /\ s.hour \in 0 .. Hours - 1
           /\ \/ /\ s.type = "daily" \/ s.day = None
                 /\ next \in Candidates(s.hour, t)
              \/ /\ s.type = "weekly" /\ s.day /= None
                 /\ s.day \in 0 .. DaysPerWeek - 1
                 /\ \E c \in Candidates(s.hour, t) : next = OnWeekday(c, s.day)
              \/ /\ s.type = "monthly" /\ s.day /= None
                 /\ s.day \in 1 .. Longest
                 /\ \E c \in Candidates(s.hour, t) : next \in InMonth(c, s.day, s.hour, t)
  <1>1. NextRun[s][t] = CalculateNextRunAt(s, t)
    BY DEF NextRun
  <1>2. next \in CalcCronLike(s, t)
    <2>1. s.type /= "interval" /\ s.type /= "one_time"
      BY DEF Calendar
    <2> QED  BY <1>1, <2>1, Zenon DEF CalculateNextRunAt
  <1>3. s.hour \in 0 .. Hours - 1
    <2>1. s.hour \notin 0 .. Hours - 1 => CalcCronLike(s, t) = {None}
      BY Zenon DEF CalcCronLike
    <2> QED  BY <1>2, <2>1, Zenon
  <1>4. CASE s.type = "daily" \/ s.day = None
    <2>1. ~(s.type = "weekly" /\ s.day \in 0 .. DaysPerWeek - 1)
      BY <1>4, NoneIsNoDay, Zenon
    <2>2. ~(s.type = "monthly" /\ s.day \in 1 .. Longest)
      BY <1>4, NoneIsNoDay, Zenon
    <2>3. CalcCronLike(s, t) = Candidates(s.hour, t)
      BY <1>3, <1>4, <2>1, <2>2, Zenon DEF CalcCronLike
    <2>4. next \in Candidates(s.hour, t)
      BY <1>2, <2>3, Zenon
    <2> QED  BY <1>3, <1>4, <2>4, Zenon
  <1>5. CASE ~(s.type = "daily" \/ s.day = None) /\ s.type = "weekly"
    <2>1. s.type /= "monthly"
      BY <1>5
    <2>2. s.day \in 0 .. DaysPerWeek - 1
      BY <1>2, <1>3, <1>5, <2>1, Zenon DEF CalcCronLike
    <2>3. CalcCronLike(s, t) = {OnWeekday(c, s.day) : c \in Candidates(s.hour, t)}
      BY <1>3, <1>5, <2>1, <2>2, Zenon DEF CalcCronLike
    <2>4. \E c \in Candidates(s.hour, t) : next = OnWeekday(c, s.day)
      BY <1>2, <2>3, Zenon
    <2> QED  BY <1>3, <1>5, <2>2, <2>4, Zenon
  <1>6. CASE ~(s.type = "daily" \/ s.day = None) /\ s.type = "monthly"
    <2>1. s.type /= "weekly"
      BY <1>6
    <2>2. s.day \in 1 .. Longest
      BY <1>2, <1>3, <1>6, <2>1, Zenon DEF CalcCronLike
    <2>3. CalcCronLike(s, t)
             = UNION {InMonth(c, s.day, s.hour, t) : c \in Candidates(s.hour, t)}
      BY <1>3, <1>6, <2>1, <2>2, Zenon DEF CalcCronLike
    <2>4. \E c \in Candidates(s.hour, t) : next \in InMonth(c, s.day, s.hour, t)
      BY <1>2, <2>3, Zenon
    <2> QED  BY <1>3, <1>6, <2>2, <2>4, Zenon
  <1>7. s.type \in {"daily", "weekly", "monthly"}
    BY DEF Calendar
  <1> QED  BY <1>4, <1>5, <1>6, <1>7, Zenon

\* The answer is the first match after now.
LEMMA PlansFirstMatch ==
    ASSUME NEW s \in Schedules, NEW t \in 0 .. Horizon, s.type \in Calendar,
           NEW next \in NextRun[s][t], next /= None,
           EveryMonthHas(s), Steady(LooksFrom(s, t), Day[next]),
           ~Skips(Day[next] + 1, s.hour)
    PROVE  FirstMatch(s, t, next)
  <1>1. s.hour \in 0 .. Hours - 1
    BY PlannedFrom
  <1>2. CASE /\ s.type = "daily" \/ s.day = None
             /\ next \in Candidates(s.hour, t)
    <2>1. \A u : Matches(s, u) <=> Hour[u] = s.hour
      <3>1. /\ ~(s.type = "weekly" /\ s.day /= None)
            /\ ~(s.type = "monthly" /\ s.day /= None)
        BY <1>2
      <3> QED  BY <3>1, Zenon DEF Matches
    <2>2. Steady(Day[t], Day[next])
      <3>1. LooksFrom(s, t) = Day[t] \/ LooksFrom(s, t) = FirstDay[Month[Day[t]]]
        BY Zenon DEF LooksFrom
      <3>2. next \in Candidates(s.hour, t)
        BY <1>2, Zenon
      <3>3. next \in Moments
        BY <1>1, <3>2, CandidateWithin
      <3> QED  BY <3>1, <3>3, SteadyFromToday, Zenon
    <2>3. /\ next > t /\ Hour[next] = s.hour
          /\ \A u \in t + 1 .. next - 1 : Hour[u] /= s.hour
      <3>1. next \in Candidates(s.hour, t)
        BY <1>2, Zenon
      <3> QED  BY <1>1, <2>2, <3>1, DailyFirst
    <2> QED  BY <2>1, <2>3, Zenon DEF FirstMatch
  <1>3. CASE /\ s.type = "weekly" /\ s.day /= None
             /\ s.day \in 0 .. DaysPerWeek - 1
             /\ \E c \in Candidates(s.hour, t) : next = OnWeekday(c, s.day)
    <2>1. \A u : Matches(s, u) <=> Hour[u] = s.hour /\ Weekday(Day[u]) = s.day
      <3>1. ~(s.type = "monthly" /\ s.day /= None)
        BY <1>3
      <3> QED  BY <1>3, <3>1, Zenon DEF Matches
    <2>2. Steady(Day[t], Day[next])
      <3>1. LooksFrom(s, t) = Day[t]
        BY <1>3 DEF LooksFrom
      <3> QED  BY <3>1
    <2>3. PICK c \in Candidates(s.hour, t) : next = OnWeekday(c, s.day)
      BY <1>3
    <2>4. /\ next > t /\ Hour[next] = s.hour /\ Weekday(Day[next]) = s.day
          /\ \A u \in t + 1 .. next - 1 :
                 ~(Hour[u] = s.hour /\ Weekday(Day[u]) = s.day)
      <3>1. s.day \in 0 .. DaysPerWeek - 1
        BY <1>3, Zenon
      <3> QED  BY <1>1, <2>2, <2>3, <3>1, WeeklyFirst
    <2> QED  BY <2>1, <2>4, Zenon DEF FirstMatch
  <1>4. CASE /\ s.type = "monthly" /\ s.day /= None
             /\ s.day \in 1 .. Longest
             /\ \E c \in Candidates(s.hour, t) : next \in InMonth(c, s.day, s.hour, t)
    <2>1. \A u : Matches(s, u) <=> Hour[u] = s.hour /\ DayOfMonth(Day[u]) = s.day
      <3>1. ~(s.type = "weekly" /\ s.day /= None)
        BY <1>4
      <3> QED  BY <1>4, <3>1, Zenon DEF Matches
    <2>2. Steady(FirstDay[Month[Day[t]]], Day[next])
      BY <1>4 DEF LooksFrom
    <2>3. PICK c \in Candidates(s.hour, t) : next \in InMonth(c, s.day, s.hour, t)
      BY <1>4
    <2>4. \A m \in Months : s.day <= MonthLength(m)
      BY <1>4, Zenon DEF EveryMonthHas
    <2>5. /\ next > t /\ Hour[next] = s.hour /\ DayOfMonth(Day[next]) = s.day
          /\ \A u \in t + 1 .. next - 1 :
                 ~(Hour[u] = s.hour /\ DayOfMonth(Day[u]) = s.day)
      <3>1. s.day \in 1 .. Longest
        BY <1>4, Zenon
      <3> QED  BY <1>1, <2>2, <2>3, <2>4, <3>1, MonthlyFirst
    <2> QED  BY <2>1, <2>5, Zenon DEF FirstMatch
  <1> QED  BY <1>2, <1>3, <1>4, PlannedFrom, Zenon

\* The answer is not farther away than a cycle allows.
LEMMA PlansWithinCycle ==
    ASSUME NEW s \in Schedules, NEW t \in 0 .. Horizon, s.type \in Calendar,
           NEW next \in NextRun[s][t], next /= None
    PROVE  WithinCycle(s, t, next)
  <1>1. s.hour \in 0 .. Hours - 1
    BY PlannedFrom
  <1>2. CASE /\ s.type = "daily" \/ s.day = None
             /\ next \in Candidates(s.hour, t)
    <2>1. next <= t + Hours
      <3>1. next \in Candidates(s.hour, t)
        BY <1>2, Zenon
      <3> QED  BY <1>1, <3>1, CandidateWithin
    <2>2. /\ ~(s.type = "weekly" /\ s.day /= None)
          /\ ~(s.type = "monthly" /\ s.day /= None)
      BY <1>2
    <2> QED  BY <2>1, <2>2, Zenon DEF WithinCycle
  <1>3. CASE /\ s.type = "weekly" /\ s.day /= None
             /\ s.day \in 0 .. DaysPerWeek - 1
             /\ \E c \in Candidates(s.hour, t) : next = OnWeekday(c, s.day)
    <2>1. next <= t + 2 * DaysPerWeek * Hours
      <3>1. /\ s.day \in 0 .. DaysPerWeek - 1
            /\ \E c \in Candidates(s.hour, t) : next = OnWeekday(c, s.day)
        BY <1>3, Zenon
      <3> QED  BY <1>1, <3>1, WeeklyBound
    <2>2. s.type /= "daily" /\ s.type /= "monthly"
      BY <1>3
    <2> QED  BY <1>3, <2>1, <2>2, Zenon DEF WithinCycle
  <1>4. CASE /\ s.type = "monthly" /\ s.day /= None
             /\ s.day \in 1 .. Longest
             /\ \E c \in Candidates(s.hour, t) : next \in InMonth(c, s.day, s.hour, t)
    <2>1. /\ Month[Day[next]] <= Month[Day[t]] + 2
          /\ HourIsSkipped(s, t) \/ \E m \in Months : next \in Date(m, s.day, s.hour)
      <3>1. /\ s.day \in 1 .. Longest
            /\ \E c \in Candidates(s.hour, t) : next \in InMonth(c, s.day, s.hour, t)
        BY <1>4, Zenon
      <3> QED  BY <1>1, <3>1, MonthlyBound DEF HourIsSkipped
    <2>2. s.type /= "daily" /\ s.type /= "weekly"
      BY <1>4
    <2> QED  BY <1>4, <2>1, <2>2, Zenon DEF WithinCycle
  <1> QED  BY <1>2, <1>3, <1>4, PlannedFrom, Zenon

\* A step that plans has saved a client's schedule.
LEMMA PlansByTheClient ==
    ASSUME WithinHorizon, [PlanNext]_planVars, Plans
    PROVE  /\ row'.schedule \in Schedules /\ now \in 0 .. Horizon
           /\ row'.schedule.type \in Calendar /\ row'.next /= None
           /\ row'.next \in NextRun[row'.schedule][now]
  <1>1. \E s \in Schedules : Save(s)
    BY DEF Plans, PlanNext, planVars, Post, Patch, Delete, HourPasses
  <1>2. PICK s \in Schedules : Save(s)
    BY <1>1
  <1>3. PICK next \in NextRun[s][now] : row' = [schedule |-> s, next |-> next]
    BY <1>2 DEF Save
  <1>4. row'.schedule = s /\ row'.next = next
    BY <1>3
  <1> QED  BY <1>3, <1>4, Zenon DEF Plans, WithinHorizon

\* While the clocks do not change, a saved check is planned for the first
\* moment after the present that its expression names.
THEOREM PlannedForFirstMatchHolds == PlanSpec => PlannedForFirstMatch
  <1>1. WithinHorizon /\ [PlanNext]_planVars => FirstMatchStep
    <2> SUFFICES ASSUME WithinHorizon, [PlanNext]_planVars, Plans,
                        EveryMonthHas(row'.schedule),
                        Steady(LooksFrom(row'.schedule, now), Day[row'.next]),
                        ~Skips(Day[row'.next] + 1, row'.schedule.hour)
                 PROVE  FirstMatch(row'.schedule, now, row'.next)
      BY DEF FirstMatchStep
    <2> QED  BY PlansByTheClient, PlansFirstMatch
  <1> QED  BY <1>1, PlanInvariance, PTL DEF PlanSpec, PlannedForFirstMatch

\* Where the clocks change by an hour, at most once in two weeks, a saved check
\* waits a day, two weeks or until the end of the month after next; and unless
\* they skip its hour on its day of this month or the next, a monthly run is
\* what time.Date makes of its day and hour in some month.
THEOREM PlannedWithinCycleHolds == PlanSpec => PlannedWithinCycle
  <1>1. WithinHorizon /\ [PlanNext]_planVars => WithinCycleStep
    BY PlansByTheClient, PlansWithinCycle, Zenon DEF WithinCycleStep
  <1> QED  BY <1>1, PlanInvariance, PTL DEF PlanSpec, PlannedWithinCycle
=============================================================================
