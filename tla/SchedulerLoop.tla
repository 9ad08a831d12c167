---------------------------- MODULE SchedulerLoop ----------------------------
(***************************************************************************)
(* The worker process: RunSchedulerLoop of                                 *)
(* apps/worker/internal/scheduler_loop.go, the goroutines it starts, the   *)
(* shutdown of cmd/worker/main.go, and the API calls of                    *)
(* internal/scheduler/repository.go that change scheduled_checks meanwhile.*)
(*                                                                         *)
(* On a tick the loop reads the table, keeps the checks that are due, and  *)
(* starts one goroutine for each as soon as the semaphore has room.  It    *)
(* never writes next_run_at, so a check stays due until somebody PATCHes   *)
(* it.                                                                     *)
(***************************************************************************)
EXTENDS Integers, FiniteSets

CONSTANTS
    Check,        \* ids of scheduled checks
    Goroutine,    \* identities of the goroutines that run jobs
    Inputs,       \* rows that the API writes: an enabled flag and a next run
    Concurrency,  \* capacity of the semaphore
    MaxRuns,      \* bound: job_runs rows counted for a check
    NULL          \* no row, no check

ASSUME ConcurrencyAssumption == Concurrency \in Nat \ {0}

ASSUME MaxRunsAssumption == MaxRuns \in Nat

ASSUME GoroutineAssumption == IsFiniteSet(Goroutine)

VARIABLES
    table,    \* scheduled_checks: enabled, and where next_run_at lies
    running,  \* job_runs rows of each check with status running
    pc,       \* where the loop stands
    todo,     \* due checks of this tick that the loop has not reached
    cur,      \* the check whose goroutine waits for the semaphore
    jobs,     \* what each goroutine does, NULL before it starts and after it ends
    sem,      \* tokens in the semaphore channel
    wg,       \* counter of the WaitGroup
    db,       \* the connection pool is open
    proc      \* how far main has come

vars == <<table, running, pc, todo, cur, jobs, sem, wg, db, proc>>

\* next_run_at is NULL, in the future, or not after now.
Row == [enabled : BOOLEAN, next : {"never", "later", "due"}]

\* The planner's answer lies in the future, there is none, or it is already
\* past when the clocks go back (see Schedule).
ASSUME InputsAssumption == Inputs \subseteq Row

Job == [check : Check, stage : {"record", "handle", "leave"}]

ASSUME NullAssumption ==
    NULL \notin Check \cup Row \cup Job

Init ==
    /\ table \in [Check -> Inputs \cup {NULL}]
    /\ running = [c \in Check |-> 0]
    /\ pc = "select"
    /\ todo = {}
    /\ cur = NULL
    /\ jobs = [g \in Goroutine |-> NULL]
    /\ sem = 0
    /\ wg = 0
    /\ db = TRUE
    /\ proc = "up"

loop == <<pc, todo, cur>>
goroutines == <<jobs, sem, wg>>
main == <<db, proc>>

-----------------------------------------------------------------------------
(* The table, as operators and the clock change it.                        *)

Due(c) == table[c] /= NULL /\ table[c].enabled /\ table[c].next = "due"

\* CreateCheck: the schema accepts only the calendar schedules.
CreateCheck(c) ==
    /\ table[c] = NULL
    /\ \E in \in Inputs : table' = [table EXCEPT ![c] = in]
    /\ UNCHANGED <<running, loop, goroutines, main>>

\* UpdateCheck recomputes next_run_at from the present.
UpdateCheck(c) ==
    /\ table[c] /= NULL
    /\ \E in \in Inputs : table' = [table EXCEPT ![c] = in]
    /\ UNCHANGED <<running, loop, goroutines, main>>

\* ON DELETE SET NULL: the runs of a deleted check belong to no check.
DeleteCheck(c) ==
    /\ table[c] /= NULL
    /\ table' = [table EXCEPT ![c] = NULL]
    /\ running' = [running EXCEPT ![c] = 0]
    /\ UNCHANGED <<loop, goroutines, main>>

BecomeDue(c) ==
    /\ table[c] /= NULL
    /\ table[c].next = "later"
    /\ table' = [table EXCEPT ![c].next = "due"]
    /\ UNCHANGED <<running, loop, goroutines, main>>

-----------------------------------------------------------------------------
(* The loop.                                                               *)

Alive == proc /= "exited"

Cancelled == proc = "cancelled"

\* (Mutant) The tick does not look at the enabled flag.
TickDisabledToo ==
    /\ Alive
    /\ pc = "select"
    /\ db
    /\ todo' = {c \in Check : table[c] /= NULL /\ table[c].next = "due"}
    /\ pc' = "dispatch"
    /\ UNCHANGED <<table, running, cur, goroutines, main>>

\* A tick lists the table and keeps what is enabled and due.  When ListChecks
\* fails the tick is lost and nothing changes, which is a stuttering step.
Tick ==
    /\ Alive
    /\ pc = "select"
    /\ db
    /\ todo' = {c \in Check : Due(c)}
    /\ pc' = "dispatch"
    /\ UNCHANGED <<table, running, cur, goroutines, main>>

\* (Mutant) wg.Add(1) is left to the goroutine, which forgets it.
AddJobUncounted ==
    /\ Alive
    /\ pc = "dispatch"
    /\ \E c \in todo :
           /\ cur' = c
           /\ todo' = todo \ {c}
    /\ pc' = "acquire"
    /\ UNCHANGED <<table, running, jobs, sem, wg, main>>

\* wg.Add(1) comes before the send on the semaphore.
AddJob ==
    /\ Alive
    /\ pc = "dispatch"
    /\ \E c \in todo :
           /\ cur' = c
           /\ todo' = todo \ {c}
    /\ wg' = wg + 1
    /\ pc' = "acquire"
    /\ UNCHANGED <<table, running, jobs, sem, main>>

\* The loop blocks on a full semaphore; it does not look at the context here.
StartJob ==
    /\ Alive
    /\ pc = "acquire"
    /\ sem < Concurrency
    /\ sem' = sem + 1
    /\ \E g \in Goroutine :
           /\ jobs[g] = NULL
           /\ jobs' = [jobs EXCEPT ![g] = [check |-> cur, stage |-> "record"]]
    /\ cur' = NULL
    /\ pc' = "dispatch"
    /\ UNCHANGED <<table, running, todo, wg, main>>

EndTick ==
    /\ Alive
    /\ pc = "dispatch"
    /\ todo = {}
    /\ pc' = "select"
    /\ UNCHANGED <<table, running, todo, cur, goroutines, main>>

Drain ==
    /\ Alive
    /\ pc = "select"
    /\ Cancelled
    /\ pc' = "drain"
    /\ UNCHANGED <<table, running, todo, cur, goroutines, main>>

\* (Mutant) The loop returns without wg.Wait().
StopAtOnce ==
    /\ Alive
    /\ pc = "drain"
    /\ pc' = "stopped"
    /\ UNCHANGED <<table, running, todo, cur, goroutines, main>>

\* wg.Wait() returns when the counter is zero.
Stop ==
    /\ Alive
    /\ pc = "drain"
    /\ wg = 0
    /\ pc' = "stopped"
    /\ UNCHANGED <<table, running, todo, cur, goroutines, main>>

-----------------------------------------------------------------------------
(* The goroutines.                                                         *)

At(g, stage) == jobs[g] /= NULL /\ jobs[g].stage = stage

Advance(g, from, to) ==
    /\ Alive
    /\ At(g, from)
    /\ jobs' = [jobs EXCEPT ![g].stage = to]

\* RecordJobRun's error is dropped: the handler runs with or without a row.
\* The row of a deleted check violates the foreign key.
Record(g) ==
    /\ Advance(g, "record", "handle")
    /\ LET c == jobs[g].check
       IN running' = IF db /\ table[c] /= NULL /\ running[c] < MaxRuns
                     THEN [running EXCEPT ![c] = @ + 1] ELSE running
    /\ UNCHANGED <<table, loop, sem, wg, main>>

RecordFails(g) ==
    /\ Advance(g, "record", "handle")
    /\ UNCHANGED <<table, running, loop, sem, wg, main>>

\* No handler, a result, an error or the timeout of the job's context: only
\* the log tells which, and the job_runs row stays as it is.
Handle(g) ==
    /\ Advance(g, "handle", "leave")
    /\ UNCHANGED <<table, running, loop, sem, wg, main>>

\* (Mutant) The token is not given back.
LeaveKeepingToken(g) ==
    /\ Alive
    /\ At(g, "leave")
    /\ jobs' = [jobs EXCEPT ![g] = NULL]
    /\ wg' = wg - 1
    /\ UNCHANGED <<table, running, loop, sem, main>>

\* (Mutant) wg.Done() runs twice.
LeaveTwice(g) ==
    /\ Alive
    /\ At(g, "leave")
    /\ jobs' = [jobs EXCEPT ![g] = NULL]
    /\ sem' = sem - 1
    /\ wg' = wg - 2
    /\ UNCHANGED <<table, running, loop, main>>

\* The deferred calls: the token goes back, then wg.Done().
Leave(g) ==
    /\ Alive
    /\ At(g, "leave")
    /\ jobs' = [jobs EXCEPT ![g] = NULL]
    /\ sem' = sem - 1
    /\ wg' = wg - 1
    /\ UNCHANGED <<table, running, loop, main>>

-----------------------------------------------------------------------------
(* main: a signal makes it return.  Its deferred calls close the pool and  *)
(* then cancel the context; it does not wait for the loop.                 *)

Signal ==
    /\ proc = "up"
    /\ proc' = "closing"
    /\ UNCHANGED <<table, running, loop, goroutines, db>>

CloseDB ==
    /\ proc = "closing"
    /\ db
    /\ db' = FALSE
    /\ UNCHANGED <<table, running, loop, goroutines, proc>>

Cancel ==
    /\ proc = "closing"
    /\ ~db
    /\ proc' = "cancelled"
    /\ UNCHANGED <<table, running, loop, goroutines, db>>

Exit ==
    /\ proc = "cancelled"
    /\ proc' = "exited"
    /\ UNCHANGED <<table, running, loop, goroutines, db>>

Operator(c) == CreateCheck(c) \/ UpdateCheck(c) \/ DeleteCheck(c) \/ BecomeDue(c)

Loop == Tick \/ AddJob \/ StartJob \/ EndTick \/ Drain \/ Stop

Run(g) == Record(g) \/ RecordFails(g) \/ Handle(g) \/ Leave(g)

Main == Signal \/ CloseDB \/ Cancel \/ Exit

Next ==
    \/ \E c \in Check : Operator(c)
    \/ \E g \in Goroutine : Run(g)
    \/ Loop
    \/ Main

Spec == Init /\ [][Next]_vars

\* The scheduler of the runtime runs the loop, the goroutines and main; the
\* timeout of a job's context ends its handler; the database answers a listing
\* sooner or later.  Nobody has to send a signal or edit a check.
FairSpec ==
    /\ Spec
    /\ WF_vars(Tick) /\ WF_vars(AddJob \/ StartJob \/ EndTick)
    /\ WF_vars(Drain) /\ WF_vars(Stop)
    /\ WF_vars(CloseDB \/ Cancel \/ Exit)
    /\ \A g \in Goroutine : WF_vars(Run(g))

-----------------------------------------------------------------------------
(* Properties.                                                             *)

Live == {g \in Goroutine : jobs[g] /= NULL}

InFlight(c) == {g \in Live : jobs[g].check = c}

TypeOK ==
    /\ table \in [Check -> Row \cup {NULL}]
    /\ running \in [Check -> 0 .. MaxRuns]
    /\ pc \in {"select", "dispatch", "acquire", "drain", "stopped"}
    /\ todo \subseteq Check
    /\ cur \in Check \cup {NULL}
    /\ jobs \in [Goroutine -> Job \cup {NULL}]
    /\ sem \in Nat
    /\ wg \in Nat
    /\ db \in BOOLEAN
    /\ proc \in {"up", "closing", "cancelled", "exited"}

\* Every goroutine holds one token and one count of the WaitGroup, the check
\* that waits for a token has its count already, and so the number of jobs in
\* flight never exceeds the configured concurrency.
SlotsAccounted ==
    /\ sem = Cardinality(Live)
    /\ sem <= Concurrency
    /\ wg = sem + (IF pc = "acquire" THEN 1 ELSE 0)

\* When the loop says it has stopped, no job is left behind, waiting or not.
DrainedWhenStopped ==
    pc = "stopped" => Live = {} /\ todo = {} /\ cur = NULL

\* A full semaphore delays a due check but never starves it: it is started,
\* unless somebody changes it or the worker is told to stop.
EveryDueCheckRuns ==
    \A c \in Check : Due(c) ~> (InFlight(c) /= {} \/ ~Due(c) \/ proc /= "up")

\* Disabling, deleting or postponing a check for good ends its jobs, although
\* the tick under way may still start one from its snapshot.
WithdrawnChecksStop ==
    \A c \in Check :
        <>[](~Due(c) /\ proc = "up") => <>[](InFlight(c) = {})
=============================================================================
