------------------------------- MODULE ScoreRuns -------------------------------
(***************************************************************************)
(* How the scores of the customers of one access point are computed and    *)
(* kept: POST calculate-score, POST scoring-runs and the worker's          *)
(* customer_signal_check read the thresholds once and then hydrate, score  *)
(* and save one customer after the other, while polls add readings, PATCH  *)
(* writes thresholds and other runs score the same customers.              *)
(*                                                                         *)
(* A reading holds the signal and the noise of a wireless client.  The     *)
(* hydrator takes any reading of the newest poll of the access point; its  *)
(* queries for RouterOS samples, their trend and client tests name columns *)
(* that their tables do not have, and always count as missing.  How old a  *)
(* reading is decides a diagnosis but no severity, and is left out.        *)
(***************************************************************************)
EXTENDS Scoring, FiniteSets

CONSTANTS
    Customer,   \* the customers of the access point
    Run,        \* requests and jobs that score
    Reading,    \* what a wireless client may be measured at
    Polls,      \* what a poll may find: sets of readings
    Patches,    \* updates that may be asked for, as functions from keys
    MaxScores   \* (bound) customers that all runs together take up

ASSUME ScoreRunsAssumption ==
    /\ NULL \notin Int
    /\ IsFiniteSet(Customer)
    /\ Reading \subseteq [{"rssi", "snr"} -> Int]
    /\ Polls \subseteq (SUBSET Reading) \ {{}}
    /\ MaxScores \in Nat

VARIABLES
    rows,      \* the newest readings
    table,     \* scoring_thresholds
    patch,     \* the updates a PATCH has still to write
    run,       \* the runs
    newest,    \* the row of customer_signal_scores that was computed last
    cache,     \* customers.last_signal_*: the row that was saved last
    clock,     \* counts computations, for calculated_at
    taken,     \* counts the customers that the runs have taken up
    raced      \* history: customers of whom two results were unsaved at once

vars == <<rows, table, patch, run, newest, cache, clock, taken, raced>>

DefaultThresholds == [
    critical   |-> [rssi |-> 80, snr |-> -15, ccq |-> -50, loss |-> 5, latency |-> 100, jitter |-> 30],
    warning    |-> [rssi |-> 70, snr |-> -25, ccq |-> -75, loss |-> 2, latency |-> 50, jitter |-> 15],
    apCritical |-> 40,
    apWarning  |-> 25,
    healthyAt  |-> 80,
    warningAt  |-> 50,
    staleAfter |-> 60]

\* A key of the table is the path of a field, such as <<"critical", "rssi">>.
ThresholdKey ==
    ({"critical", "warning"} \X Metric)
        \cup {<<"apCritical">>, <<"apWarning">>, <<"healthyAt">>, <<"warningAt">>,
              <<"staleAfter">>}

Override(t, key, value) ==
    IF Len(key) = 1 THEN [t EXCEPT ![key[1]] = value]
                    ELSE [t EXCEPT ![key[1]][key[2]] = value]

\* The least and the greatest value of a key.
MetricSpecs == [rssi |-> <<0, 120>>, snr |-> <<-60, 0>>, ccq |-> <<-100, 0>>,
                loss |-> <<0, 100>>, latency |-> <<0, 10000>>, jitter |-> <<0, 10000>>]

thresholdSpecs(key) ==
    IF Len(key) = 2 THEN MetricSpecs[key[2]]
    ELSE IF key = <<"staleAfter">> THEN <<1, 10080>> ELSE <<0, 100>>

IsValidThresholdValue(key, value) ==
    /\ key \in ThresholdKey
    /\ value \in thresholdSpecs(key)[1] .. thresholdSpecs(key)[2]

Idle == [pc |-> "idle", ids |-> {}, ended |-> FALSE, t |-> NULL, customer |-> NULL,
         reading |-> NULL, cut |-> FALSE, peers |-> NULL, result |-> NULL]

Init ==
    /\ rows = {}
    /\ table = DefaultThresholds
    /\ patch = <<>>
    /\ run = [r \in Run |-> Idle]
    /\ newest = [c \in Customer |-> NULL]
    /\ cache = [c \in Customer |-> NULL]
    /\ clock = 0
    /\ taken = 0
    /\ raced = {}

-----------------------------------------------------------------------------
(* What the runs read.                                                     *)

\* A poll finds clients; one that finds none leaves the earlier rows newest.
PollAccessPoint ==
    /\ rows' \in Polls
    /\ UNCHANGED <<table, patch, run, newest, cache, clock, taken, raced>>

\* (Mutant) Updates that are out of range are left to the database.
PatchThresholdsUnchecked ==
    /\ patch = <<>>
    /\ patch' \in Patches
    /\ UNCHANGED <<rows, table, run, newest, cache, clock, taken, raced>>

\* No update is written unless all of them are known and in range.
PatchThresholds ==
    /\ patch = <<>>
    /\ patch' \in Patches
    /\ \A key \in DOMAIN patch' : IsValidThresholdValue(key, patch'[key])
    /\ UNCHANGED <<rows, table, run, newest, cache, clock, taken, raced>>

\* The updates are written one by one in the order of a Go map; one that
\* fails is left out.
UpsertThreshold ==
    /\ \E key \in DOMAIN patch :
           /\ patch' = [other \in DOMAIN patch \ {key} |-> patch[other]]
           /\ table' \in {table, Override(table, key, patch[key])}
    /\ UNCHANGED <<rows, run, newest, cache, clock, taken, raced>>

-----------------------------------------------------------------------------
(* Runs.                                                                   *)

\* One customer, some customers, or all of them.
Start(r) ==
    /\ run[r].pc = "idle"
    /\ \E ids \in SUBSET Customer \ {{}} :
           /\ taken + Cardinality(ids) <= MaxScores
           /\ taken' = taken + Cardinality(ids)
           /\ run' = [run EXCEPT ![r] = [Idle EXCEPT !.pc = "load", !.ids = ids]]
    /\ UNCHANGED <<rows, table, patch, newest, cache, clock, raced>>

\* The client hangs up, or the 90 seconds of the job are over: from now on no
\* query of this run succeeds.
ContextEnds(r) ==
    /\ run[r].pc /= "idle"
    /\ ~run[r].ended
    /\ run' = [run EXCEPT ![r].ended = TRUE]
    /\ UNCHANGED <<rows, table, patch, newest, cache, clock, taken, raced>>

\* Without the table, the defaults are used.
LoadThresholds(r) ==
    /\ run[r].pc = "load"
    /\ \E t \in {DefaultThresholds} \cup (IF run[r].ended THEN {} ELSE {table}) :
           run' = [run EXCEPT ![r].pc = "next", ![r].t = t]
    /\ UNCHANGED <<rows, table, patch, newest, cache, clock, taken, raced>>

\* The run is done with a customer, and goes on with the next one if any.
Onward(runs, r) ==
    [runs EXCEPT ![r] = IF @.ids = {} THEN Idle
                        ELSE [Idle EXCEPT !.pc = "next", !.ended = runs[r].ended,
                                          !.t = runs[r].t, !.ids = runs[r].ids]]

\* HydrateCustomer of the next customer: an error of the first queries is
\* returned, while one of latestWirelessSample counts as no sample.
HydrateCustomer(r) ==
    /\ run[r].pc = "next"
    /\ \E c \in run[r].ids :
           LET mine == [run EXCEPT ![r].ids = @ \ {c}, ![r].customer = c, ![r].pc = "peers"]
           IN  \/ run' = Onward(mine, r)
               \/ /\ ~run[r].ended
                  /\ \E reading \in IF rows = {} THEN {NULL} ELSE rows :
                         run' = [mine EXCEPT ![r].reading = reading]
               \/ run' = [mine EXCEPT ![r].cut = run[r].ended]
    /\ UNCHANGED <<rows, table, patch, newest, cache, clock, taken, raced>>

\* (Mutant) Customers with a warning count as degraded.
PeerCustomerStatsMild ==
    [total |-> Cardinality(Customer),
     critical |-> Cardinality({c \in Customer : cache[c] /= NULL
                                  /\ cache[c].severity \in {"warning", "critical"}})]

\* All customers of the access point, the one that is scored among them.
PeerCustomerStats ==
    [total |-> Cardinality(Customer),
     critical |-> Cardinality({c \in Customer : cache[c] /= NULL
                                                /\ cache[c].severity = "critical"})]

ReadPeers(r) ==
    /\ run[r].pc = "peers"
    /\ \E peers \in {NULL} \cup (IF run[r].ended THEN {} ELSE {PeerCustomerStats}) :
           run' = [run EXCEPT ![r].pc = "compute", ![r].peers = peers,
                              ![r].cut = @ \/ run[r].ended]
    /\ UNCHANGED <<rows, table, patch, newest, cache, clock, taken, raced>>

InputsOf(r, peers) ==
    [metric |-> [m \in Metric |-> IF run[r].reading /= NULL /\ m \in {"rssi", "snr"}
                                  THEN run[r].reading[m] ELSE NULL],
     dropping |-> FALSE, falling |-> FALSE, loaded |-> FALSE, peers |-> peers,
     testFailed |-> FALSE, testAge |-> NULL,
     sampleAge |-> IF run[r].reading = NULL THEN NULL ELSE 0]

Computed(r, peers) == ScoreCustomer(InputsOf(r, peers), run[r].t)

Row(r, at) ==
    LET result == Computed(r, run[r].peers)
    IN  [at |-> at, severity |-> result.severity, diagnosis |-> result.diagnosis,
         cut |-> run[r].cut]

\* Another run holds a result for this customer that it has not saved.
Unsaved(r, c) == \E s \in Run \ {r} : run[s].pc = "save" /\ run[s].customer = c

\* (Mutant) All results bear the same time.
ComputeAtOnce(r) ==
    /\ run[r].pc = "compute"
    /\ run' = [run EXCEPT ![r].pc = "save", ![r].result = Row(r, 1)]
    /\ UNCHANGED <<rows, table, patch, newest, cache, clock, taken, raced>>

Compute(r) ==
    /\ run[r].pc = "compute"
    /\ clock' = clock + 1
    /\ run' = [run EXCEPT ![r].pc = "save", ![r].result = Row(r, clock'),
                          ![r].reading = NULL, ![r].peers = NULL]
    /\ raced' = IF Unsaved(r, run[r].customer) THEN raced \cup {run[r].customer} ELSE raced
    /\ UNCHANGED <<rows, table, patch, newest, cache, taken>>

\* A row and the cache are written in one transaction.  Rows are found by the
\* time at which they were computed.
Save(r, c) ==
    /\ cache' = [cache EXCEPT ![c] = run[r].result]
    /\ newest' = [newest EXCEPT ![c] =
                      IF @ = NULL \/ @.at < run[r].result.at THEN run[r].result ELSE @]
    /\ raced' = IF newest'[c] = run[r].result /\ ~Unsaved(r, c) THEN raced \ {c} ELSE raced

\* (Mutant) The result is saved although the context has ended.
SaveCustomerScoreDetached(r) ==
    /\ run[r].pc = "save"
    /\ run' = Onward(run, r)
    /\ Save(r, run[r].customer)
    /\ UNCHANGED <<rows, table, patch, clock, taken>>

\* An error of the database is reported, and the run goes on.
SaveCustomerScore(r) ==
    /\ run[r].pc = "save"
    /\ run' = Onward(run, r)
    /\ \/ UNCHANGED <<newest, cache, raced>>
       \/ ~run[r].ended /\ Save(r, run[r].customer)
    /\ UNCHANGED <<rows, table, patch, clock, taken>>

Step(r) ==
    \/ LoadThresholds(r)
    \/ HydrateCustomer(r)
    \/ ReadPeers(r)
    \/ Compute(r)
    \/ SaveCustomerScore(r)

Next ==
    \/ PollAccessPoint
    \/ PatchThresholds
    \/ UpsertThreshold
    \/ \E r \in Run : Start(r) \/ ContextEnds(r) \/ Step(r)

Spec == Init /\ [][Next]_vars

-----------------------------------------------------------------------------
(* Properties.                                                             *)

StoredRow == [at : Nat \ {0}, severity : Severity, diagnosis : Diagnosis, cut : BOOLEAN]

\* The tables and the runs keep their types; scoring_thresholds holds values
\* that the engine can work with, whatever a PATCH asks for.
RunsTypeOK ==
    /\ rows \subseteq Reading
    /\ table \in Thresholds
    /\ \A r \in Run :
           /\ run[r].pc \in {"idle", "load", "next", "peers", "compute", "save"}
           /\ run[r].t = NULL \/ run[r].t \in Thresholds
           /\ run[r].customer \in (Customer \ run[r].ids) \cup {NULL}
           /\ run[r].pc = "save" => run[r].result \in StoredRow
    /\ newest \in [Customer -> StoredRow \cup {NULL}]
    /\ cache \in [Customer -> StoredRow \cup {NULL}]

\* What customers.last_signal_* says is the score that LatestCustomerScore and
\* CustomersWithIssues find, unless two runs held a result for the customer at
\* once; the next score that is alone brings them together again.
CacheIsNewest == \A c \in Customer \ raced : cache[c] = newest[c]

\* No score is stored that lacks a reading or the peers because the time of
\* its run was over: hydration takes such an error for missing data and goes
\* on, and only the saving at the end fails.
NoScoreIsCutShort ==
    \A c \in Customer : \A row \in {newest[c], cache[c]} \ {NULL} : ~row.cut

\* Something says that a customer of the access point is critical.
Alarmed ==
    \/ \E c \in Customer : cache[c] /= NULL /\ cache[c].severity = "critical"
    \/ \E r \in Run : \/ run[r].peers /= NULL /\ run[r].peers.critical > 0
                      \/ run[r].result /= NULL /\ run[r].result.severity = "critical"

\* An access point whose customers are all well gets its first critical
\* customer by that customer's own readings: the penalty for the peers, which
\* is computed of scores that contain it, cannot raise an alarm out of nothing
\* (unless a ratio of 0 says that an access point is always degraded).
AlarmsHaveASource ==
    [][~Alarmed /\ Alarmed' =>
           \E r \in Run :
               /\ run[r].pc = "compute"
               /\ \/ Computed(r, NULL).severity = "critical"
                  \/ run[r].t.apCritical = 0
                  \/ run[r].t.apWarning = 0]_vars
=============================================================================
