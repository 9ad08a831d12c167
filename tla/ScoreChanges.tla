----------------------------- MODULE ScoreChanges -----------------------------
(***************************************************************************)
(* How the score of a customer follows its measurements.  A state holds    *)
(* what Hydrator.HydrateCustomer would find at that moment and the         *)
(* thresholds; a step changes one of them.                                 *)
(***************************************************************************)
EXTENDS Scoring

CONSTANTS
    Values,      \* Values[m]: what metric m may be measured as
    PeerCounts,  \* customers of the access point, and critical ones
    Ages,        \* ages of the newest sample and of the newest test
    Symptoms,    \* what else weakens the connection
    Settings     \* contents of scoring_thresholds

ASSUME ValuesAssumption ==
    /\ NULL \notin Int
    /\ Values \in [Metric -> SUBSET (Int \cup {NULL})]
    /\ PeerCounts \subseteq [total : Nat, critical : Nat] \cup {NULL}
    /\ Ages \subseteq [sample : Nat \cup {NULL}, test : Nat \cup {NULL}]
    /\ Symptoms \subseteq [dropping : BOOLEAN, falling : BOOLEAN, loaded : BOOLEAN]
    /\ Settings \subseteq Thresholds

VARIABLES
    in,     \* the inputs of the engine
    t,      \* the thresholds in force
    result  \* the result for these inputs and thresholds

changesVars == <<in, t, result>>

ChangesInit ==
    /\ in = [metric |-> [m \in Metric |-> NULL], dropping |-> FALSE,
             falling |-> FALSE, loaded |-> FALSE, peers |-> NULL,
             testFailed |-> FALSE, sampleAge |-> NULL, testAge |-> NULL]
    /\ t \in Settings
    /\ result = ScoreCustomer(in, t)

Rescore == result' = ScoreCustomer(in', t')

\* A new sample or test has another value for one metric, or none.
Measure(m) ==
    /\ \E v \in Values[m] : in' = [in EXCEPT !.metric[m] = v]
    /\ UNCHANGED t
    /\ Rescore

TestEnds == in' = [in EXCEPT !.testFailed = ~@] /\ UNCHANGED t /\ Rescore

CountPeers ==
    /\ \E p \in PeerCounts : in' = [in EXCEPT !.peers = p]
    /\ UNCHANGED t
    /\ Rescore

ChangeSymptoms ==
    /\ \E s \in Symptoms :
           in' = [in EXCEPT !.dropping = s.dropping, !.falling = s.falling,
                            !.loaded = s.loaded]
    /\ UNCHANGED t
    /\ Rescore

PassTime ==
    /\ \E a \in Ages : in' = [in EXCEPT !.sampleAge = a.sample, !.testAge = a.test]
    /\ UNCHANGED t
    /\ Rescore

SetThresholds == t' \in Settings /\ UNCHANGED in /\ Rescore

ChangesNext ==
    \/ \E m \in Metric : Measure(m)
    \/ TestEnds
    \/ CountPeers
    \/ ChangeSymptoms
    \/ PassTime
    \/ SetThresholds

ChangesSpec == ChangesInit /\ [][ChangesNext]_changesVars

-----------------------------------------------------------------------------
(* Properties.                                                             *)

\* Inputs, thresholds and the result keep their types: the score fits the
\* CHECK of customer_signal_scores, whatever is wrong at once.
ChangesTypeOK == in \in Inputs /\ t \in Thresholds /\ result \in Result

NoBetter(a, b) == a = b \/ (a /= NULL /\ b /= NULL /\ b >= a)

\* Everything measured before is still measured, and nothing has improved.
Worse ==
    /\ t' = t
    /\ ~Insufficient(in)
    /\ \A m \in Metric : NoBetter(in.metric[m], in'.metric[m])
    /\ in.dropping => in'.dropping
    /\ in.falling => in'.falling
    /\ in.loaded => in'.loaded
    /\ \/ in'.peers = in.peers
       \/ /\ in.peers /= NULL
          /\ in'.peers /= NULL
          /\ in'.peers.total = in.peers.total
          /\ in'.peers.critical >= in.peers.critical

\* A customer that gets worse never scores better, and its severity never
\* becomes milder, also while an operator has set the thresholds in an order
\* that makes no sense: each metric is compared with two thresholds, and the
\* severity with two more.
WorseNeverScoresBetter ==
    [][Worse => /\ result'.score <= result.score
                /\ result.severity = "critical" => result'.severity = "critical"
                /\ result'.severity = "healthy" => result.severity = "healthy"]_changesVars

\* What no rule of the decision tree looks at cannot cost more than this.
Unruled == 12 + 8 + 5 + 5

\* The penalties and the rules, two lists kept apart, agree on what is serious:
\* a customer that lost more than the unruled penalties has a diagnosis and an
\* action, under any thresholds.  Critical customers are such customers as long
\* as warningAt is at most 70; the API accepts up to 100, and at 71 and more a
\* customer can be critical by unruled penalties alone, diagnosed as healthy
\* and given no action.
LostPointsAreDiagnosed ==
    (result.severity /= "unknown" /\ result.score < 100 - Unruled) =>
        /\ result.diagnosis \notin {"healthy", "data_insufficient"}
        /\ result.action /= "no_action"
=============================================================================
