------------------------------- MODULE Scoring -------------------------------
(***************************************************************************)
(* The scoring engine of internal/scoring: the score, severity, diagnosis  *)
(* and action of one customer (engine.go, diagnosis.go, actions.go).       *)
(*                                                                         *)
(* A measurement is an integer that grows as the customer gets worse, so   *)
(* that weak signal and high latency compare alike, or NULL when missing.  *)
(***************************************************************************)
EXTENDS Integers, Sequences

CONSTANT NULL

Metric == {"rssi", "snr", "ccq", "loss", "latency", "jitter"}

Severity == {"healthy", "warning", "critical", "unknown"}

Diagnosis == {"healthy", "weak_customer_signal", "possible_cpe_alignment_issue",
    "ap_wide_interference", "ptp_link_degradation", "frequency_channel_risk",
    "high_latency", "packet_loss", "unstable_jitter", "device_offline",
    "stale_data", "data_insufficient"}

Action == {"no_action", "monitor", "schedule_field_visit", "check_cpe_alignment",
    "check_customer_cable", "check_ap_interference", "check_ptp_backhaul",
    "review_frequency_plan", "verify_power_or_ethernet", "escalate_network_ops"}

\* What is known of a customer.  Ages are in minutes; peers counts the
\* customers of the access point and the critical ones among them.
Inputs == [
    metric     : [Metric -> Int \cup {NULL}],
    dropping   : BOOLEAN,  \* five or more disconnects in a day
    falling    : BOOLEAN,  \* the signal has lost 0.5 dB a day for a week
    loaded     : BOOLEAN,  \* the backhaul carries 85% of its capacity
    peers      : [total : Nat, critical : Nat] \cup {NULL},
    testFailed : BOOLEAN,
    sampleAge  : Nat \cup {NULL},
    testAge    : Nat \cup {NULL}]

\* The scoring_thresholds table, ratios in percent.
Thresholds == [
    critical   : [Metric -> Int],
    warning    : [Metric -> Int],
    apCritical : 0 .. 100,
    apWarning  : 0 .. 100,
    healthyAt  : 0 .. 100,
    warningAt  : 0 .. 100,
    staleAfter : Nat \ {0}]

-----------------------------------------------------------------------------
(* Facts that score and diagnosis share.                                   *)

Beyond(in, m, limit) == in.metric[m] /= NULL /\ in.metric[m] >= limit[m]

\* At least this percentage of the access point's customers is critical.
PeersBeyond(in, percent) ==
    /\ in.peers /= NULL
    /\ in.peers.total > 0
    /\ 100 * in.peers.critical >= percent * in.peers.total

Insufficient(in) == \A m \in Metric \ {"ccq"} : in.metric[m] = NULL

\* The newest sample or test is too old.
IsStale(in, t) ==
    LET ages == {in.sampleAge, in.testAge} \ {NULL}
    IN  ages /= {} /\ \A age \in ages : age > t.staleAfter

-----------------------------------------------------------------------------
(* The score.                                                              *)

CriticalPenalty == [rssi |-> 40, snr |-> 30, ccq |-> 12, loss |-> 25,
                    latency |-> 18, jitter |-> 12]

WarningPenalty == [rssi |-> 18, snr |-> 12, ccq |-> 5, loss |-> 10,
                   latency |-> 8, jitter |-> 5]

\* (Mutant) The milder threshold is looked at first.
PenaltyMildFirst(in, t, m) ==
    CASE Beyond(in, m, t.warning) -> WarningPenalty[m]
      [] ~Beyond(in, m, t.warning) /\ Beyond(in, m, t.critical) -> CriticalPenalty[m]
      [] OTHER -> 0

Penalty(in, t, m) ==
    CASE Beyond(in, m, t.critical) -> CriticalPenalty[m]
      [] ~Beyond(in, m, t.critical) /\ Beyond(in, m, t.warning) -> WarningPenalty[m]
      [] OTHER -> 0

PeerPenalty(in, t) ==
    CASE PeersBeyond(in, t.apCritical) -> 12
      [] ~PeersBeyond(in, t.apCritical) /\ PeersBeyond(in, t.apWarning) -> 5
      [] OTHER -> 0

Penalties(in, t) ==
    Penalty(in, t, "rssi") + Penalty(in, t, "snr") + Penalty(in, t, "ccq")
        + Penalty(in, t, "loss") + Penalty(in, t, "latency")
        + Penalty(in, t, "jitter") + PeerPenalty(in, t)
        + (IF in.dropping THEN 8 ELSE 0)
        + (IF in.falling THEN 5 ELSE 0)
        + (IF in.loaded THEN 6 ELSE 0)

\* (Mutant) The score is not clamped.
ScoreUnclamped(in, t) == 100 - Penalties(in, t)

Score(in, t) == IF Penalties(in, t) > 100 THEN 0 ELSE 100 - Penalties(in, t)

SeverityFromScore(score, t) ==
    CASE score < 0 -> "unknown"
      [] score >= 0 /\ score >= t.healthyAt -> "healthy"
      [] score >= 0 /\ score < t.healthyAt /\ score >= t.warningAt -> "warning"
      [] OTHER -> "critical"

-----------------------------------------------------------------------------
(* The diagnosis: the first rule that applies.                             *)

\* (Mutant) A test that lost packets is no reason.
TestRulesLossless(in, limit) ==
    <<[if |-> Beyond(in, "latency", limit), then |-> "high_latency"],
      [if |-> Beyond(in, "jitter", limit),  then |-> "unstable_jitter"]>>

TestRules(in, limit) ==
    <<[if |-> Beyond(in, "loss", limit),    then |-> "packet_loss"],
      [if |-> Beyond(in, "latency", limit), then |-> "high_latency"],
      [if |-> Beyond(in, "jitter", limit),  then |-> "unstable_jitter"]>>

Rules(in, t) ==
    <<[if |-> Insufficient(in), then |-> "data_insufficient"],
      [if |-> IsStale(in, t),   then |-> "stale_data"],
      [if |-> /\ in.testFailed
              /\ in.metric["rssi"] = NULL
              /\ in.metric["snr"] = NULL,
       then |-> "device_offline"],
      [if |-> PeersBeyond(in, t.apCritical), then |-> "ap_wide_interference"],
      [if |-> in.loaded,                     then |-> "ptp_link_degradation"],
      [if |-> Beyond(in, "rssi", t.critical), then |-> "weak_customer_signal"],
      [if |-> Beyond(in, "snr", t.critical),
       then |-> "possible_cpe_alignment_issue"]>>
    \o TestRules(in, t.critical)
    \o <<[if |-> Beyond(in, "snr", t.warning),  then |-> "frequency_channel_risk"],
         [if |-> Beyond(in, "rssi", t.warning), then |-> "weak_customer_signal"]>>
    \o TestRules(in, t.warning)
    \o <<[if |-> TRUE, then |-> "healthy"]>>

Classify(in, t) ==
    LET rules == Rules(in, t)
        first == CHOOSE i \in DOMAIN rules :
                     rules[i].if /\ \A j \in 1 .. i - 1 : ~rules[j].if
    IN  rules[first].then

-----------------------------------------------------------------------------
(* The action.                                                             *)

UsualAction ==
    [healthy                      |-> "no_action",
     weak_customer_signal         |-> "check_cpe_alignment",
     possible_cpe_alignment_issue |-> "check_cpe_alignment",
     ap_wide_interference         |-> "check_ap_interference",
     ptp_link_degradation         |-> "check_ptp_backhaul",
     frequency_channel_risk       |-> "review_frequency_plan",
     high_latency                 |-> "monitor",
     packet_loss                  |-> "check_customer_cable",
     unstable_jitter              |-> "monitor",
     device_offline               |-> "verify_power_or_ethernet",
     stale_data                   |-> "monitor",
     data_insufficient            |-> "monitor"]

\* Actions that a critical severity changes.
CriticalAction ==
    [weak_customer_signal |-> "schedule_field_visit",
     ap_wide_interference |-> "escalate_network_ops",
     high_latency         |-> "check_ptp_backhaul",
     packet_loss          |-> "schedule_field_visit"]

ActionFor(diagnosis, severity) ==
    IF severity = "critical" /\ diagnosis \in DOMAIN CriticalAction
    THEN CriticalAction[diagnosis]
    ELSE UsualAction[diagnosis]

-----------------------------------------------------------------------------

\* reasons tells whether the result names every penalty or says instead that
\* all metrics are within their thresholds.
ScoreCustomer(in, t) ==
    LET score == IF Insufficient(in) THEN 0 ELSE Score(in, t)
        severity == IF Insufficient(in) THEN "unknown" ELSE SeverityFromScore(score, t)
        diagnosis == Classify(in, t)
    IN  [score     |-> score,
         severity  |-> severity,
         diagnosis |-> diagnosis,
         action    |-> ActionFor(diagnosis, severity),
         stale     |-> ~Insufficient(in) /\ IsStale(in, t),
         reasons   |-> IF severity = "healthy" /\ diagnosis = "healthy"
                       THEN "within_thresholds" ELSE "penalties"]

Result == [score : 0 .. 100, severity : Severity, diagnosis : Diagnosis,
           action : Action, stale : BOOLEAN,
           reasons : {"within_thresholds", "penalties"}]
=============================================================================
