---------------------------- MODULE ScoringProofs ----------------------------
(***************************************************************************)
(* Theorems about ScoreChanges, for any measurements and any thresholds,   *)
(* and about ScoreRuns, for any customers, readings, patches and runs.     *)
(***************************************************************************)
EXTENDS ScoreChanges, ScoreRuns, FiniteSetTheorems, WellFoundedInduction, TLAPS

LEMMA PenaltyBounds ==
    ASSUME NEW i \in Inputs, NEW h \in Thresholds, NEW m \in Metric
    PROVE  /\ Penalty(i, h, m) \in {0, CriticalPenalty[m], WarningPenalty[m]}
           /\ Penalty(i, h, m) \in Nat
BY DEF Penalty, CriticalPenalty, WarningPenalty, Metric

LEMMA PenaltiesNat ==
    ASSUME NEW i \in Inputs, NEW h \in Thresholds
    PROVE  Penalties(i, h) \in Nat
<1>1. \A m \in Metric : Penalty(i, h, m) \in Nat
  BY PenaltyBounds
<1>2. PeerPenalty(i, h) \in Nat
  BY DEF PeerPenalty
<1>3. QED
  BY <1>1, <1>2 DEF Penalties, Metric

LEMMA ScoreInRange ==
    ASSUME NEW i \in Inputs, NEW h \in Thresholds
    PROVE  Score(i, h) \in 0 .. 100
BY PenaltiesNat DEF Score

\* A measurement that is no better costs no less: the two thresholds may
\* stand in any order, since the critical one is looked at first and costs
\* more.
LEMMA PenaltyMonotone ==
    ASSUME NEW i \in Inputs, NEW j \in Inputs, NEW h \in Thresholds,
           NEW m \in Metric,
           NULL \notin Int,
           NoBetter(i.metric[m], j.metric[m])
    PROVE  Penalty(i, h, m) <= Penalty(j, h, m)
<1>1. /\ h.critical[m] \in Int
      /\ h.warning[m] \in Int
      /\ i.metric[m] \in Int \cup {NULL}
      /\ j.metric[m] \in Int \cup {NULL}
  BY DEF Thresholds, Inputs
<1>2. \A limit \in {h.critical, h.warning} :
          Beyond(i, m, limit) => Beyond(j, m, limit)
  BY <1>1 DEF Beyond, NoBetter
<1>3. /\ CriticalPenalty[m] \in Nat
      /\ WarningPenalty[m] \in Nat
      /\ CriticalPenalty[m] >= WarningPenalty[m]
  BY DEF CriticalPenalty, WarningPenalty, Metric
<1>4. QED
  BY <1>2, <1>3 DEF Penalty

LEMMA PeerPenaltyMonotone ==
    ASSUME NEW i \in Inputs, NEW j \in Inputs, NEW h \in Thresholds,
           \/ j.peers = i.peers
           \/ /\ i.peers /= NULL
              /\ j.peers /= NULL
              /\ j.peers.total = i.peers.total
              /\ j.peers.critical >= i.peers.critical
    PROVE  PeerPenalty(i, h) <= PeerPenalty(j, h)
<1>1. ASSUME NEW percent \in 0 .. 100, PeersBeyond(i, percent)
      PROVE  PeersBeyond(j, percent)
  <2>1. CASE j.peers = i.peers
    BY <1>1, <2>1 DEF PeersBeyond
  <2>2. CASE /\ i.peers /= NULL
             /\ j.peers /= NULL
             /\ j.peers.total = i.peers.total
             /\ j.peers.critical >= i.peers.critical
    <3> DEFINE needed == percent * i.peers.total
    <3>1. /\ i.peers.total \in Nat
          /\ i.peers.critical \in Nat
          /\ j.peers.critical \in Nat
      BY <2>2 DEF Inputs
    <3>2. needed \in Int
      BY <3>1
    <3>3. i.peers.total > 0 /\ 100 * i.peers.critical >= needed
      BY <1>1 DEF PeersBeyond
    <3> HIDE DEF needed
    <3>4. 100 * j.peers.critical >= needed
      BY <2>2, <3>1, <3>2, <3>3
    <3>5. QED
      BY <2>2, <3>3, <3>4 DEF PeersBeyond, needed
  <2>3. QED
    BY <2>1, <2>2
<1>2. h.apCritical \in 0 .. 100 /\ h.apWarning \in 0 .. 100
  BY DEF Thresholds
<1>3. QED
  BY <1>1, <1>2 DEF PeerPenalty

-----------------------------------------------------------------------------
(* The decision tree.                                                      *)

Rule == [if : BOOLEAN, then : Diagnosis]

LEMMA SmallestElement ==
    ASSUME NEW S \in SUBSET Nat, S /= {}
    PROVE  \E n \in S : \A k \in S : n <= k
<1> DEFINE R == OpToRel(<, Nat)
<1>1. IsWellFoundedOn(R, Nat)
  BY NatLessThanWellFounded
<1>2. PICK n \in S : \A k \in S : <<k, n>> \notin R
  BY <1>1, WFMin
<1>3. \A k \in S : ~(k < n)
  BY <1>2 DEF OpToRel
<1>4. QED
  BY <1>3

\* Every input reaches a rule, the last one if no other.
LEMMA RulesEnd ==
    ASSUME NEW i \in Inputs, NEW h \in Thresholds
    PROVE  /\ Rules(i, h) \in Seq(Rule)
           /\ Len(Rules(i, h)) = 16
           /\ Rules(i, h)[16].if
<1>1. /\ Len(Rules(i, h)) = 16
      /\ Rules(i, h)[16].if
  BY DEF Rules, TestRules
<1>2. Rules(i, h) \in Seq(Rule)
  BY DEF Rules, TestRules, Rule, Diagnosis, Inputs,
         Insufficient, IsStale, PeersBeyond, Beyond
<1>3. QED
  BY <1>1, <1>2

\* The rule that decides is the first that applies.
LEMMA FirstRuleDecides ==
    ASSUME NEW i \in Inputs, NEW h \in Thresholds
    PROVE  \E n \in 1 .. 16 :
               /\ Rules(i, h)[n].if
               /\ \A k \in 1 .. n - 1 : ~Rules(i, h)[k].if
               /\ Classify(i, h) = Rules(i, h)[n].then
<1> DEFINE
    rules == Rules(i, h)
    Applies == {n \in 1 .. 16 : rules[n].if}
    IsFirst(n) == rules[n].if /\ \A k \in 1 .. n - 1 : ~rules[k].if
<1>1. DOMAIN rules = 1 .. 16 /\ 16 \in Applies
  BY RulesEnd
<1>2. PICK n \in Applies : \A k \in Applies : n <= k
  BY <1>1, SmallestElement, Applies \in SUBSET Nat
<1>3. n \in DOMAIN rules /\ IsFirst(n)
  BY <1>1, <1>2
<1>4. Classify(i, h) = rules[CHOOSE m \in DOMAIN rules : IsFirst(m)].then
  BY DEF Classify
<1>5. QED
  BY <1>1, <1>3, <1>4

\* What the rules between the first and the last look at and decide.
LEMMA RulesBetween ==
    ASSUME NEW i \in Inputs, NEW h \in Thresholds
    PROVE  LET r == Rules(i, h) IN
           /\ r[1].if = Insufficient(i)
           /\ r[4].if = PeersBeyond(i, h.apCritical)
           /\ r[5].if = i.loaded
           /\ r[6].if = Beyond(i, "rssi", h.critical)
           /\ r[7].if = Beyond(i, "snr", h.critical)
           /\ r[8].if = Beyond(i, "loss", h.critical)
           /\ r[9].if = Beyond(i, "latency", h.critical)
           /\ r[10].if = Beyond(i, "jitter", h.critical)
           /\ r[11].if = Beyond(i, "snr", h.warning)
           /\ r[12].if = Beyond(i, "rssi", h.warning)
           /\ r[13].if = Beyond(i, "loss", h.warning)
           /\ r[14].if = Beyond(i, "latency", h.warning)
           /\ r[15].if = Beyond(i, "jitter", h.warning)
           /\ \A n \in 2 .. 15 : r[n].then \notin {"healthy", "data_insufficient"}
BY DEF Rules, TestRules

LEMMA ClassifyType ==
    ASSUME NEW i \in Inputs, NEW h \in Thresholds
    PROVE  Classify(i, h) \in Diagnosis
<1>1. PICK n \in 1 .. 16 : Classify(i, h) = Rules(i, h)[n].then
  BY FirstRuleDecides
<1>2. Rules(i, h)[n] \in Rule
  BY RulesEnd
<1>3. QED
  BY <1>1, <1>2 DEF Rule

LEMMA ActionForType ==
    ASSUME NEW d \in Diagnosis, NEW s \in Severity
    PROVE  ActionFor(d, s) \in Action
<1>1. UsualAction[d] \in Action
  BY DEF UsualAction, Action, Diagnosis
<1>2. d \in DOMAIN CriticalAction => CriticalAction[d] \in Action
  BY DEF CriticalAction, Action
<1>3. QED
  BY <1>1, <1>2 DEF ActionFor

LEMMA ResultType ==
    ASSUME NEW i \in Inputs, NEW h \in Thresholds
    PROVE  ScoreCustomer(i, h) \in Result
<1> DEFINE
    score == IF Insufficient(i) THEN 0 ELSE Score(i, h)
    severity == IF Insufficient(i) THEN "unknown" ELSE SeverityFromScore(score, h)
<1>1. score \in 0 .. 100
  BY ScoreInRange
<1>2. severity \in Severity
  BY <1>1 DEF SeverityFromScore, Severity, Thresholds
<1>3. Classify(i, h) \in Diagnosis
  BY ClassifyType
<1>4. ActionFor(Classify(i, h), severity) \in Action
  BY <1>2, <1>3, ActionForType
<1>5. IsStale(i, h) \in BOOLEAN
  BY DEF IsStale
<1>6. QED
  BY <1>1, <1>2, <1>3, <1>4, <1>5 DEF ScoreCustomer, Result

-----------------------------------------------------------------------------
(* The theorems.                                                           *)

ChangesInv ==
    /\ in \in Inputs
    /\ t \in Thresholds
    /\ result = ScoreCustomer(in, t)

LEMMA ChangesInitInv == ChangesInit => ChangesInv
<1> SUFFICES ASSUME ChangesInit PROVE ChangesInv
  OBVIOUS
<1>1. in \in Inputs
  BY DEF ChangesInit, Inputs
<1>2. t \in Thresholds
  BY ValuesAssumption DEF ChangesInit
<1>3. QED
  BY <1>1, <1>2 DEF ChangesInit, ChangesInv

LEMMA ChangesNextInv == ChangesInv /\ [ChangesNext]_changesVars => ChangesInv'
<1> SUFFICES ASSUME ChangesInv, [ChangesNext]_changesVars PROVE ChangesInv'
  OBVIOUS
<1> USE DEF ChangesInv
<1>1. ASSUME NEW m \in Metric, Measure(m) PROVE ChangesInv'
  <2>1. PICK v \in Values[m] : in' = [in EXCEPT !.metric[m] = v]
    BY <1>1 DEF Measure
  <2>2. v \in Int \cup {NULL}
    BY ValuesAssumption
  <2>3. in' \in Inputs
    BY <2>1, <2>2 DEF Inputs
  <2>4. QED
    BY <1>1, <2>3 DEF Measure, Rescore
<1>2. CASE TestEnds
  <2>1. in' \in Inputs
    BY <1>2 DEF TestEnds, Inputs
  <2>2. QED
    BY <1>2, <2>1 DEF TestEnds, Rescore
<1>3. CASE CountPeers
  <2>1. PICK p \in PeerCounts : in' = [in EXCEPT !.peers = p]
    BY <1>3 DEF CountPeers
  <2>2. p \in [total : Nat, critical : Nat] \cup {NULL}
    BY ValuesAssumption
  <2>3. in' \in Inputs
    BY <2>1, <2>2 DEF Inputs
  <2>4. QED
    BY <1>3, <2>3 DEF CountPeers, Rescore
<1>4. CASE ChangeSymptoms
  <2>1. PICK s \in Symptoms :
            in' = [in EXCEPT !.dropping = s.dropping, !.falling = s.falling,
                             !.loaded = s.loaded]
    BY <1>4 DEF ChangeSymptoms
  <2>2. s \in [dropping : BOOLEAN, falling : BOOLEAN, loaded : BOOLEAN]
    BY ValuesAssumption
  <2>3. in' \in Inputs
    BY <2>1, <2>2 DEF Inputs
  <2>4. QED
    BY <1>4, <2>3 DEF ChangeSymptoms, Rescore
<1>5. CASE PassTime
  <2>1. PICK a \in Ages :
            in' = [in EXCEPT !.sampleAge = a.sample, !.testAge = a.test]
    BY <1>5 DEF PassTime
  <2>2. a \in [sample : Nat \cup {NULL}, test : Nat \cup {NULL}]
    BY ValuesAssumption
  <2>3. in' \in Inputs
    BY <2>1, <2>2 DEF Inputs
  <2>4. QED
    BY <1>5, <2>3 DEF PassTime, Rescore
<1>6. CASE SetThresholds
  BY <1>6, ValuesAssumption DEF SetThresholds, Rescore
<1>7. CASE UNCHANGED changesVars
  BY <1>7 DEF changesVars
<1>8. QED
  BY <1>1, <1>2, <1>3, <1>4, <1>5, <1>6, <1>7 DEF ChangesNext

\* The result is the engine's for the inputs and thresholds of the moment.
THEOREM ChangesInvariance == ChangesSpec => []ChangesInv
BY ChangesInitInv, ChangesNextInv, PTL DEF ChangesSpec

\* Whatever is measured, missing or configured, the score is between 0 and
\* 100, and severity, diagnosis and action are ones the schema knows.
THEOREM ChangesTypeCorrect == ChangesSpec => []ChangesTypeOK
<1>1. ChangesInv => ChangesTypeOK
  BY ResultType DEF ChangesInv, ChangesTypeOK
<1>2. QED
  BY <1>1, ChangesInvariance, PTL

LEMMA PenaltiesMonotone ==
    ASSUME ChangesInv, ChangesInv', Worse
    PROVE  Penalties(in, t) <= Penalties(in', t)
<1> USE DEF ChangesInv
<1>1. ASSUME NEW m \in Metric
      PROVE  /\ Penalty(in, t, m) \in Nat
             /\ Penalty(in', t, m) \in Nat
             /\ Penalty(in, t, m) <= Penalty(in', t, m)
  <2>1. NoBetter(in.metric[m], in'.metric[m])
    BY DEF Worse
  <2>2. NULL \notin Int
    BY ValuesAssumption
  <2>3. QED
    BY <2>1, <2>2, PenaltyBounds, PenaltyMonotone
<1>2. PeerPenalty(in, t) <= PeerPenalty(in', t)
  BY PeerPenaltyMonotone DEF Worse
<1>3. PeerPenalty(in, t) \in Nat /\ PeerPenalty(in', t) \in Nat
  BY DEF PeerPenalty
<1>4. /\ in.dropping => in'.dropping
      /\ in.falling => in'.falling
      /\ in.loaded => in'.loaded
  BY DEF Worse
<1>5. \A m \in {"rssi", "snr", "ccq", "loss", "latency", "jitter"} :
          /\ Penalty(in, t, m) \in Nat
          /\ Penalty(in', t, m) \in Nat
          /\ Penalty(in, t, m) <= Penalty(in', t, m)
  BY <1>1 DEF Metric
<1>6. QED
  BY <1>2, <1>3, <1>4, <1>5 DEF Penalties

\* A lower score has no milder severity, in whatever order healthyAt and
\* warningAt stand.
LEMMA SeverityMonotone ==
    ASSUME NEW h \in Thresholds, NEW a \in 0 .. 100, NEW b \in 0 .. 100, b <= a
    PROVE  /\ SeverityFromScore(a, h) = "critical" => SeverityFromScore(b, h) = "critical"
           /\ SeverityFromScore(b, h) = "healthy" => SeverityFromScore(a, h) = "healthy"
<1>1. h.healthyAt \in Int /\ h.warningAt \in Int
  BY DEF Thresholds
<1>2. QED
  BY <1>1 DEF SeverityFromScore

\* A customer that gets worse never scores better and is never judged more
\* mildly, for every threshold table an operator can save.
THEOREM WorseNeverScoresBetterHolds == ChangesSpec => WorseNeverScoresBetter
<1> DEFINE
    Softer ==
        Worse => /\ result'.score <= result.score
                 /\ result.severity = "critical" => result'.severity = "critical"
                 /\ result'.severity = "healthy" => result.severity = "healthy"
<1>1. ASSUME ChangesInv, ChangesInv', Worse PROVE Softer
  <2> USE <1>1 DEF ChangesInv
  <2>1. t' = t /\ ~Insufficient(in) /\ ~Insufficient(in')
    BY DEF Worse, Insufficient, NoBetter, Metric
  <2>2. /\ result.score = Score(in, t)
        /\ result.severity = SeverityFromScore(Score(in, t), t)
        /\ result'.score = Score(in', t)
        /\ result'.severity = SeverityFromScore(Score(in', t), t)
    BY <2>1 DEF ScoreCustomer
  <2>3. /\ Score(in, t) \in 0 .. 100
        /\ Score(in', t) \in 0 .. 100
    BY <2>1, ScoreInRange
  <2>4. Score(in', t) <= Score(in, t)
    BY <2>1, PenaltiesMonotone, PenaltiesNat DEF Score
  <2> DEFINE before == SeverityFromScore(Score(in, t), t)
             after == SeverityFromScore(Score(in', t), t)
  <2>5. /\ before = "critical" => after = "critical"
        /\ after = "healthy" => before = "healthy"
    BY <2>3, <2>4, SeverityMonotone
  <2>6. QED
    BY <2>2, <2>4, <2>5
<1>2. ChangesInv /\ ChangesInv' => [Softer]_changesVars
  BY <1>1
<1>3. QED
  BY <1>2, ChangesInvariance, PTL DEF WorseNeverScoresBetter

LEMMA ActionTaken ==
    ASSUME NEW d \in Diagnosis, NEW s \in Severity, d /= "healthy"
    PROVE  ActionFor(d, s) /= "no_action"
<1>1. UsualAction[d] /= "no_action"
  BY DEF UsualAction, Diagnosis
<1>2. d \in DOMAIN CriticalAction => CriticalAction[d] /= "no_action"
  BY DEF CriticalAction
<1>3. QED
  BY <1>1, <1>2 DEF ActionFor

\* More points are lost than the conditions without a rule can cost, so a
\* condition with a rule holds.
LEMMA RuledPenalty ==
    ASSUME NEW i \in Inputs, NEW h \in Thresholds, Penalties(i, h) > Unruled
    PROVE  \/ PeersBeyond(i, h.apCritical)
           \/ i.loaded
           \/ \E m \in {"rssi", "snr", "loss", "latency", "jitter"} :
                  Beyond(i, m, h.critical) \/ Beyond(i, m, h.warning)
<1> SUFFICES ASSUME ~PeersBeyond(i, h.apCritical), ~i.loaded,
                    \A m \in {"rssi", "snr", "loss", "latency", "jitter"} :
                        ~Beyond(i, m, h.critical) /\ ~Beyond(i, m, h.warning)
             PROVE  FALSE
  OBVIOUS
<1>1. /\ Penalty(i, h, "rssi") = 0
      /\ Penalty(i, h, "snr") = 0
      /\ Penalty(i, h, "loss") = 0
      /\ Penalty(i, h, "latency") = 0
      /\ Penalty(i, h, "jitter") = 0
  BY DEF Penalty
<1>2. Penalty(i, h, "ccq") \in {0, 5, 12}
  BY DEF Penalty, CriticalPenalty, WarningPenalty
<1>3. PeerPenalty(i, h) \in {0, 5}
  BY DEF PeerPenalty
<1>4. QED
  BY <1>1, <1>2, <1>3 DEF Penalties, Unruled

\* A customer that lost more than the conditions without a rule can cost has a
\* diagnosis and an action, under any thresholds: a rule before the last applies.
THEOREM LostPointsDiagnosed == ChangesSpec => []LostPointsAreDiagnosed
<1>1. ASSUME ChangesInv, result.severity /= "unknown", result.score < 100 - Unruled
      PROVE  /\ result.diagnosis \notin {"healthy", "data_insufficient"}
             /\ result.action /= "no_action"
  <2> USE <1>1 DEF ChangesInv
  <2>1. ~Insufficient(in) /\ result.score = Score(in, t)
    BY DEF ScoreCustomer
  <2>2. Penalties(in, t) > Unruled
    BY <2>1, PenaltiesNat DEF Score, Unruled
  <2>3. \E n \in 2 .. 15 : Rules(in, t)[n].if
    BY <2>2, RuledPenalty, RulesBetween
  <2>4. PICK n \in 1 .. 16 :
            /\ Rules(in, t)[n].if
            /\ \A k \in 1 .. n - 1 : ~Rules(in, t)[k].if
            /\ Classify(in, t) = Rules(in, t)[n].then
    BY FirstRuleDecides
  <2>5. n /= 1
    BY <2>1, <2>4, RulesBetween
  <2>6. n /= 16
    BY <2>3, <2>4
  <2>7. Classify(in, t) \notin {"healthy", "data_insufficient"}
    BY <2>4, <2>5, <2>6, RulesBetween
  <2>8. result.diagnosis = Classify(in, t)
    BY DEF ScoreCustomer
  <2>9. result.action = ActionFor(Classify(in, t), result.severity)
    BY DEF ScoreCustomer
  <2>10. result.severity \in Severity
    BY ResultType DEF Result
  <2>11. result.action /= "no_action"
    BY <2>7, <2>9, <2>10, ClassifyType, ActionTaken
  <2>12. QED
    BY <2>7, <2>8, <2>11
<1>2. ChangesInv => LostPointsAreDiagnosed
  BY <1>1 DEF LostPointsAreDiagnosed
<1>3. QED
  BY <1>2, ChangesInvariance, PTL

-----------------------------------------------------------------------------
(* ScoreRuns: what its runs and tables keep to.                            *)

Peers == [total : Nat, critical : Nat]

IsRun(x) ==
    x \in [pc : {"idle", "load", "next", "peers", "compute", "save"},
           ids : SUBSET Customer, ended : BOOLEAN, t : Thresholds \cup {NULL},
           customer : Customer \cup {NULL}, reading : Reading \cup {NULL},
           cut : BOOLEAN, peers : Peers \cup {NULL}, result : StoredRow \cup {NULL}]

\* What a run has once it has got so far; only a context that has ended makes
\* it miss something.
RunInv(r) ==
    /\ run[r].pc \in {"next", "peers", "compute", "save"} => run[r].t \in Thresholds
    /\ run[r].customer \in (Customer \ run[r].ids) \cup {NULL}
    /\ run[r].pc \in {"peers", "compute", "save"} => run[r].customer \in Customer
    /\ run[r].cut => run[r].ended
    /\ run[r].pc = "save" =>
           /\ run[r].result \in StoredRow
           /\ run[r].result.at <= clock
           /\ run[r].result.cut => run[r].ended

Holds(r, c) == run[r].pc = "save" /\ run[r].customer = c

\* A customer nobody has raced for: the copy is the newest row, and a result
\* that waits to be saved is the only one and newer than both.
AloneInv(c) ==
    /\ cache[c] = newest[c]
    /\ \A r \in Run : Holds(r, c) =>
           /\ ~Unsaved(r, c)
           /\ newest[c] /= NULL => newest[c].at < run[r].result.at

Stored(row) == row /= NULL => row \in StoredRow /\ row.at <= clock /\ ~row.cut

RunsTables ==
    /\ rows \subseteq Reading
    /\ table \in Thresholds
    /\ \A key \in DOMAIN patch : IsValidThresholdValue(key, patch[key])
    /\ newest = [c \in Customer |-> newest[c]]
    /\ cache = [c \in Customer |-> cache[c]]
    /\ clock \in Nat

RunsInv ==
    /\ RunsTables
    /\ \A c \in Customer : Stored(newest[c]) /\ Stored(cache[c])
    /\ run = [r \in Run |-> run[r]]
    /\ \A r \in Run : IsRun(run[r]) /\ RunInv(r)
    /\ \A c \in Customer \ raced : AloneInv(c)

LEMMA DefaultsTyped == DefaultThresholds \in Thresholds
BY DEF DefaultThresholds, Thresholds, Metric

\* An update that the API accepts leaves a table that the engine works with.
LEMMA OverrideTyped ==
    ASSUME NEW h \in Thresholds, NEW key, NEW value, IsValidThresholdValue(key, value)
    PROVE  Override(h, key, value) \in Thresholds
<1>1. key \in ThresholdKey /\ value \in thresholdSpecs(key)[1] .. thresholdSpecs(key)[2]
  BY DEF IsValidThresholdValue
<1>2. CASE key \in {"critical", "warning"} \X Metric
  <2>1. PICK side \in {"critical", "warning"}, m \in Metric : key = <<side, m>>
    BY <1>2
  <2>2. Len(key) = 2 /\ key[1] = side /\ key[2] = m
    BY <2>1
  <2>4. value \in Int
    BY <1>1
  <2>5. Override(h, key, value) = [h EXCEPT ![side][m] = value]
    BY <2>2 DEF Override
  <2>6. QED
    BY <2>4, <2>5 DEF Thresholds
<1>3. ASSUME NEW field \in {"apCritical", "apWarning", "healthyAt", "warningAt"},
             key = <<field>>
      PROVE  Override(h, key, value) \in Thresholds
  <2>1. Len(key) = 1 /\ key[1] = field /\ key /= <<"staleAfter">>
    BY <1>3
  <2>2. value \in 0 .. 100
    BY <1>1, <2>1 DEF thresholdSpecs
  <2>3. Override(h, key, value) = [h EXCEPT ![field] = value]
    BY <2>1 DEF Override
  <2>4. QED
    BY <2>2, <2>3 DEF Thresholds
<1>4. CASE key = <<"staleAfter">>
  <2>1. Len(key) = 1 /\ key[1] = "staleAfter"
    BY <1>4
  <2>2. value \in Int /\ value > 0
    BY <1>1, <1>4, <2>1 DEF thresholdSpecs
  <2>3. Override(h, key, value) = [h EXCEPT !.staleAfter = value]
    BY <2>1 DEF Override
  <2>4. QED
    BY <2>2, <2>3 DEF Thresholds
<1>5. QED
  BY <1>1, <1>2, <1>3, <1>4 DEF ThresholdKey

\* A step of a run that reads: no other run, and no table, notices.
LEMMA ReadStep ==
    ASSUME RunsInv, NEW r \in Run, NEW x, run' = [run EXCEPT ![r] = x], IsRun(x), RunInv(r)',
           UNCHANGED <<rows, table, patch, newest, cache, clock, raced>>,
           x.pc = "save" => /\ run[r].pc = "save"
                            /\ x.customer = run[r].customer
                            /\ x.result = run[r].result
    PROVE  RunsInv'
<1>1. run'[r] = x /\ \A s \in Run \ {r} : run'[s] = run[s]
  BY DEF RunsInv
<1>2. \A s \in Run : IsRun(run'[s]) /\ RunInv(s)'
  <2>1. ASSUME NEW s \in Run \ {r} PROVE RunInv(s)'
    BY <1>1 DEF RunsInv, RunInv
  <2>2. QED
    BY <1>1, <2>1 DEF RunsInv
<1>3. \A s \in Run, c \in Customer : Holds(s, c)' => Holds(s, c) /\ run'[s].result = run[s].result
  BY <1>1 DEF Holds
<1>4. ASSUME NEW c \in Customer \ raced PROVE AloneInv(c)'
  BY <1>3 DEF RunsInv, AloneInv, Unsaved, Holds
<1>5. QED
  BY <1>2, <1>4 DEF RunsInv, RunsTables, Stored

LEMMA StartInv == ASSUME RunsInv, NEW r \in Run, Start(r) PROVE RunsInv'
<1>1. PICK ids \in SUBSET Customer :
          run' = [run EXCEPT ![r] = [Idle EXCEPT !.pc = "load", !.ids = ids]]
  BY DEF Start
<1> DEFINE x == [Idle EXCEPT !.pc = "load", !.ids = ids]
<1>2. /\ x.pc = "load" /\ x.customer = NULL /\ ~x.cut
      /\ IsRun(x)
  BY DEF Idle, IsRun
<1> HIDE DEF x
<1>3. run'[r] = x
  BY <1>1 DEF RunsInv, x
<1>4. RunInv(r)'
  BY <1>2, <1>3 DEF RunInv
<1>5. QED
  BY <1>1, <1>2, <1>4, ReadStep DEF Start, x

LEMMA ContextEndsInv == ASSUME RunsInv, NEW r \in Run, ContextEnds(r) PROVE RunsInv'
<1> DEFINE x == [run[r] EXCEPT !.ended = TRUE]
<1>1. run' = [run EXCEPT ![r] = x]
  BY DEF ContextEnds
<1>2. IsRun(run[r]) /\ RunInv(r)
  BY DEF RunsInv
<1>3. /\ x.pc = run[r].pc /\ x.customer = run[r].customer /\ x.result = run[r].result
      /\ x.ids = run[r].ids /\ x.t = run[r].t /\ x.ended
      /\ IsRun(x)
  BY <1>2 DEF IsRun
<1> HIDE DEF x
<1>4. run'[r] = x
  BY <1>1 DEF RunsInv
<1>5. RunInv(r)'
  BY <1>2, <1>3, <1>4 DEF RunInv, ContextEnds
<1>6. QED
  BY <1>1, <1>3, <1>5, ReadStep DEF ContextEnds

LEMMA LoadThresholdsInv == ASSUME RunsInv, NEW r \in Run, LoadThresholds(r) PROVE RunsInv'
<1>1. PICK h \in {DefaultThresholds, table} :
          run' = [run EXCEPT ![r].pc = "next", ![r].t = h]
  BY DEF LoadThresholds
<1> DEFINE x == [run[r] EXCEPT !.pc = "next", !.t = h]
<1>2. run' = [run EXCEPT ![r] = x]
  BY <1>1
<1>3. IsRun(run[r]) /\ RunInv(r) /\ h \in Thresholds
  BY DefaultsTyped DEF RunsInv, RunsTables
<1>4. /\ x.pc = "next" /\ x.t = h /\ x.ids = run[r].ids /\ x.customer = run[r].customer
      /\ x.cut = run[r].cut /\ x.ended = run[r].ended
      /\ IsRun(x)
  BY <1>3 DEF IsRun
<1> HIDE DEF x
<1>5. run'[r] = x
  BY <1>2 DEF RunsInv
<1>6. RunInv(r)'
  BY <1>3, <1>4, <1>5 DEF RunInv
<1>7. QED
  BY <1>2, <1>4, <1>6, ReadStep DEF LoadThresholds

LEMMA NextFields ==
    ASSUME NEW ids, NEW ended, NEW h, NEW x,
           x = [Idle EXCEPT !.pc = "next", !.ended = ended, !.t = h, !.ids = ids]
    PROVE  x = [pc |-> "next", ids |-> ids, ended |-> ended, t |-> h, customer |-> NULL,
                reading |-> NULL, cut |-> FALSE, peers |-> NULL, result |-> NULL]
BY DEF Idle

\* The record with which a run goes on to its next customer.
NextRun(y) == [Idle EXCEPT !.pc = "next", !.ended = y.ended, !.t = y.t, !.ids = y.ids]

LEMMA NextIsRun ==
    ASSUME NEW y, IsRun(y), y.t \in Thresholds
    PROVE  /\ IsRun(NextRun(y)) /\ NextRun(y).pc = "next" /\ NextRun(y).t = y.t
           /\ ~NextRun(y).cut /\ NextRun(y).customer = NULL
           /\ NextRun(y).peers = NULL /\ NextRun(y).result = NULL
<1> DEFINE x == NextRun(y)
<1>1. x = [pc |-> "next", ids |-> y.ids, ended |-> y.ended, t |-> y.t, customer |-> NULL,
           reading |-> NULL, cut |-> FALSE, peers |-> NULL, result |-> NULL]
  BY NextFields DEF NextRun
<1> HIDE DEF x
<1>2. /\ IsRun(x) /\ x.pc = "next" /\ x.t = y.t /\ ~x.cut
      /\ x.customer = NULL /\ x.peers = NULL /\ x.result = NULL
  BY <1>1 DEF IsRun
<1>3. QED
  BY <1>2 DEF x

\* A run that goes on keeps its thresholds and the customers it has left.
LEMMA OnwardRun ==
    ASSUME RunsInv, NEW r \in Run, NEW y, IsRun(y), y.t \in Thresholds,
           NEW runs, runs[r] = y, \A z : [runs EXCEPT ![r] = z] = [run EXCEPT ![r] = z]
    PROVE  \E x : /\ Onward(runs, r) = [run EXCEPT ![r] = x]
                  /\ IsRun(x) /\ x.pc \in {"idle", "next"}
                  /\ x.customer = NULL /\ x.peers = NULL /\ x.result = NULL /\ ~x.cut
                  /\ x.pc = "next" => x.t \in Thresholds
<1> DEFINE x == IF y.ids = {} THEN Idle ELSE NextRun(y)
<1>1. Onward(runs, r) = [runs EXCEPT ![r] = x]
  BY DEF Onward, NextRun
<1>2. [runs EXCEPT ![r] = x] = [run EXCEPT ![r] = x]
  OBVIOUS
<1>3. /\ IsRun(Idle) /\ Idle.pc = "idle" /\ ~Idle.cut
      /\ Idle.customer = NULL /\ Idle.peers = NULL /\ Idle.result = NULL
  BY DEF IsRun, Idle
<1>4. /\ IsRun(x) /\ x.pc \in {"idle", "next"} /\ ~x.cut
      /\ x.customer = NULL /\ x.peers = NULL /\ x.result = NULL
      /\ x.pc = "next" => x.t \in Thresholds
  <2>1. CASE y.ids = {}
    BY <1>3, <2>1
  <2>2. CASE y.ids /= {}
    BY <2>2, NextIsRun
  <2>3. QED
    BY <2>1, <2>2
<1> HIDE DEF x
<1>5. QED
  BY <1>1, <1>2, <1>4

\* The record of a run that has taken up a customer.
TakenUp(r, c) == [run[r] EXCEPT !.ids = @ \ {c}, !.customer = c, !.pc = "peers"]

LEMMA TakenUpRun ==
    ASSUME RunsInv, NEW r \in Run, run[r].pc = "next", NEW c \in run[r].ids
    PROVE  LET y == TakenUp(r, c) IN
           /\ IsRun(y) /\ y.pc = "peers" /\ y.customer = c /\ y.ids = run[r].ids \ {c}
           /\ y.t \in Thresholds /\ y.ended = run[r].ended /\ y.cut = run[r].cut
           /\ y.peers = run[r].peers /\ y.result = run[r].result
           /\ c \in Customer
<1>1. IsRun(run[r]) /\ RunInv(r)
  BY DEF RunsInv
<1>2. QED
  BY <1>1 DEF TakenUp, IsRun, RunInv

\* What a step that reads makes of a run: only what it had raises an alarm.
ReadRun(x, r) ==
    /\ run' = [run EXCEPT ![r] = x]
    /\ IsRun(x) /\ x.pc \in {"idle", "next", "peers"}
    /\ x.customer \in (Customer \ x.ids) \cup {NULL}
    /\ x.pc = "peers" => x.customer \in Customer
    /\ x.pc \in {"next", "peers"} => x.t \in Thresholds
    /\ x.cut => x.ended
    /\ x.peers \in {run[r].peers, NULL}
    /\ x.result \in {run[r].result, NULL}

\* The next customer is left out, or taken up with a reading or without one.
LEMMA HydrateStep ==
    ASSUME RunsInv, NEW r \in Run, HydrateCustomer(r)
    PROVE  \E x : ReadRun(x, r)
<1>1. PICK c \in run[r].ids :
          LET mine == [run EXCEPT ![r].ids = @ \ {c}, ![r].customer = c, ![r].pc = "peers"]
          IN  \/ run' = Onward(mine, r)
              \/ /\ ~run[r].ended
                 /\ \E reading \in IF rows = {} THEN {NULL} ELSE rows :
                        run' = [mine EXCEPT ![r].reading = reading]
              \/ run' = [mine EXCEPT ![r].cut = run[r].ended]
  BY DEF HydrateCustomer
<1> DEFINE mine == [run EXCEPT ![r].ids = @ \ {c}, ![r].customer = c, ![r].pc = "peers"]
           y == TakenUp(r, c)
<1>2. mine = [run EXCEPT ![r] = y]
  BY DEF TakenUp, RunsInv
<1>3. /\ IsRun(y) /\ y.pc = "peers" /\ y.customer = c /\ y.ids = run[r].ids \ {c}
      /\ y.t \in Thresholds /\ y.ended = run[r].ended /\ y.cut = run[r].cut
      /\ y.peers = run[r].peers /\ y.result = run[r].result
      /\ c \in Customer
  BY TakenUpRun DEF HydrateCustomer
<1>4. (run[r].cut => run[r].ended) /\ rows \subseteq Reading
  BY DEF RunsInv, RunInv, RunsTables
<1>5. /\ run' = Onward(mine, r)
         \/ (\E reading \in Reading \cup {NULL} : run' = [mine EXCEPT ![r].reading = reading])
         \/ run' = [mine EXCEPT ![r].cut = run[r].ended]
  BY <1>1, <1>4
<1> HIDE DEF y, mine
<1>6. mine[r] = y /\ \A z : [mine EXCEPT ![r] = z] = [run EXCEPT ![r] = z]
  BY <1>2 DEF RunsInv
<1>7. CASE run' = Onward(mine, r)
  <2>1. PICK x : /\ Onward(mine, r) = [run EXCEPT ![r] = x]
                 /\ IsRun(x) /\ x.pc \in {"idle", "next"}
                 /\ x.customer = NULL /\ x.peers = NULL /\ x.result = NULL /\ ~x.cut
                 /\ x.pc = "next" => x.t \in Thresholds
    BY <1>3, <1>6, OnwardRun
  <2>2. ReadRun(x, r)
    BY <1>7, <2>1 DEF ReadRun
  <2>3. QED
    BY <2>2
<1>8. ASSUME NEW reading \in Reading \cup {NULL}, run' = [mine EXCEPT ![r].reading = reading]
      PROVE  ReadRun([y EXCEPT !.reading = reading], r)
  BY <1>3, <1>4, <1>6, <1>8 DEF ReadRun, IsRun
<1>9. CASE run' = [mine EXCEPT ![r].cut = run[r].ended]
  <2>1. ReadRun([y EXCEPT !.cut = run[r].ended], r)
    BY <1>3, <1>6, <1>9 DEF ReadRun, IsRun
  <2>2. QED
    BY <2>1
<1>10. QED
  BY <1>5, <1>7, <1>8, <1>9

LEMMA HydrateCustomerInv == ASSUME RunsInv, NEW r \in Run, HydrateCustomer(r) PROVE RunsInv'
<1>1. PICK x : ReadRun(x, r)
  BY HydrateStep
<1>2. run'[r] = x
  BY <1>1 DEF RunsInv, ReadRun
<1>3. RunInv(r)'
  BY <1>1, <1>2 DEF ReadRun, RunInv
<1>4. QED
  BY <1>1, <1>3, ReadStep DEF ReadRun, HydrateCustomer

LEMMA StatsTyped == PeerCustomerStats \in Peers
<1>1. /\ Cardinality(Customer) \in Nat
      /\ \A some \in SUBSET Customer : Cardinality(some) \in Nat
  BY ScoreRunsAssumption, FS_CardinalityType, FS_Subset
<1>2. QED
  BY <1>1 DEF PeerCustomerStats, Peers

LEMMA ReadPeersInv == ASSUME RunsInv, NEW r \in Run, ReadPeers(r) PROVE RunsInv'
<1>1. PICK peers \in Peers \cup {NULL} :
          run' = [run EXCEPT ![r].pc = "compute", ![r].peers = peers,
                             ![r].cut = @ \/ run[r].ended]
  BY StatsTyped DEF ReadPeers
<1> DEFINE x == [run[r] EXCEPT !.pc = "compute", !.peers = peers, !.cut = @ \/ run[r].ended]
<1>2. run' = [run EXCEPT ![r] = x]
  BY <1>1 DEF RunsInv
<1>3. IsRun(run[r]) /\ RunInv(r) /\ run[r].pc = "peers"
  BY DEF RunsInv, ReadPeers
<1>4. /\ x.pc = "compute" /\ x.t = run[r].t /\ x.ids = run[r].ids
      /\ x.customer = run[r].customer /\ x.ended = run[r].ended
      /\ x.cut = (run[r].cut \/ run[r].ended)
      /\ IsRun(x)
  BY <1>3 DEF IsRun
<1> HIDE DEF x
<1>5. run'[r] = x
  BY <1>2 DEF RunsInv
<1>6. RunInv(r)'
  BY <1>3, <1>4, <1>5 DEF RunInv
<1>7. QED
  BY <1>2, <1>4, <1>6, ReadStep DEF ReadPeers

LEMMA InputsTyped ==
    ASSUME RunsInv, NEW r \in Run, NEW peers \in Peers \cup {NULL}
    PROVE  InputsOf(r, peers) \in Inputs
<1>1. run[r].reading \in Reading \cup {NULL}
  BY DEF RunsInv, IsRun
<1>2. \A m \in {"rssi", "snr"} : run[r].reading /= NULL => run[r].reading[m] \in Int
  BY <1>1, ScoreRunsAssumption
<1>3. QED
  BY <1>2 DEF InputsOf, Inputs, Peers

LEMMA RowTyped ==
    ASSUME RunsInv, NEW r \in Run, run[r].pc = "compute", NEW at \in Nat \ {0}
    PROVE  Row(r, at) \in StoredRow /\ Row(r, at).at = at /\ Row(r, at).cut = run[r].cut
<1>1. IsRun(run[r]) /\ run[r].t \in Thresholds
  BY DEF RunsInv, RunInv
<1>2. run[r].peers \in Peers \cup {NULL} /\ run[r].cut \in BOOLEAN
  BY <1>1 DEF IsRun
<1>3. Computed(r, run[r].peers) \in Result
  BY <1>1, <1>2, InputsTyped, ResultType DEF Computed
<1>4. QED
  BY <1>2, <1>3 DEF Row, StoredRow, Result

LEMMA ComputeInv == ASSUME RunsInv, NEW r \in Run, Compute(r) PROVE RunsInv'
<1> DEFINE row == Row(r, clock + 1)
           x == [run[r] EXCEPT !.pc = "save", !.result = row, !.reading = NULL, !.peers = NULL]
           c == run[r].customer
<1>1. IsRun(run[r]) /\ RunInv(r) /\ run[r].pc = "compute" /\ clock \in Nat
  BY DEF RunsInv, Compute, RunsTables
<1>2. clock' = clock + 1 /\ run' = [run EXCEPT ![r] = x]
  BY DEF Compute, RunsInv
<1>3. row \in StoredRow /\ row.at = clock + 1 /\ row.cut = run[r].cut
  BY <1>1, RowTyped
<1> HIDE DEF row
<1>4. /\ x.pc = "save" /\ x.result = row /\ x.customer = c /\ x.ids = run[r].ids
      /\ x.t = run[r].t /\ x.cut = run[r].cut /\ x.ended = run[r].ended
      /\ IsRun(x)
  BY <1>1, <1>3 DEF IsRun
<1> HIDE DEF x
<1>5. run'[r] = x /\ \A s \in Run \ {r} : run'[s] = run[s]
  BY <1>2 DEF RunsInv
<1>6. RunInv(r)'
  BY <1>1, <1>2, <1>3, <1>4, <1>5 DEF RunInv
<1>7. ASSUME NEW s \in Run \ {r} PROVE IsRun(run'[s]) /\ RunInv(s)'
  BY <1>1, <1>2, <1>5 DEF RunsInv, RunInv, StoredRow
<1>8. ASSUME NEW d \in Customer PROVE Stored(newest[d])' /\ Stored(cache[d])'
  BY <1>1, <1>2 DEF RunsInv, Stored, Compute, StoredRow
<1>9. ASSUME NEW d \in Customer \ raced' PROVE AloneInv(d)'
  <2>1. d \notin raced /\ (d = c => ~Unsaved(r, c))
    BY DEF Compute
  <2>2. AloneInv(d) /\ Stored(newest[d]) /\ UNCHANGED <<newest, cache>>
    BY <2>1 DEF RunsInv, Compute
  <2>3. ASSUME NEW s \in Run, Holds(s, d)'
        PROVE  /\ ~Unsaved(s, d)'
               /\ newest[d] /= NULL => newest[d].at < run'[s].result.at
    <3>1. CASE s = r
      BY <1>1, <1>3, <1>4, <1>5, <2>1, <2>2, <2>3, <3>1 DEF Holds, Unsaved, Stored, StoredRow
    <3>2. CASE s /= r
      <4>1. Holds(s, d) /\ run'[s] = run[s]
        BY <1>5, <2>3, <3>2 DEF Holds
      <4>2. d /= c
        BY <2>1, <3>2, <4>1 DEF Unsaved, Holds
      <4>3. QED
        BY <1>4, <1>5, <2>2, <4>1, <4>2 DEF AloneInv, Unsaved
    <3>3. QED
      BY <3>1, <3>2
  <2>4. QED
    BY <2>2, <2>3 DEF AloneInv
<1>10. run' = [s \in Run |-> run'[s]]
  BY <1>2 DEF RunsInv
<1>11. RunsTables'
  BY <1>1, <1>2 DEF RunsInv, RunsTables, Compute
<1>12. QED
  BY <1>4, <1>5, <1>6, <1>7, <1>8, <1>9, <1>10, <1>11 DEF RunsInv

\* A run gives its result away: it is as if the run had never held one.
LEMMA SaveLeaves ==
    ASSUME RunsInv, NEW r \in Run, SaveCustomerScore(r)
    PROVE  /\ IsRun(run'[r]) /\ RunInv(r)' /\ run'[r].pc \in {"idle", "next"}
           /\ run'[r].peers = NULL /\ run'[r].result = NULL
           /\ \A s \in Run \ {r} : run'[s] = run[s]
           /\ run' = [s \in Run |-> run'[s]]
<1>1. IsRun(run[r]) /\ RunInv(r) /\ run[r].pc = "save"
  BY DEF RunsInv, SaveCustomerScore
<1>2. PICK x : /\ Onward(run, r) = [run EXCEPT ![r] = x]
               /\ IsRun(x) /\ x.pc \in {"idle", "next"}
               /\ x.customer = NULL /\ x.peers = NULL /\ x.result = NULL /\ ~x.cut
               /\ x.pc = "next" => x.t \in Thresholds
  BY <1>1, OnwardRun DEF RunInv
<1>3. run' = [run EXCEPT ![r] = x]
  BY <1>2 DEF SaveCustomerScore
<1>4. run'[r] = x /\ run' = [s \in Run |-> run'[s]] /\ \A s \in Run \ {r} : run'[s] = run[s]
  BY <1>3 DEF RunsInv
<1>5. RunInv(r)'
  BY <1>2, <1>4 DEF RunInv
<1>6. QED
  BY <1>2, <1>4, <1>5

LEMMA SaveInv == ASSUME RunsInv, NEW r \in Run, SaveCustomerScore(r) PROVE RunsInv'
<1>0. PICK c, row : c = run[r].customer /\ row = run[r].result
  OBVIOUS
<1>1. /\ RunInv(r) /\ run[r].pc = "save" /\ c \in Customer /\ row \in StoredRow /\ row.at <= clock
      /\ UNCHANGED <<rows, table, patch, clock, taken>>
  BY <1>0 DEF RunsInv, RunInv, SaveCustomerScore
<1>2. /\ IsRun(run'[r]) /\ RunInv(r)' /\ run'[r].pc \in {"idle", "next"}
      /\ \A s \in Run \ {r} : run'[s] = run[s]
      /\ run' = [s \in Run |-> run'[s]]
  BY SaveLeaves
<1>3. \A s \in Run : IsRun(run'[s]) /\ RunInv(s)'
  <2>1. ASSUME NEW s \in Run \ {r} PROVE RunInv(s)'
    BY <1>1, <1>2 DEF RunsInv, RunInv
  <2>2. QED
    BY <1>2, <2>1 DEF RunsInv
<1>4. ASSUME NEW s \in Run, NEW d \in Customer, Holds(s, d)'
      PROVE  s /= r /\ Holds(s, d) /\ run'[s] = run[s]
  BY <1>2, <1>4 DEF Holds
<1>5. ASSUME NEW s \in Run, NEW d \in Customer, ~Unsaved(s, d)
      PROVE  ~Unsaved(s, d)'
  BY <1>2, <1>5 DEF Unsaved
<1>6. CASE UNCHANGED <<newest, cache, raced>>
  <2>1. \A d \in Customer \ raced : AloneInv(d)'
    BY <1>4, <1>5, <1>6 DEF RunsInv, AloneInv
  <2>2. QED
    BY <1>1, <1>2, <1>3, <1>6, <2>1 DEF RunsInv, RunsTables, Stored
<1>7. CASE ~run[r].ended /\ Save(r, c)
  <2>1. /\ cache' = [cache EXCEPT ![c] = row]
        /\ newest' = [newest EXCEPT ![c] = IF @ = NULL \/ @.at < row.at THEN row ELSE @]
        /\ raced' = IF newest'[c] = row /\ ~Unsaved(r, c) THEN raced \ {c} ELSE raced
    BY <1>0, <1>7 DEF Save
  <2>2. /\ cache'[c] = row
        /\ newest'[c] = IF newest[c] = NULL \/ newest[c].at < row.at THEN row ELSE newest[c]
        /\ \A d \in Customer \ {c} : cache'[d] = cache[d] /\ newest'[d] = newest[d]
        /\ cache' = [d \in Customer |-> cache'[d]] /\ newest' = [d \in Customer |-> newest'[d]]
    BY <1>1, <2>1 DEF RunsInv, RunsTables
  <2>3. Stored(row)
    BY <1>0, <1>1, <1>7 DEF Stored, RunInv
  <2>4. \A d \in Customer : Stored(newest[d])' /\ Stored(cache[d])'
    BY <1>1, <2>2, <2>3 DEF RunsInv, Stored
  <2>5. ASSUME NEW d \in Customer \ raced' PROVE AloneInv(d)'
    <3>1. CASE d /= c
      <4>1. AloneInv(d) /\ cache'[d] = cache[d] /\ newest'[d] = newest[d]
        BY <2>1, <2>2, <3>1 DEF RunsInv
      <4>2. QED
        BY <1>4, <1>5, <4>1 DEF AloneInv
    <3>2. CASE d = c
      <4>1. newest'[c] = row /\ ~Unsaved(r, c)
        <5>1. CASE c \in raced
          BY <2>1, <3>2, <5>1
        <5>2. CASE c \notin raced
          BY <1>0, <1>1, <2>2, <5>2 DEF RunsInv, AloneInv, Holds
        <5>3. QED
          BY <5>1, <5>2
      <4>2. \A s \in Run : ~Holds(s, c)'
        BY <1>1, <1>4, <4>1 DEF Unsaved, Holds
      <4>3. QED
        BY <2>2, <3>2, <4>1, <4>2 DEF AloneInv
    <3>3. QED
      BY <3>1, <3>2
  <2>6. QED
    BY <1>1, <1>2, <1>3, <2>2, <2>4, <2>5 DEF RunsInv, RunsTables
<1>8. QED
  BY <1>0, <1>6, <1>7 DEF SaveCustomerScore

LEMMA PollInv == ASSUME RunsInv, PollAccessPoint PROVE RunsInv'
<1>1. rows' \subseteq Reading
  BY ScoreRunsAssumption DEF PollAccessPoint
<1>2. QED
  BY <1>1 DEF PollAccessPoint, RunsInv, RunsTables, RunInv, AloneInv, Unsaved, Holds, Stored

LEMMA PatchInv == ASSUME RunsInv, PatchThresholds \/ UpsertThreshold PROVE RunsInv'
<1>1. CASE PatchThresholds
  BY <1>1 DEF PatchThresholds, RunsInv, RunsTables, RunInv, AloneInv, Unsaved, Holds, Stored
<1>2. CASE UpsertThreshold
  <2>1. PICK key \in DOMAIN patch :
            /\ patch' = [other \in DOMAIN patch \ {key} |-> patch[other]]
            /\ table' \in {table, Override(table, key, patch[key])}
    BY <1>2 DEF UpsertThreshold
  <2>2. table' \in Thresholds
    BY <2>1, OverrideTyped DEF RunsInv, RunsTables
  <2>3. \A other \in DOMAIN patch' : IsValidThresholdValue(other, patch'[other])
    BY <2>1 DEF RunsInv, RunsTables
  <2>4. QED
    BY <1>2, <2>2, <2>3
       DEF UpsertThreshold, RunsInv, RunsTables, RunInv, AloneInv, Unsaved, Holds, Stored
<1>3. QED
  BY <1>1, <1>2

LEMMA RunsInitInv == Init => RunsInv
<1> SUFFICES ASSUME Init PROVE RunsInv
  OBVIOUS
<1>1. IsRun(Idle) /\ Idle.pc = "idle" /\ Idle.customer = NULL /\ ~Idle.cut
  BY DEF Idle, IsRun
<1>2. \A r \in Run : run[r] = Idle /\ IsRun(run[r]) /\ RunInv(r)
  BY <1>1 DEF Init, RunInv
<1>3. \A c \in Customer : AloneInv(c) /\ Stored(newest[c]) /\ Stored(cache[c])
  BY <1>1, <1>2 DEF Init, AloneInv, Stored, Holds
<1>4. RunsTables
  BY DefaultsTyped DEF Init, RunsTables
<1>5. QED
  BY <1>2, <1>3, <1>4 DEF Init, RunsInv

LEMMA RunsNextInv == RunsInv /\ [Next]_vars => RunsInv'
<1> SUFFICES ASSUME RunsInv, [Next]_vars PROVE RunsInv'
  OBVIOUS
<1>1. CASE UNCHANGED vars
  BY <1>1 DEF vars, RunsInv, RunsTables, RunInv, AloneInv, Unsaved, Holds, Stored
<1>2. CASE PollAccessPoint \/ PatchThresholds \/ UpsertThreshold
  BY <1>2, PollInv, PatchInv
<1>3. ASSUME NEW r \in Run, Start(r) \/ ContextEnds(r) \/ Step(r) PROVE RunsInv'
  BY <1>3, StartInv, ContextEndsInv, LoadThresholdsInv, HydrateCustomerInv, ReadPeersInv,
     ComputeInv, SaveInv DEF Step
<1>4. QED
  BY <1>1, <1>2, <1>3 DEF Next

\* The inductive invariant of the scoring runs.
THEOREM RunsInvariance == Spec => []RunsInv
BY RunsInitInv, RunsNextInv, PTL DEF Spec

\* Whatever customers, readings and patches there are, tables and runs keep
\* their types, and no patch leaves a threshold that the engine cannot use.
THEOREM RunsTypeCorrect == Spec => []RunsTypeOK
<1>1. RunsInv => RunsTypeOK
  <2> SUFFICES ASSUME RunsInv PROVE RunsTypeOK
    OBVIOUS
  <2>1. \A c \in Customer : newest[c] \in StoredRow \cup {NULL} /\ cache[c] \in StoredRow \cup {NULL}
    BY DEF RunsInv, Stored
  <2>2. newest \in [Customer -> StoredRow \cup {NULL}] /\ cache \in [Customer -> StoredRow \cup {NULL}]
    BY <2>1 DEF RunsInv, RunsTables
  <2>3. ASSUME NEW r \in Run
        PROVE  /\ run[r].pc \in {"idle", "load", "next", "peers", "compute", "save"}
               /\ run[r].t = NULL \/ run[r].t \in Thresholds
               /\ run[r].customer \in (Customer \ run[r].ids) \cup {NULL}
               /\ run[r].pc = "save" => run[r].result \in StoredRow
    BY DEF RunsInv, RunInv, IsRun
  <2>4. QED
    BY <2>2, <2>3 DEF RunsTypeOK, RunsInv, RunsTables
<1>2. QED
  BY <1>1, RunsInvariance, PTL

\* Unless two runs held a result for a customer at once, the copy of its score
\* is the newest row, for any number of runs and customers.
THEOREM CacheIsNewestHolds == Spec => []CacheIsNewest
<1>1. RunsInv => CacheIsNewest
  BY DEF RunsInv, AloneInv, CacheIsNewest
<1>2. QED
  BY <1>1, RunsInvariance, PTL

\* However a run is cut short, no score that it made of half its inputs is
\* stored.
THEOREM NoScoreIsCutShortHolds == Spec => []NoScoreIsCutShort
<1>1. RunsInv => NoScoreIsCutShort
  BY DEF RunsInv, Stored, NoScoreIsCutShort
<1>2. QED
  BY <1>1, RunsInvariance, PTL

-----------------------------------------------------------------------------
(* The feedback of earlier scores.                                         *)

\* Peers of whom none is critical cost what no peers cost, if the thresholds
\* ask for any at all.
LEMMA WellPeersCostNothing ==
    ASSUME NEW i \in Inputs, NEW j \in Inputs, NEW h \in Thresholds,
           h.apCritical /= 0, h.apWarning /= 0,
           i.peers /= NULL => i.peers.critical = 0,
           j.peers = NULL, j.metric = i.metric,
           ~i.dropping, ~j.dropping, ~i.falling, ~j.falling, ~i.loaded, ~j.loaded
    PROVE  ScoreCustomer(i, h).severity = ScoreCustomer(j, h).severity
<1>1. ASSUME NEW percent \in 1 .. 100 PROVE ~PeersBeyond(i, percent) /\ ~PeersBeyond(j, percent)
  <2>1. SUFFICES ASSUME i.peers /= NULL, i.peers.total > 0
                 PROVE  ~(100 * i.peers.critical >= percent * i.peers.total)
    BY DEF PeersBeyond
  <2>2. i.peers.total \in Nat /\ i.peers.critical = 0
    BY <2>1 DEF Inputs
  <2>3. percent * i.peers.total > 0
    BY <2>1, <2>2
  <2>4. QED
    BY <2>2, <2>3
<1>2. h.apCritical \in 1 .. 100 /\ h.apWarning \in 1 .. 100
  BY DEF Thresholds
<1>3. PeerPenalty(i, h) = 0 /\ PeerPenalty(j, h) = 0
  BY <1>1, <1>2 DEF PeerPenalty
<1>4. \A m \in {"rssi", "snr", "ccq", "loss", "latency", "jitter"} :
          Penalty(i, h, m) = Penalty(j, h, m)
  BY DEF Penalty, Beyond
<1>5. Penalties(i, h) = Penalties(j, h)
  BY <1>3, <1>4 DEF Penalties
<1>6. Score(i, h) = Score(j, h) /\ Insufficient(i) = Insufficient(j)
  BY <1>5 DEF Score, Insufficient
<1>7. QED
  BY <1>6 DEF ScoreCustomer

\* No step but Compute makes a critical result of what was none.
LEMMA OtherStepsRaiseNothing ==
    ASSUME RunsInv, NEW r \in Run, ~Alarmed,
           Start(r) \/ ContextEnds(r) \/ LoadThresholds(r) \/ HydrateCustomer(r)
               \/ ReadPeers(r) \/ SaveCustomerScore(r)
    PROVE  ~Alarmed'
<1> DEFINE Quiet(x) == /\ x.peers /= NULL => ~(x.peers.critical > 0)
                       /\ x.result /= NULL => x.result.severity /= "critical"
           Well(row) == row /= NULL => row.severity /= "critical"
<1>1. /\ IsRun(run[r]) /\ \A s \in Run : Quiet(run[s])
      /\ \A c \in Customer : Well(cache[c])
  BY DEF RunsInv, Alarmed
<1>2. SUFFICES /\ \A s \in Run : Quiet(run'[s])
               /\ \A c \in Customer : Well(cache'[c])
  BY DEF Alarmed
<1>3. ASSUME NEW x, run' = [run EXCEPT ![r] = x], Quiet(x), UNCHANGED cache
      PROVE  /\ \A s \in Run : Quiet(run'[s])
             /\ \A c \in Customer : Well(cache'[c])
  <2>1. run'[r] = x /\ \A s \in Run \ {r} : run'[s] = run[s]
    BY <1>3 DEF RunsInv
  <2> HIDE DEF Quiet
  <2>2. QED
    BY <1>1, <1>3, <2>1
<1>4. CASE Start(r)
  <2>1. PICK ids : run' = [run EXCEPT ![r] = [Idle EXCEPT !.pc = "load", !.ids = ids]]
    BY <1>4 DEF Start
  <2>2. Quiet([Idle EXCEPT !.pc = "load", !.ids = ids])
    BY DEF Idle
  <2>3. QED
    BY <1>3, <1>4, <2>1, <2>2 DEF Start
<1>5. CASE ContextEnds(r)
  <2>1. Quiet([run[r] EXCEPT !.ended = TRUE])
    BY <1>1 DEF IsRun
  <2>2. QED
    BY <1>3, <1>5, <2>1 DEF ContextEnds
<1>6. CASE LoadThresholds(r)
  <2>1. PICK h : run' = [run EXCEPT ![r].pc = "next", ![r].t = h]
    BY <1>6 DEF LoadThresholds
  <2>2. run' = [run EXCEPT ![r] = [run[r] EXCEPT !.pc = "next", !.t = h]]
    BY <2>1
  <2>3. Quiet([run[r] EXCEPT !.pc = "next", !.t = h])
    BY <1>1 DEF IsRun
  <2>4. QED
    BY <1>3, <1>6, <2>2, <2>3 DEF LoadThresholds
<1>7. CASE HydrateCustomer(r)
  <2>1. PICK x : ReadRun(x, r)
    BY <1>7, HydrateStep
  <2>2. Quiet(x)
    BY <1>1, <2>1 DEF ReadRun
  <2>3. QED
    BY <1>3, <1>7, <2>1, <2>2 DEF ReadRun, HydrateCustomer
<1>8. CASE ReadPeers(r)
  <2>1. {c \in Customer : cache[c] /= NULL /\ cache[c].severity = "critical"} = {}
    BY <1>1
  <2>2. PeerCustomerStats.critical = 0
    BY <2>1, FS_EmptySet DEF PeerCustomerStats
  <2>3. PICK peers \in {NULL, PeerCustomerStats} :
            run' = [run EXCEPT ![r].pc = "compute", ![r].peers = peers,
                               ![r].cut = @ \/ run[r].ended]
    BY <1>8 DEF ReadPeers
  <2> DEFINE x == [run[r] EXCEPT !.pc = "compute", !.peers = peers, !.cut = @ \/ run[r].ended]
  <2>4. run' = [run EXCEPT ![r] = x]
    BY <2>3 DEF RunsInv
  <2>5. x.peers = peers /\ x.result = run[r].result
    BY <1>1 DEF IsRun
  <2>6. Quiet(x)
    BY <1>1, <2>2, <2>3, <2>5
  <2> HIDE DEF x, Quiet
  <2>7. QED
    BY <1>3, <1>8, <2>4, <2>6 DEF ReadPeers
<1>9. CASE SaveCustomerScore(r)
  <2>1. \A s \in Run : Quiet(run'[s])
    BY <1>1, <1>9, SaveLeaves
  <2>2. run[r].pc = "save" /\ run[r].result \in StoredRow /\ run[r].customer \in Customer
    BY <1>9 DEF RunsInv, RunInv, SaveCustomerScore
  <2>3. Well(run[r].result)
    BY <1>1
  <2>4. UNCHANGED cache \/ cache' = [cache EXCEPT ![run[r].customer] = run[r].result]
    BY <1>9 DEF SaveCustomerScore, Save
  <2>5. \A c \in Customer : cache'[c] = cache[c] \/ cache'[c] = run[r].result
    BY <2>4 DEF RunsInv, RunsTables
  <2>6. QED
    BY <1>1, <2>1, <2>3, <2>5
<1>10. QED
  BY <1>4, <1>5, <1>6, <1>7, <1>8, <1>9

\* A result that is critical while nothing was is critical for its own
\* readings.
LEMMA ComputedAlone ==
    ASSUME RunsInv, NEW r \in Run, Compute(r), ~Alarmed, Alarmed'
    PROVE  \/ Computed(r, NULL).severity = "critical"
           \/ run[r].t.apCritical = 0
           \/ run[r].t.apWarning = 0
<1> DEFINE row == Row(r, clock + 1)
           x == [run[r] EXCEPT !.pc = "save", !.result = row, !.reading = NULL, !.peers = NULL]
           peers == run[r].peers
<1>1. IsRun(run[r]) /\ run[r].t \in Thresholds /\ run[r].pc = "compute" /\ UNCHANGED cache
  BY DEF RunsInv, RunInv, Compute
<1>2. run' = [run EXCEPT ![r] = x]
  BY DEF Compute, RunsInv
<1>3. x.peers = NULL /\ x.result = row
  BY <1>1 DEF IsRun
<1> HIDE DEF x
<1>4. run'[r] = x /\ \A s \in Run \ {r} : run'[s] = run[s]
  BY <1>2 DEF RunsInv
<1>5. row.severity = "critical"
  BY <1>1, <1>3, <1>4 DEF Alarmed
<1>6. Computed(r, peers).severity = "critical"
  BY <1>5 DEF Row
<1>7. peers \in Peers \cup {NULL} /\ (peers /= NULL => peers.critical = 0)
  <2>1. peers \in Peers \cup {NULL} /\ ~(peers /= NULL /\ peers.critical > 0)
    BY <1>1 DEF IsRun, Alarmed
  <2>2. QED
    BY <2>1 DEF Peers
<1>8. SUFFICES ASSUME run[r].t.apCritical /= 0, run[r].t.apWarning /= 0
               PROVE  Computed(r, NULL).severity = Computed(r, peers).severity
  BY <1>6
<1> DEFINE i == InputsOf(r, peers)
           j == InputsOf(r, NULL)
<1>9. i \in Inputs /\ j \in Inputs
  BY <1>7, InputsTyped
<1>10. /\ i.peers = peers /\ j.peers = NULL /\ j.metric = i.metric
       /\ ~i.dropping /\ ~j.dropping /\ ~i.falling /\ ~j.falling /\ ~i.loaded /\ ~j.loaded
  BY DEF InputsOf
<1> HIDE DEF i, j
<1>11. ScoreCustomer(i, run[r].t).severity = ScoreCustomer(j, run[r].t).severity
  BY <1>1, <1>7, <1>8, <1>9, <1>10, WellPeersCostNothing
<1>12. QED
  BY <1>11 DEF Computed, i, j

\* The first critical customer of an access point is critical by its own
\* readings: the penalty for critical peers raises no alarm by itself, however
\* many runs, customers and readings there are.
THEOREM AlarmsHaveASourceHolds == Spec => AlarmsHaveASource
<1> DEFINE Source ==
        ~Alarmed /\ Alarmed' =>
            \E r \in Run :
                /\ run[r].pc = "compute"
                /\ \/ Computed(r, NULL).severity = "critical"
                   \/ run[r].t.apCritical = 0
                   \/ run[r].t.apWarning = 0
<1>1. ASSUME RunsInv, Next, ~Alarmed, Alarmed' PROVE Source
  <2>1. ~(PollAccessPoint \/ PatchThresholds \/ UpsertThreshold)
    BY <1>1 DEF PollAccessPoint, PatchThresholds, UpsertThreshold, Alarmed
  <2>2. PICK r \in Run : Start(r) \/ ContextEnds(r) \/ Step(r)
    BY <1>1, <2>1 DEF Next
  <2>3. Compute(r)
    BY <1>1, <2>2, OtherStepsRaiseNothing DEF Step
  <2>4. run[r].pc = "compute"
    BY <2>3 DEF Compute
  <2>5. QED
    BY <1>1, <2>3, <2>4, ComputedAlone
<1>2. RunsInv /\ [Next]_vars => [Source]_vars
  BY <1>1
<1>3. QED
  BY <1>2, RunsInvariance, PTL DEF Spec, AlarmsHaveASource
=============================================================================
