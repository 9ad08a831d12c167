---------------------------- MODULE MCScoreChanges ----------------------------
(***************************************************************************)
(* A small instance of ScoreChanges: measurements are 0 (good), 1 and 2,   *)
(* with the thresholds in the right and in the wrong order.                *)
(***************************************************************************)
EXTENDS ScoreChanges

MCValues == [m \in Metric |->
    CASE m = "loss" -> {NULL, 0, 1, 2}
      [] m \in {"rssi", "snr"} -> {NULL, 1, 2}
      [] OTHER -> {NULL, 2}]

MCPeerCounts == {NULL} \cup {[total |-> 4, critical |-> n] : n \in 1 .. 2}

MCAges == [sample : {0, 2}, test : {2}]

MCSymptoms ==
    {[dropping |-> d, falling |-> d, loaded |-> d /\ l] : d, l \in BOOLEAN}

All(v) == [m \in Metric |-> v]

Defaults == [critical |-> All(2), warning |-> All(1), apCritical |-> 40,
    apWarning |-> 25, healthyAt |-> 80, warningAt |-> 50, staleAfter |-> 1]

MCSettings == {
    Defaults,
    [Defaults EXCEPT !.critical = All(1), !.warning = All(2),
                     !.apCritical = 25, !.apWarning = 40],
    [Defaults EXCEPT !.healthyAt = 30, !.warningAt = 70],
    [Defaults EXCEPT !.healthyAt = 95, !.warningAt = 90]}
=============================================================================
