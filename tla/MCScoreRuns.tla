----------------------------- MODULE MCScoreRuns -----------------------------
(***************************************************************************)
(* A small instance of ScoreRuns: two customers, two runs, three scores.   *)
(* A weak client scores 60; with the penalty for degraded peers it scores  *)
(* 48, and 50 separates warning from critical.                             *)
(***************************************************************************)
EXTENDS ScoreRuns, TLC

MCSymmetry == Permutations(Customer) \cup Permutations(Run)

MCWeak == [rssi |-> 82, snr |-> -30]
MCBad  == [rssi |-> 85, snr |-> -10]

MCReading == {MCWeak, MCBad}

\* A run reads any row of the poll, so that this one leaves it the choice.
MCPolls == {{MCWeak, MCBad}}

\* Both are PATCHes of two keys, written one after the other.  The first puts
\* the ratios of the peers in the wrong order: an access point is then always
\* degraded.  The second is refused, since one of its values is out of range.
MCPatches == {
    <<"apCritical">> :> 0 @@ <<"apWarning">> :> 25,
    <<"apCritical">> :> 30 @@ <<"staleAfter">> :> 0}
=============================================================================
