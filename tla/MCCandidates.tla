---------------------------- MODULE MCCandidates ----------------------------
(***************************************************************************)
(* A small instance of Candidates: two requests race for two candidates of *)
(* one customer and diagnosis and for the orders made from them.           *)
(***************************************************************************)
EXTENDS Candidates, TLC

CONSTANTS c1, c2, w1, w2, r1, r2, k1

MCCandidate == {c1, c2}
MCWorkOrder == {w1, w2}
MCRequest == {r1, r2}
MCKey == {k1}
MCPatchTo == {"open", "dismissed", "promoted"}
MCOrderMoves == {"cancelled"}
MCCooldowns == {0, 1}

\* Requests, candidates and orders are interchangeable: nothing compares them.
MCSymmetry ==
    Permutations(MCCandidate) \cup Permutations(MCWorkOrder)
        \cup Permutations(MCRequest)
=============================================================================
