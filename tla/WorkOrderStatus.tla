--------------------------- MODULE WorkOrderStatus ---------------------------
(***************************************************************************)
(* The vocabulary of internal/workorders/workorders.go: the statuses and   *)
(* priorities of a work order and the transition table both the PATCH path *)
(* and the resolve/cancel shortcuts consult before they write.             *)
(***************************************************************************)

Status == {"open", "assigned", "in_progress", "resolved", "cancelled"}

Priority == {"low", "medium", "high", "urgent"}

\* The state machine: a status never moves to itself, and a closed order
\* never moves at all.
CanTransition(from, to) ==
    \/ from = "open"        /\ to \in {"assigned", "in_progress", "cancelled"}
    \/ from = "assigned"    /\ to \in {"in_progress", "open", "cancelled"}
    \/ from = "in_progress" /\ to \in {"resolved", "open", "cancelled"}

IsTerminal(s) == s \in {"resolved", "cancelled"}
=============================================================================
