------------------------- MODULE WorkOrderLifecycle -------------------------
(***************************************************************************)
(* What the work order tables promise to a reader that only looks at the   *)
(* status column: an order appears open, then follows the transition table *)
(* one move at a time, whatever requests race for it.  WorkOrders          *)
(* implements this; Candidates uses it as the environment of the orders it *)
(* creates.                                                                *)
(***************************************************************************)
EXTENDS WorkOrderStatus

CONSTANT WorkOrder

VARIABLE status

Absent == "none"

Init == status = [w \in WorkOrder |-> Absent]

Create(w) ==
    /\ status[w] = Absent
    /\ status' = [status EXCEPT ![w] = "open"]

Move(w, to) ==
    /\ CanTransition(status[w], to)
    /\ status' = [status EXCEPT ![w] = to]

Next == \E w \in WorkOrder : Create(w) \/ \E to \in Status : Move(w, to)

Spec == Init /\ [][Next]_status
=============================================================================
