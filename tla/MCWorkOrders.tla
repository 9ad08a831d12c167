---------------------------- MODULE MCWorkOrders ----------------------------
(***************************************************************************)
(* A small instance of WorkOrders: one order, two requests racing for it,  *)
(* and enough transactions for two races to follow each other.             *)
(***************************************************************************)
EXTENDS WorkOrders

CONSTANTS w1, r1, r2, ann, bob, eta1

MCWorkOrder == {w1}
MCRequest == {r1, r2}
MCAssignee == {ann, bob}
MCEta == {eta1}

MCPromotions ==
    {[priority |-> "medium", assignee |-> ann, eta |-> NULL],
     [priority |-> "medium", assignee |-> NULL, eta |-> eta1]}

Body(status, priority, assignee, eta, note) ==
    [status |-> status, priority |-> priority, assignee |-> assignee,
     eta |-> eta, note |-> note]

\* Every status a client can name, and bodies that change several columns.
MCPatchInputs ==
    {Body(s, NULL, NULL, NULL, FALSE) : s \in Status \ {"cancelled"}}
    \cup {Body("in_progress", "urgent", NULL, NULL, TRUE),
          Body(NULL, "low", Clear, NULL, TRUE),
          Body("resolved", NULL, ann, Clear, FALSE),
          Body(NULL, NULL, NULL, eta1, FALSE)}

MCAppendTypes == {"note_added", "resolved"}
=============================================================================
