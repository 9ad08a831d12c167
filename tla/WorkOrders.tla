----------------------------- MODULE WorkOrders -----------------------------
(***************************************************************************)
(* internal/workorders/repository.go and the handlers that call it: the    *)
(* transactions that change one work_orders row and append to its          *)
(* work_order_events timeline.                                             *)
(*                                                                         *)
(* Every HTTP request is a process.  It begins a transaction, waits for    *)
(* the row lock (SELECT ... FOR UPDATE), decides on the row it then reads, *)
(* and commits the UPDATE together with the events.  PostgreSQL's now() is *)
(* the time the transaction began, so the stamps a request writes are as   *)
(* old as its BEGIN, not as its commit: `clock` numbers the BEGINs.        *)
(***************************************************************************)
EXTENDS WorkOrderStatus, Integers, Sequences, FiniteSetsExt

CONSTANTS
    WorkOrder,    \* ids of work orders
    Request,      \* HTTP requests that can be in flight at once
    Assignee,     \* names an order can be assigned to
    Eta,          \* arrival times an operator can promise
    NULL,         \* an SQL NULL, or an input field the client left out
    Promotions,   \* the priority, assignee and eta a promotion may name
    PatchInputs,  \* the PATCH bodies clients send
    AppendTypes,  \* the event types clients name in POST .../events
    MaxTx         \* bound: transactions that handlers begin in a behaviour

\* The value that clears a text field: an empty assignee, or clear_eta.
Clear == ""

PatchInput == [status   : Status \cup {NULL},
               priority : Priority \cup {NULL},
               assignee : Assignee \cup {Clear, NULL},
               eta      : Eta \cup {Clear, NULL},
               note     : BOOLEAN]

ASSUME NamesAssumption ==
    /\ NULL \notin Status \cup Priority \cup Assignee \cup Eta \cup Request
    /\ NULL \notin Nat
    /\ Clear \notin Assignee \cup Eta
    /\ NULL /= Clear

ASSUME MaxTxAssumption == MaxTx \in Nat

VARIABLES
    order,     \* the work_orders table
    timeline,  \* work_order_events of each order, in the order they committed
    lock,      \* the request that holds the row lock of an order
    pc,        \* what each request is waiting for
    req,       \* the operation each request carries
    seen,      \* the row each request read under the lock
    clock      \* number of transactions begun so far

vars == <<order, timeline, lock, pc, req, seen, clock>>

-----------------------------------------------------------------------------
(* Rows, events and requests.                                              *)

Absent == "none"

Row == [status     : Status \cup {Absent},
        priority   : Priority,
        assignee   : Assignee \cup {NULL},
        eta        : Eta \cup {NULL},
        createdAt  : Nat,
        resolvedAt : Nat \cup {NULL}]

NoRow == [status |-> Absent, priority |-> "medium", assignee |-> NULL,
          eta |-> NULL, createdAt |-> 0, resolvedAt |-> NULL]

\* AppendEvent stores whatever event_type the client names, "resolved" too.
StatusEvents == {"created", "status_changed", "resolved", "cancelled"}
EventType == StatusEvents \cup {"assigned", "unassigned", "priority_changed",
                                "eta_updated", "note_added"}

ASSUME InputsAssumption ==
    /\ Promotions \subseteq [priority : Priority, assignee : Assignee \cup {NULL},
                             eta : Eta \cup {NULL}]
    /\ PatchInputs \subseteq PatchInput
    /\ AppendTypes \subseteq EventType

EventValue == Status \cup Priority \cup Assignee \cup Eta \cup {NULL}

Event == [type : EventType, old : EventValue, new : EventValue, at : Nat]

Op == {"patch", "resolve", "cancel", "append"}

NoInput == [status |-> NULL, priority |-> NULL, assignee |-> NULL,
            eta |-> NULL, note |-> FALSE]

\* autoStart is the flag of POST .../assign, type the one of POST .../events.
Req == [op : Op, wo : WorkOrder, input : PatchInput, type : EventType,
        autoStart : BOOLEAN, at : Nat]

Init ==
    /\ order = [w \in WorkOrder |-> NoRow]
    /\ timeline = [w \in WorkOrder |-> <<>>]
    /\ lock = [w \in WorkOrder |-> NULL]
    /\ pc = [r \in Request |-> "idle"]
    /\ req = [r \in Request |-> NULL]
    /\ seen = [r \in Request |-> NoRow]
    /\ clock = 0

-----------------------------------------------------------------------------
(* What a transaction decides and writes, given the row `s` it read under  *)
(* the lock and the request `q`.                                           *)

\* Naming the present status is a no-op and never an invalid transition.
MovesStatus(s, in) == in.status /= NULL /\ in.status /= s.status

ChangesPriority(s, in) == in.priority /= NULL /\ in.priority /= s.priority

Cleared(v) == IF v = Clear THEN NULL ELSE v

ChangesAssignee(s, in) ==
    in.assignee /= NULL /\ Cleared(in.assignee) /= s.assignee

\* (Mutant) Cancel forgets to ask the transition table.
AcceptsAnyCancel(s, q) ==
    CASE q.op = "resolve" -> CanTransition(s.status, "resolved")
      [] q.op = "cancel"  -> TRUE
      [] OTHER -> MovesStatus(s, q.input) =>
                      CanTransition(s.status, q.input.status)

Accepts(s, q) ==
    CASE q.op = "resolve" -> CanTransition(s.status, "resolved")
      [] q.op = "cancel"  -> CanTransition(s.status, "cancelled")
      [] OTHER -> MovesStatus(s, q.input) =>
                      CanTransition(s.status, q.input.status)

\* The UPDATE of Patch sets only the columns that differ from the row read.
Patched(row, s, q) ==
    LET in == q.input
        moves == MovesStatus(s, in)
    IN [status     |-> IF moves THEN in.status ELSE row.status,
        priority   |-> IF ChangesPriority(s, in)
                       THEN in.priority ELSE row.priority,
        assignee   |-> IF ChangesAssignee(s, in)
                       THEN Cleared(in.assignee) ELSE row.assignee,
        eta        |-> IF in.eta /= NULL THEN Cleared(in.eta) ELSE row.eta,
        createdAt  |-> row.createdAt,
        resolvedAt |-> IF moves /\ in.status = "resolved"
                       THEN q.at ELSE row.resolvedAt]

\* (Mutant) Resolve forgets resolved_at.
UpdatedUnstamped(row, s, q) ==
    CASE q.op = "resolve" -> [row EXCEPT !.status = "resolved"]
      [] q.op = "cancel"  -> [row EXCEPT !.status = "cancelled"]
      [] OTHER            -> Patched(row, s, q)

Updated(row, s, q) ==
    CASE q.op = "resolve" ->
             [row EXCEPT !.status = "resolved", !.resolvedAt = q.at]
      [] q.op = "cancel"  -> [row EXCEPT !.status = "cancelled"]
      [] OTHER            -> Patched(row, s, q)

Evt(type, old, new, at) == [type |-> type, old |-> old, new |-> new, at |-> at]

OneIf(cond, e) == IF cond THEN <<e>> ELSE <<>>

\* A note rides on the status_changed event; only without one does it get an
\* event of its own.
PatchEvents(s, q) ==
    LET in == q.input
        to == Cleared(in.assignee)
    IN OneIf(MovesStatus(s, in),
             Evt("status_changed", s.status, in.status, q.at))
       \o OneIf(ChangesPriority(s, in),
                Evt("priority_changed", s.priority, in.priority, q.at))
       \o OneIf(ChangesAssignee(s, in),
                IF to = NULL THEN Evt("unassigned", s.assignee, NULL, q.at)
                             ELSE Evt("assigned", NULL, to, q.at))
       \o OneIf(in.eta /= NULL,
                Evt("eta_updated", NULL, Cleared(in.eta), q.at))
       \o OneIf(in.note /\ ~MovesStatus(s, in),
                Evt("note_added", NULL, NULL, q.at))

Events(s, q) ==
    CASE q.op = "resolve" -> <<Evt("resolved", s.status, "resolved", q.at)>>
      [] q.op = "cancel"  -> <<Evt("cancelled", s.status, "cancelled", q.at)>>
      [] OTHER            -> PatchEvents(s, q)

-----------------------------------------------------------------------------
(* The operations.                                                         *)

\* The part of PromoteCandidate that this component sees: one committed
\* transaction inserts the row and its first events.
InsertOrder(w, in) ==
    /\ order[w].status = Absent
    /\ clock < MaxTx
    /\ clock' = clock + 1
    /\ order' = [order EXCEPT ![w] =
           [NoRow EXCEPT !.status = "open", !.priority = in.priority,
                         !.assignee = in.assignee, !.eta = in.eta,
                         !.createdAt = clock']]
    /\ timeline' = [timeline EXCEPT ![w] =
           <<Evt("created", NULL, "open", clock')>>
           \o OneIf(in.assignee /= NULL,
                    Evt("assigned", NULL, in.assignee, clock'))]
    /\ UNCHANGED <<lock, pc, req, seen>>

\* A handler begins its transaction on an order whose id it was given.
Begin(r, w, op, in, type, autoStart) ==
    /\ pc[r] = "idle"
    /\ order[w].status /= Absent
    /\ clock < MaxTx
    /\ clock' = clock + 1
    /\ req' = [req EXCEPT ![r] =
           [op |-> op, wo |-> w, input |-> in, type |-> type,
            autoStart |-> autoStart, at |-> clock']]
    /\ pc' = [pc EXCEPT ![r] = "waiting"]
    /\ UNCHANGED <<order, timeline, lock, seen>>

HandlePatch(r, w) ==
    \E in \in PatchInputs : Begin(r, w, "patch", in, "note_added", FALSE)

\* Assign is a Patch of the assignee alone; the handler may ask for a second
\* transaction that moves an open order to assigned.
HandleAssign(r, w) ==
    \E a \in Assignee \cup {Clear}, auto \in BOOLEAN :
        Begin(r, w, "patch", [NoInput EXCEPT !.assignee = a], "note_added", auto)

HandleResolve(r, w) == Begin(r, w, "resolve", NoInput, "note_added", FALSE)

HandleCancel(r, w) == Begin(r, w, "cancel", NoInput, "note_added", FALSE)

HandleAppend(r, w) ==
    \E type \in AppendTypes : Begin(r, w, "append", NoInput, type, FALSE)

Finish(r) ==
    /\ pc' = [pc EXCEPT ![r] = "idle"]
    /\ req' = [req EXCEPT ![r] = NULL]
    /\ seen' = [seen EXCEPT ![r] = NoRow]

\* (Mutant) The row is read without FOR UPDATE.
AtRowUnlocked(r) == pc[r] = "waiting"

\* The request is next in line for the row: nobody holds its lock.
AtRow(r) == pc[r] = "waiting" /\ lock[req[r].wo] = NULL

LockRow(r) ==
    /\ AtRow(r)
    /\ req[r].op /= "append"
    /\ Accepts(order[req[r].wo], req[r])
    /\ lock' = [lock EXCEPT ![req[r].wo] = r]
    /\ seen' = [seen EXCEPT ![r] = order[req[r].wo]]
    /\ pc' = [pc EXCEPT ![r] = "holding"]
    /\ UNCHANGED <<order, timeline, req, clock>>

\* ErrInvalidTransition: the deferred rollback leaves no trace.
RefuseRow(r) ==
    /\ AtRow(r)
    /\ req[r].op /= "append"
    /\ ~Accepts(order[req[r].wo], req[r])
    /\ Finish(r)
    /\ UNCHANGED <<order, timeline, lock, clock>>

\* AppendEvent is one INSERT whose foreign key waits for the row lock too.
AppendRow(r) ==
    /\ AtRow(r)
    /\ req[r].op = "append"
    /\ timeline' = [timeline EXCEPT ![req[r].wo] =
           Append(@, Evt(req[r].type, NULL, NULL, req[r].at))]
    /\ Finish(r)
    /\ UNCHANGED <<order, lock, clock>>

\* The handler saw the row its own transaction returned and starts over with
\* a second one; without auto_start the request is done.
StartsOver(r, row) ==
    req[r].autoStart /\ req[r].input.assignee /= Clear /\ row.status = "open"

Commit(r) ==
    /\ pc[r] = "holding"
    /\ LET w == req[r].wo
           row == Updated(order[w], seen[r], req[r])
       IN /\ order' = [order EXCEPT ![w] = row]
          /\ timeline' = [timeline EXCEPT ![w] = @ \o Events(seen[r], req[r])]
          /\ lock' = [lock EXCEPT ![w] = NULL]
          /\ IF StartsOver(r, row)
             THEN /\ pc' = [pc EXCEPT ![r] = "autostart"]
                  /\ seen' = [seen EXCEPT ![r] = NoRow]
                  /\ UNCHANGED req
             ELSE Finish(r)
    /\ UNCHANGED clock

AutoStart(r) ==
    /\ pc[r] = "autostart"
    /\ clock' = clock + 1
    /\ req' = [req EXCEPT ![r] =
           [@ EXCEPT !.input = [NoInput EXCEPT !.status = "assigned"],
                     !.autoStart = FALSE, !.at = clock']]
    /\ pc' = [pc EXCEPT ![r] = "waiting"]
    /\ UNCHANGED <<order, timeline, lock, seen>>

\* (Mutant) A failed request leaves its transaction, and the lock, behind.
AbortKeepingLock(r) ==
    /\ pc[r] /= "idle"
    /\ Finish(r)
    /\ UNCHANGED <<order, timeline, lock, clock>>

\* A statement fails, the client goes away or the API crashes: the database
\* rolls the open transaction back, and a handler between its two
\* transactions never begins the second.
Abort(r) ==
    /\ pc[r] /= "idle"
    /\ lock' = [w \in WorkOrder |-> IF lock[w] = r THEN NULL ELSE lock[w]]
    /\ Finish(r)
    /\ UNCHANGED <<order, timeline, clock>>

Handle(r, w) ==
    \/ HandlePatch(r, w)
    \/ HandleAssign(r, w)
    \/ HandleResolve(r, w)
    \/ HandleCancel(r, w)
    \/ HandleAppend(r, w)

Serve(r) == LockRow(r) \/ RefuseRow(r) \/ AppendRow(r) \/ Commit(r) \/ AutoStart(r)

Next ==
    \/ \E w \in WorkOrder, in \in Promotions : InsertOrder(w, in)
    \/ \E r \in Request :
           (\E w \in WorkOrder : Handle(r, w)) \/ Serve(r) \/ Abort(r)

Spec == Init /\ [][Next]_vars

\* net/http runs every request to its end and PostgreSQL serves a row lock's
\* queue in turn.  Nothing makes a transaction fail, so Abort has no fairness.
FairSpec == Spec /\ \A r \in Request : SF_vars(Serve(r))

-----------------------------------------------------------------------------
(* Properties.                                                             *)

\* The tables hold rows and events of the schema's types, and a request
\* carries an operation exactly while it is under way.
TypeOK ==
    /\ order \in [WorkOrder -> Row]
    /\ timeline \in [WorkOrder -> Seq(Event)]
    /\ lock \in [WorkOrder -> Request \cup {NULL}]
    /\ pc \in [Request -> {"idle", "waiting", "holding", "autostart"}]
    /\ req \in [Request -> Req \cup {NULL}]
    /\ \A r \in Request : pc[r] /= "idle" => req[r] \in Req
    /\ seen \in [Request -> Row]
    /\ clock \in Nat

\* resolved_at is what the reports measure repair time from: it is set on
\* exactly the resolved orders, and never to a time before the order existed,
\* whichever of Patch and Resolve closed it and however long they waited.
ResolvedStamp ==
    \A w \in WorkOrder :
        /\ (order[w].resolvedAt /= NULL) <=> (order[w].status = "resolved")
        /\ order[w].resolvedAt /= NULL => order[w].resolvedAt > order[w].createdAt

\* The events of timeline t that tell of one column are at the positions K.
\* AppendEvent leaves old_value and new_value NULL; that tells what a client
\* typed in from what a transaction recorded.
StatusTrail(t) ==
    {i \in DOMAIN t : t[i].type \in StatusEvents /\ t[i].new /= NULL}

PriorityTrail(t) ==
    {i \in DOMAIN t : t[i].type = "priority_changed" /\ t[i].new /= NULL}

AssigneeTrail(t) ==
    {i \in DOMAIN t : /\ t[i].type \in {"assigned", "unassigned"}
                      /\ t[i].new /= NULL \/ t[i].old /= NULL}

\* What a column that held `first` holds after the first n events.
Replay(t, K, first, n) ==
    LET past == {i \in K : i <= n}
    IN IF past = {} THEN first ELSE t[Max(past)].new

\* The trail is the whole story of the column: it ends at the value the column
\* has now, and each event starts where the one before it ended.  Only
\* "assigned" does not say whom it replaces.
Explains(t, K, first, now) ==
    /\ now = Replay(t, K, first, Len(t))
    /\ \A i \in K : t[i].type /= "assigned" =>
                     t[i].old = Replay(t, K, first, i - 1)

\* No update is lost and no event is made up, however requests interleave:
\* in commit order the timeline replays the row's status, its priority (from
\* one that no event records) and its assignee.
TimelineExplainsRow ==
    \A w \in WorkOrder :
        LET t == timeline[w]
            status == IF order[w].status = Absent THEN NULL ELSE order[w].status
        IN /\ Explains(t, StatusTrail(t), NULL, status)
           /\ \E first \in Priority :
                  Explains(t, PriorityTrail(t), first, order[w].priority)
           /\ Explains(t, AssigneeTrail(t), NULL, order[w].assignee)

\* A closed order never changes status or resolution time again, although its
\* other fields may still be patched.
ClosedIsFrozen ==
    [][\A w \in WorkOrder : IsTerminal(order[w].status) =>
           /\ order'[w].status = order[w].status
           /\ order'[w].resolvedAt = order[w].resolvedAt]_vars

Lifecycle == INSTANCE WorkOrderLifecycle
                 WITH status <- [w \in WorkOrder |-> order[w].status]

\* Racing requests move the status along the transition table one legal step
\* at a time: the transactions implement the lifecycle.
ImplementsLifecycle == Lifecycle!Spec

\* No request waits for a row for ever: every lock taken is given back, also
\* by the requests that fail.
EveryRequestEnds ==
    \A r \in Request : pc[r] /= "idle" ~> pc[r] = "idle"
=============================================================================
