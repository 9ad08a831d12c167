--------------------------- MODULE WorkOrdersProofs ---------------------------
(***************************************************************************)
(* Proofs about WorkOrders for any number of orders and requests.          *)
(*                                                                         *)
(* The argument rests on the row lock: a request that holds it decided on  *)
(* the row that is still in the table (LockInv), so at commit the guard it *)
(* checked is a fact about the row it overwrites.  The events it appends    *)
(* therefore start where the timeline ended (TimelineInv).                 *)
(***************************************************************************)
EXTENDS WorkOrders, NaturalsInduction, WellFoundedInduction, TLAPS

\* A request under way works on an order that exists, and began after it.
ReqInv ==
    /\ \A w \in WorkOrder : order[w].createdAt <= clock
    /\ \A r \in Request : pc[r] /= "idle" =>
           /\ order[req[r].wo].status /= Absent
           /\ order[req[r].wo].createdAt < req[r].at

\* A holder's row is the row in the table, and the transition it is about to
\* make was accepted.
LockInv ==
    \A r \in Request : pc[r] = "holding" =>
        /\ lock[req[r].wo] = r
        /\ req[r].op /= "append"
        /\ seen[r] = order[req[r].wo]
        /\ Accepts(seen[r], req[r])

Inv == TypeOK /\ ReqInv /\ LockInv

-----------------------------------------------------------------------------
(* What the pure helpers return.                                           *)

\* Clearing a nullable text column gives a name or NULL, never the empty text.
LEMMA ClearedType ==
    ASSUME NEW S, NEW v \in S \cup {Clear}
    PROVE  Cleared(v) \in S \cup {NULL}
  BY DEF Cleared

\* An accepted request turns a row into a row, and the order keeps existing.
LEMMA UpdatedType ==
    ASSUME NEW row \in Row, NEW q \in Req, row.status /= Absent
    PROVE  /\ Updated(row, row, q) \in Row
           /\ Updated(row, row, q).status /= Absent
           /\ Updated(row, row, q).createdAt = row.createdAt
  <1>1. CASE q.op = "resolve"
    BY <1>1 DEF Updated, Row, Req, Absent, Status
  <1>2. CASE q.op = "cancel"
    BY <1>2 DEF Updated, Row, Req, Absent, Status
  <1>3. CASE q.op \notin {"resolve", "cancel"}
    <2>1. Updated(row, row, q) = Patched(row, row, q)
      BY <1>3 DEF Updated
    <2>2. q.input \in PatchInput /\ q.at \in Nat
      BY DEF Req
    <2>3. MovesStatus(row, q.input) => q.input.status \in Status
      BY <2>2 DEF MovesStatus, PatchInput
    <2>4. ChangesPriority(row, q.input) => q.input.priority \in Priority
      BY <2>2 DEF ChangesPriority, PatchInput
    <2>5. ChangesAssignee(row, q.input)
              => Cleared(q.input.assignee) \in Assignee \cup {NULL}
      BY <2>2 DEF ChangesAssignee, PatchInput, Cleared
    <2>6. q.input.eta /= NULL => Cleared(q.input.eta) \in Eta \cup {NULL}
      BY <2>2 DEF PatchInput, Cleared
    <2>7. Patched(row, row, q) \in Row
      BY <2>2, <2>3, <2>4, <2>5, <2>6 DEF Patched, Row
    <2>8. Patched(row, row, q).status /= Absent
      BY <2>3 DEF Patched, Absent, Status
    <2>9. Patched(row, row, q).createdAt = row.createdAt
      BY DEF Patched
    <2> QED  BY <2>1, <2>7, <2>8, <2>9
  <1> QED  BY <1>1, <1>2, <1>3

\* An event list with at most one event is a list of events.
LEMMA OneIfType ==
    ASSUME NEW cond, NEW e, cond => e \in Event
    PROVE  OneIf(cond, e) \in Seq(Event)
  BY DEF OneIf

\* The events of a request are well formed.
LEMMA EventsType ==
    ASSUME NEW s \in Row, NEW q \in Req, s.status /= Absent
    PROVE  Events(s, q) \in Seq(Event)
  <1> DEFINE in == q.input
  <1>1. /\ q.at \in Nat
        /\ in \in PatchInput
        /\ s.status \in Status
        /\ s.priority \in Priority
        /\ s.assignee \in Assignee \cup {NULL}
    BY DEF Row, Req
  <1>2. CASE q.op = "resolve"
    BY <1>1, <1>2 DEF Events, Evt, Event, EventType, StatusEvents, EventValue, Status
  <1>3. CASE q.op = "cancel"
    BY <1>1, <1>3 DEF Events, Evt, Event, EventType, StatusEvents, EventValue, Status
  <1>4. CASE q.op \notin {"resolve", "cancel"}
    <2> DEFINE to == Cleared(in.assignee)
               a == Evt("status_changed", s.status, in.status, q.at)
               b == Evt("priority_changed", s.priority, in.priority, q.at)
               c == IF to = NULL THEN Evt("unassigned", s.assignee, NULL, q.at)
                                 ELSE Evt("assigned", NULL, to, q.at)
               d == Evt("eta_updated", NULL, Cleared(in.eta), q.at)
               e == Evt("note_added", NULL, NULL, q.at)
               A == OneIf(MovesStatus(s, in), a)
               B == OneIf(ChangesPriority(s, in), b)
               C == OneIf(ChangesAssignee(s, in), c)
               D == OneIf(in.eta /= NULL, d)
               E == OneIf(in.note /\ ~MovesStatus(s, in), e)
    <2>a. ASSUME NEW type \in EventType, NEW old \in EventValue, NEW new \in EventValue
          PROVE  Evt(type, old, new, q.at) \in Event
      BY <1>1 DEF Evt, Event
    <2>b. /\ "status_changed" \in EventType /\ "priority_changed" \in EventType
          /\ "assigned" \in EventType /\ "unassigned" \in EventType
          /\ "eta_updated" \in EventType /\ "note_added" \in EventType
          /\ NULL \in EventValue /\ s.status \in EventValue
          /\ s.priority \in EventValue /\ s.assignee \in EventValue
      BY <1>1 DEF EventType, StatusEvents, EventValue
    <2>1. A \in Seq(Event)
      <3>1. MovesStatus(s, in) => in.status \in EventValue
        BY <1>1 DEF MovesStatus, PatchInput, EventValue
      <3>2. MovesStatus(s, in) => a \in Event
        BY <3>1, <2>a, <2>b
      <3> QED  BY <3>2, OneIfType
    <2>2. B \in Seq(Event)
      <3>1. ChangesPriority(s, in) => in.priority \in EventValue
        BY <1>1 DEF ChangesPriority, PatchInput, EventValue
      <3>2. ChangesPriority(s, in) => b \in Event
        BY <3>1, <2>a, <2>b
      <3> QED  BY <3>2, OneIfType
    <2>3. C \in Seq(Event)
      <3>1. ChangesAssignee(s, in) => to \in EventValue
        BY <1>1 DEF ChangesAssignee, PatchInput, EventValue, Cleared
      <3>2. ChangesAssignee(s, in) => c \in Event
        BY <3>1, <2>a, <2>b
      <3> QED  BY <3>2, OneIfType
    <2>4. D \in Seq(Event)
      <3>1. in.eta /= NULL => Cleared(in.eta) \in EventValue
        BY <1>1 DEF PatchInput, EventValue, Cleared
      <3>2. in.eta /= NULL => d \in Event
        BY <3>1, <2>a, <2>b
      <3> QED  BY <3>2, OneIfType
    <2>5. E \in Seq(Event)
      <3>1. e \in Event
        BY <2>a, <2>b
      <3> QED  BY <3>1, OneIfType
    <2> HIDE DEF A, B, C, D, E
    <2>6. A \o B \o C \o D \o E \in Seq(Event)
      BY <2>1, <2>2, <2>3, <2>4, <2>5
    <2>7. Events(s, q) = A \o B \o C \o D \o E
      BY <1>4 DEF Events, PatchEvents, A, B, C, D, E
    <2> QED  BY <2>6, <2>7
  <1> QED  BY <1>2, <1>3, <1>4

-----------------------------------------------------------------------------
(* The inductive invariant, one lemma per kind of step.                    *)

\* The invariant holds before the first request.
LEMMA InitInv == Init => Inv
  BY NamesAssumption
     DEF Init, Inv, TypeOK, ReqInv, LockInv, NoRow, Row, Priority

\* A step that only begins a transaction.
LEMMA BeginInv ==
    ASSUME Inv, NEW r \in Request, NEW w \in WorkOrder, NEW op \in Op,
           NEW in \in PatchInput, NEW type \in EventType, NEW auto \in BOOLEAN,
           Begin(r, w, op, in, type, auto)
    PROVE  Inv'
  <1>1. TypeOK'
    BY DEF Begin, Inv, TypeOK, Req
  <1>2. ReqInv'
    BY DEF Begin, Inv, TypeOK, Row, ReqInv
  <1>3. LockInv'
    BY DEF Begin, Inv, TypeOK, LockInv
  <1> QED  BY <1>1, <1>2, <1>3 DEF Inv

\* The body that changes nothing is a PATCH body.
LEMMA NoInputType == NoInput \in PatchInput
  BY DEF NoInput, PatchInput

\* Every handler begins a request of the shape its transaction expects.
LEMMA HandleInv ==
    ASSUME Inv, NEW r \in Request, NEW w \in WorkOrder, Handle(r, w)
    PROVE  Inv'
  <1>1. "note_added" \in EventType /\ Op = {"patch", "resolve", "cancel", "append"}
    BY DEF EventType, Op
  <1>2. CASE HandlePatch(r, w)
    BY <1>1, <1>2, BeginInv, InputsAssumption DEF HandlePatch
  <1>3. CASE HandleAssign(r, w)
    <2>1. PICK a \in Assignee \cup {Clear}, auto \in BOOLEAN :
              Begin(r, w, "patch", [NoInput EXCEPT !.assignee = a],
                    "note_added", auto)
      BY <1>3 DEF HandleAssign
    <2>2. [NoInput EXCEPT !.assignee = a] \in PatchInput
      BY NoInputType DEF PatchInput
    <2> QED  BY <1>1, <2>1, <2>2, BeginInv
  <1>4. CASE HandleResolve(r, w)
    BY <1>1, <1>4, BeginInv, NoInputType DEF HandleResolve
  <1>5. CASE HandleCancel(r, w)
    BY <1>1, <1>5, BeginInv, NoInputType DEF HandleCancel
  <1>6. CASE HandleAppend(r, w)
    BY <1>1, <1>6, BeginInv, NoInputType, InputsAssumption DEF HandleAppend
  <1> QED  BY <1>2, <1>3, <1>4, <1>5, <1>6 DEF Handle

\* The promotion that inserts an order keeps the invariant.
LEMMA InsertInv ==
    ASSUME Inv, NEW w \in WorkOrder, NEW in \in Promotions, InsertOrder(w, in)
    PROVE  Inv'
  <1>1. /\ in.priority \in Priority
        /\ in.assignee \in Assignee \cup {NULL}
        /\ in.eta \in Eta \cup {NULL}
    BY InputsAssumption
  <1> DEFINE row == [NoRow EXCEPT !.status = "open", !.priority = in.priority,
                                  !.assignee = in.assignee, !.eta = in.eta,
                                  !.createdAt = clock']
             e == Evt("created", NULL, "open", clock')
             f == Evt("assigned", NULL, in.assignee, clock')
  <1>2. clock' \in Nat /\ clock' = clock + 1
    BY DEF InsertOrder, Inv, TypeOK
  <1>3. row \in Row /\ row.status = "open" /\ row.createdAt = clock'
    BY <1>1, <1>2 DEF NoRow, Row, Status, Priority
  <1>4. e \in Event /\ (in.assignee /= NULL => f \in Event)
    BY <1>1, <1>2 DEF Evt, Event, EventType, StatusEvents, EventValue, Status
  <1>5. <<e>> \o OneIf(in.assignee /= NULL, f) \in Seq(Event)
    <2>1. OneIf(in.assignee /= NULL, f) \in Seq(Event)
      BY <1>4, OneIfType
    <2> QED  BY <1>4, <2>1
  <1>6. /\ order' = [order EXCEPT ![w] = row]
        /\ timeline' = [timeline EXCEPT ![w] =
               <<e>> \o OneIf(in.assignee /= NULL, f)]
        /\ order[w].status = Absent
        /\ UNCHANGED <<lock, pc, req, seen>>
    BY DEF InsertOrder
  <1> HIDE DEF row, e, f
  <1>7. TypeOK'
    BY <1>2, <1>3, <1>5, <1>6 DEF Inv, TypeOK
  <1>8. ReqInv'
    BY <1>2, <1>3, <1>6 DEF Inv, TypeOK, ReqInv, Row, Req
  <1>9. LockInv'
    BY <1>6 DEF Inv, TypeOK, ReqInv, LockInv, Req
  <1> QED  BY <1>7, <1>8, <1>9 DEF Inv

\* Taking the row lock, being refused and appending keep the invariant.
LEMMA WaitingInv ==
    ASSUME Inv, NEW r \in Request, LockRow(r) \/ RefuseRow(r) \/ AppendRow(r)
    PROVE  Inv'
  <1>1. pc[r] = "waiting" /\ req[r] \in Req /\ req[r].wo \in WorkOrder
    BY DEF LockRow, RefuseRow, AppendRow, AtRow, Inv, TypeOK, Req
  <1>2. NoRow \in Row
    BY DEF NoRow, Row, Priority
  <1>3. CASE LockRow(r)
    <2>1. TypeOK'
      BY <1>1, <1>3 DEF LockRow, Inv, TypeOK
    <2>2. ReqInv'
      BY <1>1, <1>3 DEF LockRow, Inv, TypeOK, ReqInv
    <2>3. LockInv'
      BY <1>1, <1>3, NamesAssumption DEF LockRow, AtRow, Inv, TypeOK, LockInv
    <2> QED  BY <2>1, <2>2, <2>3 DEF Inv
  <1>4. CASE RefuseRow(r)
    <2>1. TypeOK'
      BY <1>1, <1>2, <1>4 DEF RefuseRow, Finish, Inv, TypeOK
    <2>2. ReqInv'
      BY <1>4 DEF RefuseRow, Finish, Inv, TypeOK, ReqInv
    <2>3. LockInv'
      BY <1>4 DEF RefuseRow, Finish, Inv, TypeOK, LockInv
    <2> QED  BY <2>1, <2>2, <2>3 DEF Inv
  <1>5. CASE AppendRow(r)
    <2>1. Evt(req[r].type, NULL, NULL, req[r].at) \in Event
      BY <1>1 DEF Evt, Event, EventValue, Req
    <2>2. TypeOK'
      BY <1>1, <1>2, <1>5, <2>1 DEF AppendRow, Finish, Inv, TypeOK
    <2>3. ReqInv'
      BY <1>5 DEF AppendRow, Finish, Inv, TypeOK, ReqInv
    <2>4. LockInv'
      BY <1>5 DEF AppendRow, Finish, Inv, TypeOK, LockInv
    <2> QED  BY <2>2, <2>3, <2>4 DEF Inv
  <1> QED  BY <1>3, <1>4, <1>5

\* A commit writes well-formed columns and events and gives its lock back.
LEMMA CommitInv ==
    ASSUME Inv, NEW r \in Request, Commit(r)
    PROVE  Inv'
  <1> DEFINE w == req[r].wo
             row == Updated(order[w], seen[r], req[r])
  <1>1. /\ pc[r] = "holding" /\ req[r] \in Req /\ w \in WorkOrder
        /\ order[w] \in Row /\ order[w].status /= Absent
        /\ lock[w] = r /\ seen[r] = order[w]
    BY DEF Commit, Inv, TypeOK, ReqInv, LockInv, Req
  <1>2. /\ row \in Row /\ row.status /= Absent
        /\ row.createdAt = order[w].createdAt
    BY <1>1, UpdatedType
  <1>3. Events(seen[r], req[r]) \in Seq(Event)
    BY <1>1, EventsType
  <1>4. NoRow \in Row
    BY DEF NoRow, Row, Priority
  <1>5. /\ order' = [order EXCEPT ![w] = row]
        /\ timeline' = [timeline EXCEPT ![w] = @ \o Events(seen[r], req[r])]
        /\ lock' = [lock EXCEPT ![w] = NULL]
        /\ clock' = clock
        /\ seen' = [seen EXCEPT ![r] = NoRow]
        /\ \/ pc' = [pc EXCEPT ![r] = "autostart"] /\ req' = req
           \/ pc' = [pc EXCEPT ![r] = "idle"] /\ req' = [req EXCEPT ![r] = NULL]
    BY DEF Commit, Finish
  <1> HIDE DEF row
  <1>6. TypeOK'
    <2>1. timeline' \in [WorkOrder -> Seq(Event)]
      BY <1>1, <1>3, <1>5 DEF Inv, TypeOK
    <2>2. order' \in [WorkOrder -> Row] /\ lock' \in [WorkOrder -> Request \cup {NULL}]
      BY <1>1, <1>2, <1>5 DEF Inv, TypeOK
    <2>3. /\ pc' \in [Request -> {"idle", "waiting", "holding", "autostart"}]
          /\ req' \in [Request -> Req \cup {NULL}]
          /\ \A q \in Request : pc'[q] /= "idle" => req'[q] \in Req
      BY <1>1, <1>5 DEF Inv, TypeOK
    <2>4. seen' \in [Request -> Row] /\ clock' \in Nat
      BY <1>4, <1>5 DEF Inv, TypeOK
    <2> QED  BY <2>1, <2>2, <2>3, <2>4 DEF TypeOK
  <1>7. ReqInv'
    <2>1. /\ \A v \in WorkOrder : order'[v].createdAt = order[v].createdAt
          /\ \A v \in WorkOrder : order[v].status /= Absent
                                      => order'[v].status /= Absent
      BY <1>1, <1>2, <1>5 DEF Inv, TypeOK
    <2>2. \A q \in Request : pc'[q] /= "idle" => pc[q] /= "idle" /\ req'[q] = req[q]
      BY <1>1, <1>5 DEF Inv, TypeOK
    <2>3. \A q \in Request : pc[q] /= "idle" => req[q].wo \in WorkOrder
      BY DEF Inv, TypeOK, Req
    <2> QED  BY <1>5, <2>1, <2>2, <2>3 DEF Inv, ReqInv
  <1>8. LockInv'
    <2> SUFFICES ASSUME NEW q \in Request, pc'[q] = "holding"
                 PROVE  /\ lock'[req'[q].wo] = q
                        /\ req'[q].op /= "append"
                        /\ seen'[q] = order'[req'[q].wo]
                        /\ Accepts(seen'[q], req'[q])
      BY DEF LockInv
    <2>1. q /= r /\ pc[q] = "holding" /\ req'[q] = req[q] /\ seen'[q] = seen[q]
      BY <1>1, <1>5 DEF Inv, TypeOK
    <2>2. /\ lock[req[q].wo] = q /\ req[q].op /= "append"
          /\ seen[q] = order[req[q].wo] /\ Accepts(seen[q], req[q])
      BY <2>1 DEF Inv, LockInv
    <2>3. req[q].wo /= w /\ req[q].wo \in WorkOrder
      BY <1>1, <2>1, <2>2 DEF Inv, TypeOK, Req
    <2> QED  BY <1>1, <1>5, <2>1, <2>2, <2>3 DEF Inv, TypeOK
  <1> QED  BY <1>6, <1>7, <1>8 DEF Inv

\* The second transaction of an assignment starts without a lock.
LEMMA AutoStartInv ==
    ASSUME Inv, NEW r \in Request, AutoStart(r)
    PROVE  Inv'
  <1>1. req[r] \in Req /\ clock' \in Nat
    BY DEF AutoStart, Inv, TypeOK
  <1>2. [NoInput EXCEPT !.status = "assigned"] \in PatchInput
    BY NoInputType DEF PatchInput, Status
  <1>3. TypeOK'
    BY <1>1, <1>2 DEF AutoStart, Inv, TypeOK, Req
  <1>4. ReqInv'
    BY <1>1 DEF AutoStart, Inv, TypeOK, Row, Req, ReqInv
  <1>5. LockInv'
    BY <1>1 DEF AutoStart, Inv, TypeOK, LockInv
  <1> QED  BY <1>3, <1>4, <1>5 DEF Inv

\* A rollback gives back exactly the locks of its request.
LEMMA AbortInv ==
    ASSUME Inv, NEW r \in Request, Abort(r)
    PROVE  Inv'
  <1>1. NoRow \in Row
    BY DEF NoRow, Row, Priority
  <1>2. TypeOK'
    BY <1>1 DEF Abort, Finish, Inv, TypeOK
  <1>3. ReqInv'
    BY DEF Abort, Finish, Inv, TypeOK, ReqInv
  <1>4. LockInv'
    BY DEF Abort, Finish, Inv, TypeOK, LockInv, Req
  <1> QED  BY <1>2, <1>3, <1>4 DEF Inv

\* A step that changes nothing keeps the invariant.
LEMMA StutterInv == Inv /\ UNCHANGED vars => Inv'
  BY DEF Inv, TypeOK, ReqInv, LockInv, vars

\* Every step of the specification keeps the invariant.
LEMMA NextInv == Inv /\ [Next]_vars => Inv'
  <1> SUFFICES ASSUME Inv, [Next]_vars PROVE Inv'
    OBVIOUS
  <1>1. CASE \E w \in WorkOrder, in \in Promotions : InsertOrder(w, in)
    BY <1>1, InsertInv
  <1>2. CASE \E r \in Request, w \in WorkOrder : Handle(r, w)
    BY <1>2, HandleInv
  <1>3. CASE \E r \in Request : Serve(r)
    BY <1>3, WaitingInv, CommitInv, AutoStartInv DEF Serve
  <1>4. CASE \E r \in Request : Abort(r)
    BY <1>4, AbortInv
  <1>5. CASE UNCHANGED vars
    BY <1>5, StutterInv
  <1> QED  BY <1>1, <1>2, <1>3, <1>4, <1>5 DEF Next

\* In every state the tables are well formed, requests carry what their
\* statements need, and a request that commits holds the lock of the row it read.
THEOREM Invariance == Spec => []Inv
  BY InitInv, NextInv, PTL DEF Spec

\* Whatever requests race, the tables hold rows and events of their types.
THEOREM TypeCorrect == Spec => []TypeOK
  <1>1. Inv => TypeOK
    BY DEF Inv
  <1> QED  BY Invariance, <1>1, PTL

-----------------------------------------------------------------------------
(* How one order changes in one step.                                      *)

\* An order stays as it is, is inserted, or is overwritten by a request whose
\* guard holds of the present row.
LEMMA OrderStep ==
    ASSUME Inv, [Next]_vars, NEW w \in WorkOrder
    PROVE  \/ order'[w] = order[w]
           \/ /\ order[w].status = Absent
              /\ order'[w].status = "open"
              /\ order'[w].resolvedAt = NULL
           \/ \E q \in Req : /\ order[w].status /= Absent
                             /\ order[w].createdAt < q.at
                             /\ q.op /= "append"
                             /\ Accepts(order[w], q)
                             /\ order'[w] = Updated(order[w], order[w], q)
  <1>1. CASE \E v \in WorkOrder, in \in Promotions : InsertOrder(v, in)
    BY <1>1 DEF InsertOrder, Inv, TypeOK, Row, NoRow
  <1>2. CASE \E r \in Request : Commit(r)
    <2>1. PICK r \in Request : Commit(r)
      BY <1>2
    <2>2. /\ req[r] \in Req /\ seen[r] = order[req[r].wo] /\ req[r].op /= "append"
          /\ Accepts(seen[r], req[r])
          /\ order[req[r].wo].status /= Absent
          /\ order[req[r].wo].createdAt < req[r].at
      BY <2>1 DEF Commit, Inv, TypeOK, LockInv, ReqInv
    <2>3. order' = [order EXCEPT ![req[r].wo] =
                        Updated(order[req[r].wo], seen[r], req[r])]
      BY <2>1 DEF Commit
    <2> QED  BY <2>2, <2>3 DEF Inv, TypeOK
  <1>3. CASE order' = order
    BY <1>3
  <1>4. \/ \E v \in WorkOrder, in \in Promotions : InsertOrder(v, in)
        \/ \E r \in Request : Commit(r)
        \/ order' = order
    BY DEF Next, Handle, HandlePatch, HandleAssign, HandleResolve, HandleCancel,
           HandleAppend, Begin, Serve, LockRow, RefuseRow, AppendRow, AutoStart,
           Abort, vars
  <1> QED  BY <1>1, <1>2, <1>3, <1>4

\* What an accepted request does to status and resolved_at.
LEMMA UpdatedStatus ==
    ASSUME NEW row \in Row, NEW q \in Req, Accepts(row, q)
    PROVE  LET new == Updated(row, row, q) IN
           \/ new.status = row.status /\ new.resolvedAt = row.resolvedAt
           \/ /\ CanTransition(row.status, new.status)
              /\ new.status \in Status
              /\ IF new.status = "resolved" THEN new.resolvedAt = q.at
                                            ELSE new.resolvedAt = row.resolvedAt
  <1> DEFINE new == Updated(row, row, q)
  <1>1. CASE q.op = "resolve"
    BY <1>1 DEF Accepts, Updated, Row, Status
  <1>2. CASE q.op = "cancel"
    BY <1>2 DEF Accepts, Updated, Row, Status
  <1>3. CASE q.op \notin {"resolve", "cancel"}
    <2>1. /\ new.status = IF MovesStatus(row, q.input)
                          THEN q.input.status ELSE row.status
          /\ new.resolvedAt = IF MovesStatus(row, q.input)
                                    /\ q.input.status = "resolved"
                              THEN q.at ELSE row.resolvedAt
      BY <1>3 DEF Updated, Patched
    <2>2. MovesStatus(row, q.input) => /\ CanTransition(row.status, q.input.status)
                                       /\ q.input.status \in Status
      BY <1>3 DEF Accepts, MovesStatus, Req, PatchInput
    <2> HIDE DEF new
    <2> QED  BY <2>1, <2>2 DEF new
  <1> QED  BY <1>1, <1>2, <1>3

-----------------------------------------------------------------------------
(* The properties.                                                         *)

\* A step keeps resolved_at in line with the status.
LEMMA StampStep ==
    ASSUME Inv, ResolvedStamp, [Next]_vars
    PROVE  ResolvedStamp'
  <1> SUFFICES ASSUME NEW w \in WorkOrder
               PROVE  /\ (order'[w].resolvedAt /= NULL)
                             <=> (order'[w].status = "resolved")
                      /\ order'[w].resolvedAt /= NULL =>
                             order'[w].resolvedAt > order'[w].createdAt
    BY DEF ResolvedStamp
  <1>1. /\ (order[w].resolvedAt /= NULL) <=> (order[w].status = "resolved")
        /\ order[w].resolvedAt /= NULL =>
               order[w].resolvedAt > order[w].createdAt
    BY DEF ResolvedStamp
  <1>2. CASE order'[w] = order[w]
    BY <1>1, <1>2
  <1>3. CASE order'[w].status = "open" /\ order'[w].resolvedAt = NULL
    BY <1>3
  <1>4. CASE \E q \in Req : /\ order[w].status /= Absent
                            /\ order[w].createdAt < q.at
                            /\ q.op /= "append"
                            /\ Accepts(order[w], q)
                            /\ order'[w] = Updated(order[w], order[w], q)
    <2>1. PICK q \in Req : /\ order[w].status /= Absent
                           /\ order[w].createdAt < q.at
                           /\ Accepts(order[w], q)
                           /\ order'[w] = Updated(order[w], order[w], q)
      BY <1>4
    <2>2. order[w] \in Row /\ q.at \in Nat
      BY DEF Inv, TypeOK, Req
    <2>3. order'[w].createdAt = order[w].createdAt
      BY <2>1, <2>2, UpdatedType
    <2>4. \/ /\ order'[w].status = order[w].status
             /\ order'[w].resolvedAt = order[w].resolvedAt
          \/ /\ CanTransition(order[w].status, order'[w].status)
             /\ IF order'[w].status = "resolved"
                THEN order'[w].resolvedAt = q.at
                ELSE order'[w].resolvedAt = order[w].resolvedAt
      BY <2>1, <2>2, UpdatedStatus
    <2>5. q.at /= NULL /\ order[w].createdAt \in Nat
      BY <2>2, NamesAssumption DEF Row
    <2> QED  BY <1>1, <2>1, <2>2, <2>3, <2>4, <2>5 DEF CanTransition
  <1> QED  BY <1>2, <1>3, <1>4, OrderStep

\* resolved_at is set on exactly the resolved orders, to a time after the
\* order came to be, for both ways of resolving one and any waiting.
THEOREM ResolvedStampHolds == Spec => []ResolvedStamp
  <1>1. Init => ResolvedStamp
    BY DEF Init, ResolvedStamp, NoRow, Absent
  <1>2. Inv /\ ResolvedStamp /\ [Next]_vars => ResolvedStamp'
    BY StampStep
  <1> QED  BY <1>1, <1>2, Invariance, PTL DEF Spec

\* A closed order keeps its status and its resolution time.
THEOREM ClosedStaysClosed == Spec => ClosedIsFrozen
  <1> DEFINE Frozen == \A w \in WorkOrder : IsTerminal(order[w].status) =>
                           /\ order'[w].status = order[w].status
                           /\ order'[w].resolvedAt = order[w].resolvedAt
  <1>1. ASSUME Inv, [Next]_vars PROVE [Frozen]_vars
    <2> SUFFICES ASSUME NEW w \in WorkOrder, IsTerminal(order[w].status)
                 PROVE  /\ order'[w].status = order[w].status
                        /\ order'[w].resolvedAt = order[w].resolvedAt
      OBVIOUS
    <2>1. order[w] \in Row /\ order[w].status /= Absent
      BY <1>1 DEF Inv, TypeOK, IsTerminal, Absent
    <2>2. \/ order'[w] = order[w]
          \/ \E q \in Req : /\ Accepts(order[w], q)
                            /\ order'[w] = Updated(order[w], order[w], q)
      BY <1>1, <2>1, OrderStep
    <2>3. ASSUME NEW q \in Req, Accepts(order[w], q),
                 order'[w] = Updated(order[w], order[w], q)
          PROVE  /\ order'[w].status = order[w].status
                 /\ order'[w].resolvedAt = order[w].resolvedAt
      <3>1. ~CanTransition(order[w].status, order'[w].status)
        BY DEF IsTerminal, CanTransition
      <3> QED  BY <2>1, <2>3, <3>1, UpdatedStatus
    <2> QED  BY <2>2, <2>3
  <1>2. Inv /\ [Next]_vars => [Frozen]_vars
    BY <1>1
  <1> QED  BY <1>2, Invariance, PTL DEF Spec, ClosedIsFrozen

\* The locked transactions implement the lifecycle of the abstract
\* specification: every step creates one order, moves one along the transition
\* table, or leaves all statuses alone.
THEOREM LifecycleImplemented == Spec => ImplementsLifecycle
  <1> DEFINE st == [w \in WorkOrder |-> order[w].status]
  <1>1. Init => Lifecycle!Init
    BY DEF Init, Lifecycle!Init, NoRow, Absent, Lifecycle!Absent
  <1>2. ASSUME Inv, [Next]_vars
        PROVE  Lifecycle!Next \/ st' = st
    <2>1. CASE \A w \in WorkOrder : order'[w].status = order[w].status
      BY <2>1
    <2>2. CASE \E w \in WorkOrder : order'[w].status /= order[w].status
      <3>1. PICK w \in WorkOrder : order'[w].status /= order[w].status
        BY <2>2
      <3>2. \A v \in WorkOrder \ {w} : order'[v] = order[v]
        <4>1. \/ \E v \in WorkOrder, in \in Promotions : InsertOrder(v, in)
              \/ \E r \in Request : Commit(r)
              \/ order' = order
          BY <1>2
             DEF Next, Handle, HandlePatch, HandleAssign, HandleResolve,
                 HandleCancel, HandleAppend, Begin, Serve, LockRow, RefuseRow,
                 AppendRow, AutoStart, Abort, vars
        <4>2. \E v \in WorkOrder, row \in Row : order' = [order EXCEPT ![v] = row]
          <5>1. CASE \E v \in WorkOrder, in \in Promotions : InsertOrder(v, in)
            <6>1. PICK v \in WorkOrder, in \in Promotions : InsertOrder(v, in)
              BY <5>1
            <6>2. order' \in [WorkOrder -> Row]
              BY <1>2, <6>1, InsertInv DEF Inv, TypeOK
            <6>3. order' = [order EXCEPT ![v] = order'[v]]
              BY <1>2, <6>1 DEF InsertOrder, Inv, TypeOK
            <6> QED  BY <6>2, <6>3
          <5>2. CASE \E r \in Request : Commit(r)
            <6>1. PICK r \in Request : Commit(r)
              BY <5>2
            <6>2. order' \in [WorkOrder -> Row] /\ req[r].wo \in WorkOrder
              BY <1>2, <6>1, CommitInv DEF Inv, TypeOK, Req, Commit
            <6>3. order' = [order EXCEPT ![req[r].wo] = order'[req[r].wo]]
              BY <1>2, <6>1 DEF Commit, Inv, TypeOK, Req
            <6> QED  BY <6>2, <6>3
          <5> QED  BY <3>1, <4>1, <5>1, <5>2
        <4> QED  BY <1>2, <3>1, <4>2 DEF Inv, TypeOK
      <3>3. st' = [st EXCEPT ![w] = order'[w].status]
        BY <3>2
      <3>4. \/ st[w] = Absent /\ order'[w].status = "open"
            \/ /\ CanTransition(st[w], order'[w].status)
               /\ order'[w].status \in Status
        <4>1. order[w] \in Row
          BY <1>2 DEF Inv, TypeOK
        <4>2. \A q \in Req :
                  /\ Accepts(order[w], q)
                  /\ order'[w] = Updated(order[w], order[w], q)
                  => /\ CanTransition(order[w].status, order'[w].status)
                     /\ order'[w].status \in Status
          BY <3>1, <4>1, UpdatedStatus
        <4> QED  BY <1>2, <3>1, <4>2, OrderStep
      <3>5. CASE st[w] = Absent /\ order'[w].status = "open"
        BY <3>3, <3>5 DEF Lifecycle!Next, Lifecycle!Create, Lifecycle!Absent, Absent
      <3>6. CASE CanTransition(st[w], order'[w].status) /\ order'[w].status \in Status
        BY <3>3, <3>6
           DEF Lifecycle!Next, Lifecycle!Move, Lifecycle!CanTransition,
               Lifecycle!Status, CanTransition, Status
      <3> QED  BY <3>4, <3>5, <3>6
    <2> QED  BY <2>1, <2>2
  <1>3. Inv /\ [Next]_vars => [Lifecycle!Next]_st
    BY <1>2
  <1> QED  BY <1>1, <1>3, Invariance, PTL
           DEF Spec, ImplementsLifecycle, Lifecycle!Spec

-----------------------------------------------------------------------------
(* One more event: what a timeline replays to.                             *)

\* A set of numbers has a least member.
LEMMA LeastMember ==
    ASSUME NEW S \in SUBSET Nat, S /= {}
    PROVE  \E n \in S : \A k \in S : n <= k
  <1> DEFINE R == OpToRel(<, Nat)
  <1>1. IsWellFoundedOn(R, Nat)
    BY NatLessThanWellFounded
  <1>2. PICK n \in S : \A k \in S : <<k, n>> \notin R
    BY <1>1, WFMin
  <1>3. \A k \in S : ~(k < n)
    BY <1>2 DEF OpToRel
  <1> QED  BY <1>3

\* Among some of the positions of a sequence, one is the last.
LEMMA LastPosition ==
    ASSUME NEW n \in Nat, NEW S \in SUBSET (1 .. n), S /= {}
    PROVE  Max(S) \in S /\ \A k \in S : k <= Max(S)
  <1> DEFINE T == {n - i : i \in S}
  <1>1. T \in SUBSET Nat /\ T /= {}
    <2>1. \A i \in S : i \in 1 .. n /\ n - i \in Nat
      OBVIOUS
    <2> QED  BY <2>1
  <1>2. PICK m \in T : \A k \in T : m <= k
    BY <1>1, LeastMember
  <1>3. PICK i \in S : m = n - i
    BY <1>2
  <1>4. \A k \in S : n - i <= n - k
    BY <1>2, <1>3
  <1>5. i \in S /\ \A k \in S : i >= k
    BY <1>4
  <1>6. Max(S) \in S /\ \A k \in S : Max(S) >= k
    BY <1>5, Zenon DEF Max
  <1> QED  BY <1>6

\* One more event does not change what the column held before it.
LEMMA ReplayBefore ==
    ASSUME NEW t \in Seq(Event), NEW e \in Event, NEW K \in SUBSET DOMAIN t,
           NEW L, L = K \/ L = K \cup {Len(t) + 1},
           NEW first, NEW n \in 0 .. Len(t)
    PROVE  Replay(Append(t, e), L, first, n) = Replay(t, K, first, n)
  <1> DEFINE past == {i \in K : i <= n}
             last == Max(past)
  <1>1. {i \in L : i <= n} = past
    OBVIOUS
  <1> HIDE DEF last
  <1>2. CASE past = {}
    BY <1>1, <1>2 DEF Replay
  <1>3. CASE past /= {}
    <2>1. past \in SUBSET (1 .. Len(t))
      OBVIOUS
    <2>2. last \in past
      <3>1. Len(t) \in Nat
        OBVIOUS
      <3> QED  BY <1>3, <2>1, <3>1, LastPosition DEF last
    <2>3. Append(t, e)[last] = t[last]
      BY <2>1, <2>2
    <2> QED  BY <1>1, <1>3, <2>3 DEF Replay, last
  <1> QED  BY <1>2, <1>3

\* After an event of the trail the column holds the value the event names.
LEMMA ReplayOwn ==
    ASSUME NEW t \in Seq(Event), NEW e \in Event, NEW K \in SUBSET DOMAIN t,
           NEW first
    PROVE  Replay(Append(t, e), K \cup {Len(t) + 1}, first, Len(t) + 1) = e.new
  <1>1. PICK n \in Nat : n = Len(t) + 1 /\ DOMAIN t = 1 .. (n - 1)
    OBVIOUS
  <1>2. PICK past : past = {i \in K \cup {n} : i <= n}
    OBVIOUS
  <1>3. past \in SUBSET (1 .. n) /\ n \in past
    BY <1>1, <1>2
  <1>4. Max(past) \in past /\ \A k \in past : k <= Max(past)
    <2>1. past /= {}
      BY <1>3
    <2> QED  BY <1>3, <2>1, LastPosition
  <1>5. Max(past) = n
    <2>1. PICK m : m = Max(past)
      OBVIOUS
    <2>2. m \in 1 .. n /\ n <= m
      BY <1>3, <1>4, <2>1
    <2>3. m = n
      BY <2>2
    <2> QED  BY <2>1, <2>3
  <1>6. Append(t, e)[n] = e
    BY <1>1
  <1>7. Replay(Append(t, e), K \cup {n}, first, n) = e.new
    BY <1>2, <1>3, <1>5, <1>6 DEF Replay
  <1> QED  BY <1>1, <1>7

\* An event outside the trail leaves the column as it was.
LEMMA ReplayOther ==
    ASSUME NEW t \in Seq(Event), NEW e \in Event, NEW K \in SUBSET DOMAIN t,
           NEW first
    PROVE  Replay(Append(t, e), K, first, Len(t) + 1)
               = Replay(t, K, first, Len(t))
  <1>1. {i \in K : i <= Len(t) + 1} = {i \in K : i <= Len(t)}
    OBVIOUS
  <1>2. Replay(Append(t, e), K, first, Len(t) + 1)
            = Replay(Append(t, e), K, first, Len(t))
    BY <1>1, Zenon DEF Replay
  <1>3. Len(t) \in 0 .. Len(t)
    OBVIOUS
  <1> QED  BY <1>2, <1>3, ReplayBefore

\* A trail that explains a column still does after an event about another one.
LEMMA ExplainsOther ==
    ASSUME NEW t \in Seq(Event), NEW e \in Event, NEW K \in SUBSET DOMAIN t,
           NEW first, NEW now, Explains(t, K, first, now)
    PROVE  Explains(Append(t, e), K, first, now)
  <1>1. Len(Append(t, e)) = Len(t) + 1
    OBVIOUS
  <1>2. now = Replay(Append(t, e), K, first, Len(Append(t, e)))
    BY <1>1, ReplayOther DEF Explains
  <1>3. ASSUME NEW i \in K, Append(t, e)[i].type /= "assigned"
        PROVE  Append(t, e)[i].old = Replay(Append(t, e), K, first, i - 1)
    <2>1. Append(t, e)[i] = t[i] /\ i - 1 \in 0 .. Len(t)
      OBVIOUS
    <2> QED  BY <1>3, <2>1, ReplayBefore DEF Explains
  <1> QED  BY <1>2, <1>3 DEF Explains

\* An event that starts where the trail ended carries the column on.
LEMMA ExplainsOwn ==
    ASSUME NEW t \in Seq(Event), NEW e \in Event, NEW K \in SUBSET DOMAIN t,
           NEW first, NEW now, Explains(t, K, first, now),
           e.type = "assigned" \/ e.old = now
    PROVE  Explains(Append(t, e), K \cup {Len(t) + 1}, first, e.new)
  <1> DEFINE u == Append(t, e)
             L == K \cup {Len(t) + 1}
  <1>1. Len(u) = Len(t) + 1
    OBVIOUS
  <1>2. e.new = Replay(u, L, first, Len(u))
    BY <1>1, ReplayOwn
  <1>3. ASSUME NEW i \in L, u[i].type /= "assigned"
        PROVE  u[i].old = Replay(u, L, first, i - 1)
    <2>1. CASE i \in K
      <3>1. u[i] = t[i] /\ i - 1 \in 0 .. Len(t)
        BY <2>1
      <3>2. Replay(u, L, first, i - 1) = Replay(t, K, first, i - 1)
        BY <3>1, ReplayBefore
      <3>3. t[i].type /= "assigned"
        BY <1>3, <3>1
      <3>4. t[i].old = Replay(t, K, first, i - 1)
        BY <2>1, <3>3 DEF Explains
      <3> QED  BY <3>1, <3>2, <3>4
    <2>2. CASE i = Len(t) + 1
      <3>1. u[i] = e /\ i - 1 = Len(t) /\ Len(t) \in 0 .. Len(t)
        BY <2>2
      <3>2. Replay(u, L, first, Len(t)) = Replay(t, K, first, Len(t))
        BY <3>1, ReplayBefore
      <3>3. now = Replay(t, K, first, Len(t))
        BY DEF Explains
      <3>4. e.old = now
        BY <1>3, <3>1
      <3> QED  BY <3>1, <3>2, <3>3, <3>4
    <2> QED  BY <2>1, <2>2
  <1> HIDE DEF u, L
  <1>4. Explains(u, L, first, e.new)
    BY <1>2, <1>3 DEF Explains
  <1> QED  BY <1>4 DEF u, L

\* The three trails of a timeline lead to these values of the columns.
Told(t, status, priority, assignee) ==
    /\ Explains(t, StatusTrail(t), NULL, status)
    /\ \E first \in Priority : Explains(t, PriorityTrail(t), first, priority)
    /\ Explains(t, AssigneeTrail(t), NULL, assignee)

\* Which trails one more event belongs to.
LEMMA TrailsGrow ==
    ASSUME NEW t \in Seq(Event), NEW e \in Event
    PROVE  /\ StatusTrail(t) \in SUBSET DOMAIN t
           /\ PriorityTrail(t) \in SUBSET DOMAIN t
           /\ AssigneeTrail(t) \in SUBSET DOMAIN t
           /\ StatusTrail(Append(t, e)) =
                  IF e.type \in StatusEvents /\ e.new /= NULL
                  THEN StatusTrail(t) \cup {Len(t) + 1} ELSE StatusTrail(t)
           /\ PriorityTrail(Append(t, e)) =
                  IF e.type = "priority_changed" /\ e.new /= NULL
                  THEN PriorityTrail(t) \cup {Len(t) + 1} ELSE PriorityTrail(t)
           /\ AssigneeTrail(Append(t, e)) =
                  IF /\ e.type \in {"assigned", "unassigned"}
                     /\ e.new /= NULL \/ e.old /= NULL
                  THEN AssigneeTrail(t) \cup {Len(t) + 1} ELSE AssigneeTrail(t)
  <1> DEFINE u == Append(t, e)
             n == Len(t) + 1
  <1>1. /\ DOMAIN u = DOMAIN t \cup {n} /\ n \notin DOMAIN t
        /\ u[n] = e
        /\ \A i \in DOMAIN t : u[i] = t[i]
    OBVIOUS
  <1> HIDE DEF u, n
  <1>2. /\ StatusTrail(t) \in SUBSET DOMAIN t
        /\ PriorityTrail(t) \in SUBSET DOMAIN t
        /\ AssigneeTrail(t) \in SUBSET DOMAIN t
    BY DEF StatusTrail, PriorityTrail, AssigneeTrail
  <1>3. StatusTrail(u) = IF e.type \in StatusEvents /\ e.new /= NULL
                         THEN StatusTrail(t) \cup {n} ELSE StatusTrail(t)
    BY <1>1 DEF StatusTrail
  <1>4. PriorityTrail(u) = IF e.type = "priority_changed" /\ e.new /= NULL
                           THEN PriorityTrail(t) \cup {n} ELSE PriorityTrail(t)
    BY <1>1 DEF PriorityTrail
  <1>5. AssigneeTrail(u) = IF /\ e.type \in {"assigned", "unassigned"}
                              /\ e.new /= NULL \/ e.old /= NULL
                           THEN AssigneeTrail(t) \cup {n} ELSE AssigneeTrail(t)
    BY <1>1 DEF AssigneeTrail
  <1> QED  BY <1>2, <1>3, <1>4, <1>5 DEF u, n

\* An event of no trail leaves the story alone.
LEMMA TellNothing ==
    ASSUME NEW t \in Seq(Event), NEW e \in Event, NEW s, NEW p, NEW a,
           Told(t, s, p, a),
           \/ e.type \in {"eta_updated", "note_added"}
           \/ e.old = NULL /\ e.new = NULL
    PROVE  Told(Append(t, e), s, p, a)
  <1>1. /\ StatusTrail(Append(t, e)) = StatusTrail(t)
        /\ PriorityTrail(Append(t, e)) = PriorityTrail(t)
        /\ AssigneeTrail(Append(t, e)) = AssigneeTrail(t)
    BY TrailsGrow DEF StatusEvents
  <1>2. PICK first \in Priority : Explains(t, PriorityTrail(t), first, p)
    BY DEF Told
  <1>3. /\ StatusTrail(t) \in SUBSET DOMAIN t
        /\ PriorityTrail(t) \in SUBSET DOMAIN t
        /\ AssigneeTrail(t) \in SUBSET DOMAIN t
    BY TrailsGrow
  <1>4. Explains(Append(t, e), StatusTrail(t), NULL, s)
    BY <1>3, ExplainsOther DEF Told
  <1>5. Explains(Append(t, e), PriorityTrail(t), first, p)
    BY <1>2, <1>3, ExplainsOther
  <1>6. Explains(Append(t, e), AssigneeTrail(t), NULL, a)
    BY <1>3, ExplainsOther DEF Told
  <1> QED  BY <1>1, <1>4, <1>5, <1>6 DEF Told

\* An event of the status that starts at the present one carries it on.
LEMMA TellStatus ==
    ASSUME NEW t \in Seq(Event), NEW e \in Event, NEW s, NEW p, NEW a,
           Told(t, s, p, a),
           e.type \in StatusEvents, e.old = s, e.new /= NULL
    PROVE  Told(Append(t, e), e.new, p, a)
  <1>1. /\ StatusTrail(Append(t, e)) = StatusTrail(t) \cup {Len(t) + 1}
        /\ PriorityTrail(Append(t, e)) = PriorityTrail(t)
        /\ AssigneeTrail(Append(t, e)) = AssigneeTrail(t)
    BY TrailsGrow DEF StatusEvents
  <1>2. PICK first \in Priority : Explains(t, PriorityTrail(t), first, p)
    BY DEF Told
  <1>3. /\ StatusTrail(t) \in SUBSET DOMAIN t
        /\ PriorityTrail(t) \in SUBSET DOMAIN t
        /\ AssigneeTrail(t) \in SUBSET DOMAIN t
    BY TrailsGrow
  <1>4. Explains(Append(t, e), StatusTrail(t) \cup {Len(t) + 1}, NULL, e.new)
    BY <1>3, ExplainsOwn DEF Told
  <1>5. Explains(Append(t, e), PriorityTrail(t), first, p)
    BY <1>2, <1>3, ExplainsOther
  <1>6. Explains(Append(t, e), AssigneeTrail(t), NULL, a)
    BY <1>3, ExplainsOther DEF Told
  <1> QED  BY <1>1, <1>4, <1>5, <1>6 DEF Told

\* The same for the priority.
LEMMA TellPriority ==
    ASSUME NEW t \in Seq(Event), NEW e \in Event, NEW s, NEW p, NEW a,
           Told(t, s, p, a),
           e.type = "priority_changed", e.old = p, e.new /= NULL
    PROVE  Told(Append(t, e), s, e.new, a)
  <1>1. /\ StatusTrail(Append(t, e)) = StatusTrail(t)
        /\ PriorityTrail(Append(t, e)) = PriorityTrail(t) \cup {Len(t) + 1}
        /\ AssigneeTrail(Append(t, e)) = AssigneeTrail(t)
    BY TrailsGrow DEF StatusEvents
  <1>2. PICK first \in Priority : Explains(t, PriorityTrail(t), first, p)
    BY DEF Told
  <1>3. /\ StatusTrail(t) \in SUBSET DOMAIN t
        /\ PriorityTrail(t) \in SUBSET DOMAIN t
        /\ AssigneeTrail(t) \in SUBSET DOMAIN t
    BY TrailsGrow
  <1>4. Explains(Append(t, e), StatusTrail(t), NULL, s)
    BY <1>3, ExplainsOther DEF Told
  <1>5. Explains(Append(t, e), PriorityTrail(t) \cup {Len(t) + 1}, first, e.new)
    BY <1>2, <1>3, ExplainsOwn
  <1>6. Explains(Append(t, e), AssigneeTrail(t), NULL, a)
    BY <1>3, ExplainsOther DEF Told
  <1> QED  BY <1>1, <1>4, <1>5, <1>6 DEF Told

\* And for the assignee, whose arrival names no predecessor.
LEMMA TellAssignee ==
    ASSUME NEW t \in Seq(Event), NEW e \in Event, NEW s, NEW p, NEW a,
           Told(t, s, p, a),
           \/ e.type = "assigned" /\ e.new /= NULL
           \/ e.type = "unassigned" /\ e.old = a /\ e.old /= NULL
    PROVE  Told(Append(t, e), s, p, e.new)
  <1>1. /\ StatusTrail(Append(t, e)) = StatusTrail(t)
        /\ PriorityTrail(Append(t, e)) = PriorityTrail(t)
        /\ AssigneeTrail(Append(t, e)) = AssigneeTrail(t) \cup {Len(t) + 1}
    BY TrailsGrow DEF StatusEvents
  <1>2. PICK first \in Priority : Explains(t, PriorityTrail(t), first, p)
    BY DEF Told
  <1>3. /\ StatusTrail(t) \in SUBSET DOMAIN t
        /\ PriorityTrail(t) \in SUBSET DOMAIN t
        /\ AssigneeTrail(t) \in SUBSET DOMAIN t
    BY TrailsGrow
  <1>4. Explains(Append(t, e), StatusTrail(t), NULL, s)
    BY <1>3, ExplainsOther DEF Told
  <1>5. Explains(Append(t, e), PriorityTrail(t), first, p)
    BY <1>2, <1>3, ExplainsOther
  <1>6. Explains(Append(t, e), AssigneeTrail(t) \cup {Len(t) + 1}, NULL, e.new)
    BY <1>3, ExplainsOwn DEF Told
  <1> QED  BY <1>1, <1>4, <1>5, <1>6 DEF Told

\* Appending two pieces at once is appending one after the other.
LEMMA TwoPieces ==
    \A x, y, z \in Seq(Event) : x \o (y \o z) = (x \o y) \o z
  OBVIOUS

\* Appending an optional event appends it or nothing.
LEMMA OneIfAppends ==
    ASSUME NEW t \in Seq(Event), NEW cond \in BOOLEAN, NEW e, cond => e \in Event
    PROVE  /\ t \o OneIf(cond, e) = IF cond THEN Append(t, e) ELSE t
           /\ t \o OneIf(cond, e) \in Seq(Event)
  <1>1. CASE cond
    <2>1. t \o <<e>> = Append(t, e) /\ Append(t, e) \in Seq(Event)
      BY <1>1
    <2> QED  BY <1>1, <2>1 DEF OneIf
  <1>2. CASE ~cond
    <2>1. t \o <<>> = t
      OBVIOUS
    <2> QED  BY <1>2, <2>1 DEF OneIf
  <1> QED  BY <1>1, <1>2

\* The events of an accepted request tell exactly what it does to the row.
LEMMA EventsTell ==
    ASSUME NEW row \in Row, NEW q \in Req, row.status /= Absent,
           q.op /= "append", NEW t \in Seq(Event),
           Told(t, row.status, row.priority, row.assignee)
    PROVE  LET new == Updated(row, row, q)
           IN Told(t \o Events(row, q), new.status, new.priority, new.assignee)
  <1> DEFINE in == q.input
             new == Updated(row, row, q)
  <1>1. /\ q.at \in Nat
        /\ in \in PatchInput
        /\ row.status \in Status
        /\ row.priority \in Priority
        /\ row.assignee \in Assignee \cup {NULL}
    BY DEF Row, Req
  <1>2. CASE q.op = "resolve"
    <2> DEFINE e == Evt("resolved", row.status, "resolved", q.at)
    <2>1. /\ e \in Event /\ e.type \in StatusEvents /\ e.old = row.status
          /\ e.new = "resolved" /\ e.new \in Status
      BY <1>1 DEF Evt, Event, EventType, StatusEvents, EventValue, Status
    <2>2. t \o Events(row, q) = Append(t, e)
      BY <1>2, <2>1 DEF Events
    <2>3. /\ new.status = "resolved" /\ new.priority = row.priority
          /\ new.assignee = row.assignee
      BY <1>2 DEF Updated, Row
    <2> HIDE DEF e, new
    <2>4. e.new /= NULL
      BY <2>1, NamesAssumption
    <2> QED  BY <2>1, <2>2, <2>3, <2>4, TellStatus DEF new
  <1>3. CASE q.op = "cancel"
    <2> DEFINE e == Evt("cancelled", row.status, "cancelled", q.at)
    <2>1. /\ e \in Event /\ e.type \in StatusEvents /\ e.old = row.status
          /\ e.new = "cancelled" /\ e.new \in Status
      BY <1>1 DEF Evt, Event, EventType, StatusEvents, EventValue, Status
    <2>2. t \o Events(row, q) = Append(t, e)
      BY <1>3, <2>1 DEF Events
    <2>3. /\ new.status = "cancelled" /\ new.priority = row.priority
          /\ new.assignee = row.assignee
      BY <1>3 DEF Updated, Row
    <2> HIDE DEF e, new
    <2>4. e.new /= NULL
      BY <2>1, NamesAssumption
    <2> QED  BY <2>1, <2>2, <2>3, <2>4, TellStatus DEF new
  <1>4. CASE q.op \notin {"resolve", "cancel"}
    <2> DEFINE to == Cleared(in.assignee)
               ma == MovesStatus(row, in)
               mb == ChangesPriority(row, in)
               mc == ChangesAssignee(row, in)
               md == in.eta /= NULL
               me == in.note /\ ~MovesStatus(row, in)
               a == Evt("status_changed", row.status, in.status, q.at)
               b == Evt("priority_changed", row.priority, in.priority, q.at)
               c == IF to = NULL THEN Evt("unassigned", row.assignee, NULL, q.at)
                                 ELSE Evt("assigned", NULL, to, q.at)
               d == Evt("eta_updated", NULL, Cleared(in.eta), q.at)
               e == Evt("note_added", NULL, NULL, q.at)
               A == OneIf(ma, a)
               B == OneIf(mb, b)
               C == OneIf(mc, c)
               D == OneIf(md, d)
               E == OneIf(me, e)
    <2>1. /\ new.status = IF ma THEN in.status ELSE row.status
          /\ new.priority = IF mb THEN in.priority ELSE row.priority
          /\ new.assignee = IF mc THEN to ELSE row.assignee
      BY <1>4 DEF Updated, Patched
    <2>2. /\ ma \in BOOLEAN /\ mb \in BOOLEAN /\ mc \in BOOLEAN
          /\ md \in BOOLEAN /\ me \in BOOLEAN
      BY <1>1 DEF MovesStatus, ChangesPriority, ChangesAssignee, PatchInput
    <2>3. ma => /\ in.status \in Status /\ in.status /= NULL /\ a \in Event
                /\ a.type \in StatusEvents /\ a.old = row.status /\ a.new = in.status
      BY <1>1 DEF MovesStatus, PatchInput, Evt, Event, EventType, StatusEvents, EventValue
    <2>4. mb => /\ in.priority \in Priority /\ in.priority /= NULL /\ b \in Event
                /\ b.type = "priority_changed" /\ b.old = row.priority
                /\ b.new = in.priority
      BY <1>1 DEF ChangesPriority, PatchInput, Evt, Event, EventType, EventValue
    <2>5. mc => /\ c \in Event /\ c.new = to
                /\ \/ c.type = "assigned" /\ c.new /= NULL
                   \/ c.type = "unassigned" /\ c.old = row.assignee /\ c.old /= NULL
      <3>1. mc => to \in Assignee \cup {NULL} /\ to /= row.assignee
        BY <1>1 DEF ChangesAssignee, PatchInput, Cleared
      <3> QED  BY <1>1, <3>1 DEF Evt, Event, EventType, EventValue
    <2>6. md => d \in Event /\ d.type = "eta_updated"
      <3>1. md => Cleared(in.eta) \in Eta \cup {NULL}
        BY <1>1 DEF PatchInput, Cleared
      <3> QED  BY <1>1, <3>1 DEF Evt, Event, EventType, EventValue
    <2>7. e \in Event /\ e.type = "note_added"
      BY <1>1 DEF Evt, Event, EventType, EventValue
    <2>8. t \o Events(row, q) = t \o (A \o B \o C \o D \o E)
      BY <1>4 DEF Events, PatchEvents
    <2> HIDE DEF a, b, c, d, e, ma, mb, mc, md, me, to, new
    <2>9. /\ A \in Seq(Event) /\ B \in Seq(Event) /\ C \in Seq(Event)
          /\ D \in Seq(Event) /\ E \in Seq(Event)
      BY <2>3, <2>4, <2>5, <2>6, <2>7, OneIfType
    <2>10. PICK t1 : t1 = t \o A
      OBVIOUS
    <2>11. PICK t2 : t2 = t1 \o B
      OBVIOUS
    <2>12. PICK t3 : t3 = t2 \o C
      OBVIOUS
    <2>13. PICK t4 : t4 = t3 \o D
      OBVIOUS
    <2>14. t1 \in Seq(Event) /\ Told(t1, new.status, row.priority, row.assignee)
      <3>1. t1 = IF ma THEN Append(t, a) ELSE t
        BY <2>2, <2>3, <2>10, OneIfAppends
      <3>2. ma => Told(Append(t, a), in.status, row.priority, row.assignee)
        BY <2>3, TellStatus
      <3>3. t1 \in Seq(Event)
        BY <2>2, <2>3, <2>10, OneIfAppends
      <3> QED  BY <2>1, <3>1, <3>2, <3>3
    <2>15. t2 \in Seq(Event) /\ Told(t2, new.status, new.priority, row.assignee)
      <3>1. t2 = IF mb THEN Append(t1, b) ELSE t1
        BY <2>2, <2>4, <2>11, <2>14, OneIfAppends
      <3>2. mb => Told(Append(t1, b), new.status, in.priority, row.assignee)
        BY <2>4, <2>14, TellPriority
      <3>3. t2 \in Seq(Event)
        BY <2>2, <2>4, <2>11, <2>14, OneIfAppends
      <3> QED  BY <2>1, <2>14, <3>1, <3>2, <3>3
    <2>16. t3 \in Seq(Event) /\ Told(t3, new.status, new.priority, new.assignee)
      <3>1. t3 = IF mc THEN Append(t2, c) ELSE t2
        BY <2>2, <2>5, <2>12, <2>15, OneIfAppends
      <3>2. mc => Told(Append(t2, c), new.status, new.priority, to)
        BY <2>5, <2>15, TellAssignee
      <3>3. t3 \in Seq(Event)
        BY <2>2, <2>5, <2>12, <2>15, OneIfAppends
      <3> QED  BY <2>1, <2>15, <3>1, <3>2, <3>3
    <2>17. t4 \in Seq(Event) /\ Told(t4, new.status, new.priority, new.assignee)
      <3>1. t4 = IF md THEN Append(t3, d) ELSE t3
        BY <2>2, <2>6, <2>13, <2>16, OneIfAppends
      <3>2. md => Told(Append(t3, d), new.status, new.priority, new.assignee)
        BY <2>6, <2>16, TellNothing
      <3>3. t4 \in Seq(Event)
        BY <2>2, <2>6, <2>13, <2>16, OneIfAppends
      <3> QED  BY <2>16, <3>1, <3>2, <3>3
    <2>18. Told(t4 \o E, new.status, new.priority, new.assignee)
      <3>1. t4 \o E = IF me THEN Append(t4, e) ELSE t4
        BY <2>2, <2>7, <2>17, OneIfAppends
      <3>2. Told(Append(t4, e), new.status, new.priority, new.assignee)
        BY <2>7, <2>17, TellNothing
      <3> QED  BY <2>17, <3>1, <3>2
    <2>19. t \o (A \o B \o C \o D \o E) = t4 \o E
      <3> HIDE DEF A, B, C, D, E
      <3> DEFINE Same(x, y, z) == x \o (y \o z) = (x \o y) \o z
      <3>1. \A x, y, z \in Seq(Event) : Same(x, y, z)
        BY TwoPieces, Zenon
      <3>2. /\ A \o B \in Seq(Event)
            /\ A \o B \o C \in Seq(Event)
            /\ A \o B \o C \o D \in Seq(Event)
        BY <2>9
      <3> HIDE DEF Same
      <3>3. /\ Same(t, A \o B \o C \o D, E)
            /\ Same(t, A \o B \o C, D)
            /\ Same(t, A \o B, C)
            /\ Same(t, A, B)
        BY <2>9, <3>1, <3>2
      <3> QED  BY <2>10, <2>11, <2>12, <2>13, <3>3, Zenon DEF Same
    <2> QED  BY <2>8, <2>18, <2>19 DEF new
  <1> QED  BY <1>2, <1>3, <1>4

-----------------------------------------------------------------------------
(* The timeline explains the row.                                          *)

\* The story a timeline has to tell of an order.
StoryOf(t, row) ==
    Told(t, IF row.status = Absent THEN NULL ELSE row.status,
         row.priority, row.assignee)

\* An order that does not exist has no events, and every timeline tells its row.
TimelineInv ==
    \A w \in WorkOrder :
        /\ order[w].status = Absent => timeline[w] = <<>>
        /\ StoryOf(timeline[w], order[w])

\* An empty timeline tells of a row that was never written.
LEMMA NothingTold ==
    ASSUME NEW p \in Priority
    PROVE  Told(<<>>, NULL, p, NULL)
  <1>1. /\ StatusTrail(<<>>) = {} /\ PriorityTrail(<<>>) = {}
        /\ AssigneeTrail(<<>>) = {}
    BY DEF StatusTrail, PriorityTrail, AssigneeTrail
  <1>2. ASSUME NEW first PROVE Explains(<<>>, {}, first, first)
    BY DEF Explains, Replay
  <1> QED  BY <1>1, <1>2 DEF Told

\* The promotion writes the events that its row calls for.
LEMMA InsertTells ==
    ASSUME Inv, TimelineInv, NEW w \in WorkOrder, NEW in \in Promotions,
           InsertOrder(w, in)
    PROVE  TimelineInv'
  <1>1. /\ in.priority \in Priority /\ in.assignee \in Assignee \cup {NULL}
        /\ clock \in Nat /\ clock' = clock + 1
    BY InputsAssumption DEF InsertOrder, Inv, TypeOK
  <1>2. PICK e, f, cond, row :
            /\ e = Evt("created", NULL, "open", clock')
            /\ f = Evt("assigned", NULL, in.assignee, clock')
            /\ cond = (in.assignee /= NULL)
            /\ row = [NoRow EXCEPT !.status = "open", !.priority = in.priority,
                                   !.assignee = in.assignee, !.eta = in.eta,
                                   !.createdAt = clock']
    OBVIOUS
  <1>3. /\ order' = [order EXCEPT ![w] = row]
        /\ timeline' = [timeline EXCEPT ![w] = <<e>> \o OneIf(cond, f)]
    BY <1>2 DEF InsertOrder
  <1>4. /\ row.status = "open" /\ row.priority = in.priority
        /\ row.assignee = in.assignee
    BY <1>2 DEF NoRow
  <1>5. /\ e \in Event /\ e.type \in StatusEvents /\ e.old = NULL
        /\ e.new = "open" /\ e.new \in Status /\ e.new /= NULL
    BY <1>1, <1>2, NamesAssumption
       DEF Evt, Event, EventType, StatusEvents, EventValue, Status
  <1>6. /\ cond \in BOOLEAN
        /\ cond => /\ f \in Event /\ f.type = "assigned"
                   /\ f.new = in.assignee /\ f.new /= NULL
        /\ ~cond => in.assignee = NULL
    <2>1. cond \in BOOLEAN /\ (cond => in.assignee \in Assignee)
      BY <1>1, <1>2
    <2>2. clock' \in Nat
      BY <1>1
    <2> QED  BY <1>2, <2>1, <2>2 DEF Evt, Event, EventType, EventValue
  <1>7. Told(Append(<<>>, e), "open", in.priority, NULL)
    <2>1. <<>> \in Seq(Event) /\ Told(<<>>, NULL, in.priority, NULL)
      BY <1>1, NothingTold
    <2> QED  BY <1>5, <2>1, TellStatus
  <1>8. PICK t \in Seq(Event) : t = Append(<<>>, e) /\ t = <<e>>
    <2>1. <<e>> \in Seq(Event) /\ Append(<<>>, e) = <<e>>
      BY <1>5
    <2> QED  BY <2>1
  <1>9. Told(t \o OneIf(cond, f), "open", in.priority, in.assignee)
    <2>1. t \o OneIf(cond, f) = IF cond THEN Append(t, f) ELSE t
      BY <1>6, OneIfAppends
    <2>2. cond => Told(Append(t, f), "open", in.priority, in.assignee)
      BY <1>6, <1>7, <1>8, TellAssignee
    <2> QED  BY <1>6, <1>7, <1>8, <2>1, <2>2
  <1>10. ASSUME NEW v \in WorkOrder
         PROVE  /\ order'[v].status = Absent => timeline'[v] = <<>>
                /\ StoryOf(timeline'[v], order'[v])
    <2>1. CASE v = w
      <3>1. order'[v] = row /\ timeline'[v] = t \o OneIf(cond, f)
        BY <1>3, <1>8, <2>1 DEF Inv, TypeOK
      <3>2. row.status /= Absent
        BY <1>4 DEF Absent
      <3> QED  BY <1>4, <1>9, <3>1, <3>2 DEF StoryOf
    <2>2. CASE v /= w
      <3>1. order'[v] = order[v] /\ timeline'[v] = timeline[v]
        BY <1>3, <2>2 DEF Inv, TypeOK
      <3> QED  BY <3>1 DEF TimelineInv
    <2> QED  BY <2>1, <2>2
  <1> QED  BY <1>10 DEF TimelineInv

\* A client's own event tells of nothing.
LEMMA AppendTells ==
    ASSUME Inv, TimelineInv, NEW r \in Request, AppendRow(r)
    PROVE  TimelineInv'
  <1>1. req[r] \in Req /\ req[r].wo \in WorkOrder /\ order[req[r].wo].status /= Absent
    BY DEF AppendRow, AtRow, Inv, TypeOK, Req, ReqInv
  <1>2. PICK w, e : w = req[r].wo /\ e = Evt(req[r].type, NULL, NULL, req[r].at)
    OBVIOUS
  <1>3. e \in Event /\ e.old = NULL /\ e.new = NULL
    BY <1>1, <1>2 DEF Evt, Event, EventValue, Req
  <1>4. /\ order' = order
        /\ timeline' = [timeline EXCEPT ![w] = Append(@, e)]
    BY <1>2 DEF AppendRow
  <1>5. ASSUME NEW v \in WorkOrder
        PROVE  /\ order'[v].status = Absent => timeline'[v] = <<>>
               /\ StoryOf(timeline'[v], order'[v])
    <2>1. CASE v = w
      <3>1. timeline'[v] = Append(timeline[v], e) /\ timeline[v] \in Seq(Event)
        BY <1>4, <2>1 DEF Inv, TypeOK
      <3>2. order[v].status /= Absent /\ StoryOf(timeline[v], order[v])
        BY <1>1, <1>2, <2>1 DEF TimelineInv
      <3>3. StoryOf(Append(timeline[v], e), order[v])
        BY <1>3, <3>1, <3>2, TellNothing DEF StoryOf
      <3> QED  BY <1>4, <3>1, <3>2, <3>3
    <2>2. CASE v /= w
      <3>1. order'[v] = order[v] /\ timeline'[v] = timeline[v]
        BY <1>4, <2>2 DEF Inv, TypeOK
      <3> QED  BY <3>1 DEF TimelineInv
    <2> QED  BY <2>1, <2>2
  <1> QED  BY <1>5 DEF TimelineInv

\* A commit tells what it did: the row it read is the row it overwrites.
LEMMA CommitTells ==
    ASSUME Inv, TimelineInv, NEW r \in Request, Commit(r)
    PROVE  TimelineInv'
  <1>1. PICK w, q : w = req[r].wo /\ q = req[r]
    OBVIOUS
  <1>2. /\ w \in WorkOrder /\ q \in Req /\ q.op /= "append"
        /\ order[w] \in Row /\ order[w].status /= Absent /\ seen[r] = order[w]
        /\ timeline[w] \in Seq(Event)
    BY <1>1 DEF Commit, Inv, TypeOK, ReqInv, LockInv, Req
  <1>3. PICK row, new : row = order[w] /\ new = Updated(row, row, q)
    OBVIOUS
  <1>4. /\ order' = [order EXCEPT ![w] = new]
        /\ timeline' = [timeline EXCEPT ![w] = @ \o Events(row, q)]
    BY <1>1, <1>2, <1>3 DEF Commit
  <1>5. Told(timeline[w], row.status, row.priority, row.assignee)
    BY <1>2, <1>3 DEF TimelineInv, StoryOf
  <1>6. Told(timeline[w] \o Events(row, q), new.status, new.priority, new.assignee)
    BY <1>2, <1>3, <1>5, EventsTell
  <1>7. new.status /= Absent
    BY <1>2, <1>3, UpdatedType
  <1>8. ASSUME NEW v \in WorkOrder
        PROVE  /\ order'[v].status = Absent => timeline'[v] = <<>>
               /\ StoryOf(timeline'[v], order'[v])
    <2>1. CASE v = w
      <3>1. order'[v] = new /\ timeline'[v] = timeline[w] \o Events(row, q)
        BY <1>4, <2>1 DEF Inv, TypeOK
      <3> QED  BY <1>6, <1>7, <3>1 DEF StoryOf
    <2>2. CASE v /= w
      <3>1. order'[v] = order[v] /\ timeline'[v] = timeline[v]
        BY <1>4, <2>2 DEF Inv, TypeOK
      <3> QED  BY <3>1 DEF TimelineInv
    <2> QED  BY <2>1, <2>2
  <1> QED  BY <1>8 DEF TimelineInv

\* In commit order the timeline of every order replays its status, priority and
\* assignee: no racing request loses an update or makes up an event.
THEOREM TimelineExplainsRowHolds == Spec => []TimelineExplainsRow
  <1>1. Init => TimelineInv
    <2> SUFFICES ASSUME Init, NEW w \in WorkOrder
                 PROVE  /\ timeline[w] = <<>>
                        /\ StoryOf(timeline[w], order[w])
      BY DEF TimelineInv
    <2>1. /\ timeline[w] = <<>> /\ order[w].status = Absent
          /\ order[w].priority \in Priority /\ order[w].assignee = NULL
      BY DEF Init, NoRow, Priority
    <2> QED  BY <2>1, NothingTold DEF StoryOf
  <1>2. ASSUME Inv, TimelineInv, [Next]_vars
        PROVE  TimelineInv'
    <2>1. CASE \E w \in WorkOrder, in \in Promotions : InsertOrder(w, in)
      BY <1>2, <2>1, InsertTells
    <2>2. CASE \E r \in Request : AppendRow(r)
      BY <1>2, <2>2, AppendTells
    <2>3. CASE \E r \in Request : Commit(r)
      BY <1>2, <2>3, CommitTells
    <2>4. CASE UNCHANGED <<order, timeline>>
      BY <1>2, <2>4 DEF TimelineInv, StoryOf
    <2>5. \/ \E w \in WorkOrder, in \in Promotions : InsertOrder(w, in)
          \/ \E r \in Request : AppendRow(r)
          \/ \E r \in Request : Commit(r)
          \/ UNCHANGED <<order, timeline>>
      BY <1>2
         DEF Next, Handle, HandlePatch, HandleAssign, HandleResolve, HandleCancel,
             HandleAppend, Begin, Serve, LockRow, RefuseRow, AutoStart, Abort, vars
    <2> QED  BY <2>1, <2>2, <2>3, <2>4, <2>5
  <1>3. TimelineInv => TimelineExplainsRow
    BY DEF TimelineInv, StoryOf, Told, TimelineExplainsRow
  <1>4. Inv /\ TimelineInv /\ [Next]_vars => TimelineInv'
    BY <1>2
  <1> QED  BY <1>1, <1>3, <1>4, Invariance, PTL DEF Spec
=============================================================================
