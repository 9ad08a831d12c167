----------------------------- MODULE Candidates -----------------------------
(***************************************************************************)
(* Work order candidates: internal/scoring/repository.go creates them and  *)
(* changes their status, internal/workorders/repository.go promotes them   *)
(* to work orders.                                                         *)
(*                                                                         *)
(* Creating a candidate is a row of separate statements without a          *)
(* transaction, a lock or a unique index: every statement sees a later     *)
(* database than the one before.  Promotion is one transaction that locks  *)
(* the candidate row; a status change is one UPDATE, which waits for that  *)
(* lock.  The orders themselves follow WorkOrderLifecycle, the             *)
(* specification WorkOrders implements.                                    *)
(***************************************************************************)
EXTENDS WorkOrderStatus, Integers

CONSTANTS
    Candidate,  \* ids of candidates
    WorkOrder,  \* ids of work orders
    Request,    \* HTTP requests that can be in flight at once
    Key,        \* customer and diagnosis of an actionable score
    PatchTo,    \* statuses that a PATCH of a candidate may name
    OrderMoves, \* statuses the field team moves work orders to
    Cooldowns,  \* values of work_order_duplicate_cooldown_days, in days
    MaxNow,     \* bound: days a behaviour covers
    NULL        \* an SQL NULL, an unused field of a request

ASSUME NullAssumption ==
    NULL \notin Candidate \cup WorkOrder \cup Request \cup Key

CandidateStatus == {"open", "dismissed", "promoted", "cancelled"}

ASSUME StatusAssumption == PatchTo \subseteq CandidateStatus /\ OrderMoves \subseteq Status

ASSUME CooldownsAssumption == Cooldowns \subseteq Nat /\ MaxNow \in Nat

VARIABLES
    cand,    \* the work_order_candidates table
    lock,    \* the request that holds the row lock of a candidate
    status,  \* work_orders.status
    source,  \* work_orders.source_candidate_id
    pc,      \* the statement each request executes next
    req,     \* what each request works on
    now,     \* the day
    born,    \* number of candidates inserted so far (history)
    reopened \* candidates that a PATCH has set back to open (history)

vars == <<cand, lock, status, source, pc, req, now, born, reopened>>

Order == INSTANCE WorkOrderLifecycle

-----------------------------------------------------------------------------
(* Rows and requests.                                                      *)

Absent == "none"

\* born is the row's place in the order of insertion and since the number of
\* candidates there were when its creator looked for an open one.
CandRow == [status  : CandidateStatus \cup {Absent},
            key     : Key \cup {NULL},
            wo      : WorkOrder \cup {NULL},
            updated : Nat,
            born    : Nat,
            since   : Nat]

NoRow == [status |-> Absent, key |-> NULL, wo |-> NULL, updated |-> 0,
          born |-> 0, since |-> 0]

Step == {"idle", "check_open", "check_promoted", "check_order",
         "check_recent", "insert", "lock_candidate", "promote", "set"}

Req == [key      : Key \cup {NULL},
        cooldown : Nat,
        since    : Nat,
        cand     : Candidate \cup {NULL},
        wo       : WorkOrder \cup {NULL},
        to       : CandidateStatus \cup {NULL},
        at       : Nat]

NoReq == [key |-> NULL, cooldown |-> 0, since |-> 0, cand |-> NULL,
          wo |-> NULL, to |-> NULL, at |-> 0]

Init ==
    /\ cand = [c \in Candidate |-> NoRow]
    /\ lock = [c \in Candidate |-> NULL]
    /\ Order!Init
    /\ source = [w \in WorkOrder |-> NULL]
    /\ pc = [r \in Request |-> "idle"]
    /\ req = [r \in Request |-> NoReq]
    /\ now = 0
    /\ born = 0
    /\ reopened = {}

tables == <<cand, lock, status, source>>
history == <<born, reopened>>

Goto(r, step) == pc' = [pc EXCEPT ![r] = step]

\* Local variables that no later statement of the call reads are forgotten,
\* so that states which differ in them alone are one.
ForgetOrder(r) == req' = [req EXCEPT ![r].wo = NULL]
ForgetCooldown(r) == req' = [req EXCEPT ![r].cooldown = 0]

Finish(r) == Goto(r, "idle") /\ req' = [req EXCEPT ![r] = NoReq]

\* The candidates of customer and diagnosis k that are in status s.
Of(k, s) == {c \in Candidate : cand[c].status = s /\ cand[c].key = k}

-----------------------------------------------------------------------------
(* CreateWorkOrderCandidate, for a score whose severity allows one.        *)

StartCreate(r, k) ==
    /\ pc[r] = "idle"
    /\ \E days \in Cooldowns :
           req' = [req EXCEPT ![r] = [NoReq EXCEPT !.key = k, !.cooldown = days]]
    /\ Goto(r, "check_open")
    /\ UNCHANGED <<tables, now, history>>

\* (Mutant) The first query looks for the wrong status.
CheckOpenMisses(r) ==
    /\ pc[r] = "check_open"
    /\ IF Of(req[r].key, "dismissed") /= {}
       THEN Finish(r)
       ELSE /\ Goto(r, "check_promoted")
            /\ req' = [req EXCEPT ![r].since = born]
    /\ UNCHANGED <<tables, now, history>>

\* An open candidate makes the call a duplicate.
CheckOpen(r) ==
    /\ pc[r] = "check_open"
    /\ IF Of(req[r].key, "open") /= {}
       THEN Finish(r)
       ELSE /\ Goto(r, "check_promoted")
            /\ req' = [req EXCEPT ![r].since = born]
    /\ UNCHANGED <<tables, now, history>>

\* ORDER BY updated_at DESC LIMIT 1: among equal stamps any row may come first.
Newest(S) == {c \in S : \A d \in S : cand[d].updated <= cand[c].updated}

CheckPromoted(r) ==
    /\ pc[r] = "check_promoted"
    /\ LET P == Of(req[r].key, "promoted")
       IN \/ /\ P = {}
             /\ Goto(r, "check_recent")
             /\ UNCHANGED req
          \/ \E c \in Newest(P) :
                 IF cand[c].wo = NULL
                 THEN Goto(r, "check_recent") /\ UNCHANGED req
                 ELSE /\ Goto(r, "check_order")
                      /\ req' = [req EXCEPT ![r].wo = cand[c].wo]
    /\ UNCHANGED <<tables, now, history>>

\* An order that is still worked on makes the call a duplicate.
CheckOrder(r) ==
    /\ pc[r] = "check_order"
    /\ IF IsTerminal(status[req[r].wo])
       THEN Goto(r, "check_recent") /\ ForgetOrder(r)
       ELSE Finish(r)
    /\ UNCHANGED <<tables, now, history>>

\* The error of the status query is dropped: the check then passes.
CheckOrderFails(r) ==
    /\ pc[r] = "check_order"
    /\ Goto(r, "check_recent")
    /\ ForgetOrder(r)
    /\ UNCHANGED <<tables, now, history>>

\* A candidate dismissed or cancelled within the cooldown makes the call a
\* duplicate; a cooldown of zero switches the check off.
CheckRecent(r) ==
    /\ pc[r] = "check_recent"
    /\ LET k == req[r].key
           days == req[r].cooldown
       IN IF /\ days > 0
             /\ \E c \in Of(k, "dismissed") \cup Of(k, "cancelled") :
                    cand[c].updated >= now - days
          THEN Finish(r)
          ELSE Goto(r, "insert") /\ ForgetCooldown(r)
    /\ UNCHANGED <<tables, now, history>>

Insert(r, c) ==
    /\ pc[r] = "insert"
    /\ cand[c].status = Absent
    /\ born' = born + 1
    /\ cand' = [cand EXCEPT ![c] =
           [status |-> "open", key |-> req[r].key, wo |-> NULL,
            updated |-> now, born |-> born', since |-> req[r].since]]
    /\ Finish(r)
    /\ UNCHANGED <<lock, status, source, now, reopened>>

-----------------------------------------------------------------------------
(* PromoteCandidate, UpdateCandidateStatus and what surrounds them.        *)

BeginPromote(r, c) ==
    /\ pc[r] = "idle"
    /\ cand[c].status /= Absent
    /\ req' = [req EXCEPT ![r] = [NoReq EXCEPT !.cand = c, !.at = now]]
    /\ Goto(r, "lock_candidate")
    /\ UNCHANGED <<tables, now, history>>

\* (Mutant) The candidate is read without FOR UPDATE.
LockCandidateNot(r) ==
    LET c == req[r].cand
    IN /\ pc[r] = "lock_candidate"
       /\ IF cand[c].status = "open"
          THEN Goto(r, "promote") /\ UNCHANGED req
          ELSE Finish(r)
       /\ UNCHANGED <<tables, now, history>>

\* SELECT ... FOR UPDATE of the candidate.  Only an open one goes on: for a
\* promoted one with an order that order is returned, all else is an error.
LockCandidate(r) ==
    LET c == req[r].cand
    IN /\ pc[r] = "lock_candidate"
       /\ lock[c] = NULL
       /\ IF cand[c].status = "open"
          THEN /\ lock' = [lock EXCEPT ![c] = r]
               /\ Goto(r, "promote")
               /\ UNCHANGED req
          ELSE Finish(r) /\ UNCHANGED lock
       /\ UNCHANGED <<cand, status, source, now, history>>

\* (Mutant) The promotion marks the candidate but does not link the order.
CommitPromoteUnlinked(r, w) ==
    LET c == req[r].cand
    IN /\ pc[r] = "promote"
       /\ Order!Create(w)
       /\ source' = [source EXCEPT ![w] = c]
       /\ cand' = [cand EXCEPT ![c].status = "promoted"]
       /\ lock' = [lock EXCEPT ![c] = NULL]
       /\ Finish(r)
       /\ UNCHANGED <<now, history>>

\* One commit: the order, its events, the candidate's status and its link.
\* updated_at is now() of the transaction, the time it began.
CommitPromote(r, w) ==
    LET c == req[r].cand
    IN /\ pc[r] = "promote"
       /\ Order!Create(w)
       /\ source' = [source EXCEPT ![w] = c]
       /\ cand' = [cand EXCEPT ![c].status = "promoted", ![c].wo = w,
                               ![c].updated = req[r].at]
       /\ lock' = [lock EXCEPT ![c] = NULL]
       /\ Finish(r)
       /\ UNCHANGED <<now, history>>

\* PATCH of a candidate: any status may follow any other, and the link to a
\* work order stays what it was.
BeginSet(r, c, to) ==
    /\ pc[r] = "idle"
    /\ cand[c].status /= Absent
    /\ req' = [req EXCEPT ![r] =
           [NoReq EXCEPT !.cand = c, !.to = to, !.at = now]]
    /\ Goto(r, "set")
    /\ UNCHANGED <<tables, now, history>>

ApplySet(r) ==
    LET c == req[r].cand
    IN /\ pc[r] = "set"
       /\ lock[c] = NULL
       /\ cand' = [cand EXCEPT ![c].status = req[r].to,
                               ![c].updated = req[r].at]
       /\ reopened' = IF req[r].to = "open" /\ cand[c].status /= "open"
                      THEN reopened \cup {c} ELSE reopened
       /\ Finish(r)
       /\ UNCHANGED <<lock, status, source, now, born>>

\* A statement fails, the client goes away or the API crashes.
Abort(r) ==
    /\ pc[r] /= "idle"
    /\ lock' = [c \in Candidate |-> IF lock[c] = r THEN NULL ELSE lock[c]]
    /\ Finish(r)
    /\ UNCHANGED <<cand, status, source, now, history>>

\* The field team works on the orders.
MoveOrder(w, to) ==
    /\ Order!Move(w, to)
    /\ UNCHANGED <<cand, lock, source, pc, req, now, history>>

Tick ==
    /\ now < MaxNow
    /\ now' = now + 1
    /\ UNCHANGED <<tables, pc, req, history>>

Creating(r) ==
    \/ \E k \in Key : StartCreate(r, k)
    \/ CheckOpen(r)
    \/ CheckPromoted(r)
    \/ CheckOrder(r)
    \/ CheckOrderFails(r)
    \/ CheckRecent(r)
    \/ \E c \in Candidate : Insert(r, c)

Promoting(r) ==
    \/ \E c \in Candidate : BeginPromote(r, c)
    \/ LockCandidate(r)
    \/ \E w \in WorkOrder : CommitPromote(r, w)

Setting(r) ==
    \/ \E c \in Candidate, to \in PatchTo : BeginSet(r, c, to)
    \/ ApplySet(r)

Next ==
    \/ \E r \in Request : Creating(r) \/ Promoting(r) \/ Setting(r) \/ Abort(r)
    \/ \E w \in WorkOrder, to \in OrderMoves : MoveOrder(w, to)
    \/ Tick

Spec == Init /\ [][Next]_vars

-----------------------------------------------------------------------------
(* Properties.                                                             *)

TypeOK ==
    /\ cand \in [Candidate -> CandRow]
    /\ lock \in [Candidate -> Request \cup {NULL}]
    /\ status \in [WorkOrder -> Status \cup {Absent}]
    /\ source \in [WorkOrder -> Candidate \cup {NULL}]
    /\ pc \in [Request -> Step]
    /\ req \in [Request -> Req]
    /\ now \in Nat
    /\ born \in Nat
    /\ reopened \subseteq Candidate

\* Candidate and order point at each other: the order a candidate names came
\* from it, and an order's candidate names an order (after a second promotion
\* the newer one).  The commit of the promotion may be interleaved with status
\* changes of the candidate, failures of other requests and moves of the order.
PromotedLink ==
    /\ \A c \in Candidate : cand[c].wo /= NULL =>
           /\ status[cand[c].wo] /= Absent
           /\ source[cand[c].wo] = c
    /\ \A w \in WorkOrder : status[w] /= Absent =>
           /\ source[w] /= NULL
           /\ cand[source[w]].wo /= NULL

\* Two clicks on "promote" give one order: a candidate gets a work order only
\* in a step that takes it from open to promoted, so a second one needs a
\* PATCH that sets it back to open in between.
OneOrderPerOpening ==
    [][\A c \in Candidate : cand'[c].wo /= cand[c].wo =>
           cand[c].status = "open" /\ cand'[c].status = "promoted"]_vars

\* The duplicate guard fails only against a rival: of two open candidates of
\* one customer and diagnosis that nobody reopened, the later one was inserted
\* by a request that had looked before the earlier one was there.
OpenDuplicatesWereRivals ==
    \A c, d \in Candidate \ reopened :
        (/\ cand[c].status = "open" /\ cand[d].status = "open"
         /\ cand[c].key = cand[d].key
         /\ cand[c].born < cand[d].born)
            => cand[d].since < cand[c].born
=============================================================================
