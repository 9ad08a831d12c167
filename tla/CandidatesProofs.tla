--------------------------- MODULE CandidatesProofs ---------------------------
(***************************************************************************)
(* Proofs about Candidates for any number of candidates, orders, requests  *)
(* and keys.                                                               *)
(***************************************************************************)
EXTENDS Candidates, TLAPS

\* The steps of CreateWorkOrderCandidate after the open check has passed.
Checked == {"check_promoted", "check_order", "check_recent", "insert"}

\* A request carries what its next statement needs.
ReqInv ==
    \A r \in Request :
        /\ pc[r] \in Checked \cup {"check_open"} => req[r].key \in Key
        /\ pc[r] \in Checked => req[r].since <= born
        /\ pc[r] = "check_order" => req[r].wo \in WorkOrder
        /\ pc[r] \in {"lock_candidate", "promote", "set"} =>
               req[r].cand \in Candidate
        /\ pc[r] = "set" => /\ req[r].to \in CandidateStatus
                            /\ cand[req[r].cand].status /= Absent

\* Who holds the lock of a candidate finds it as it was: open.
LockInv ==
    \A r \in Request : pc[r] = "promote" =>
        /\ lock[req[r].cand] = r
        /\ cand[req[r].cand].status = "open"

\* The order of insertion, and what a creator past the open check has missed:
\* the open candidates it should have found all came after its look.
BornInv ==
    /\ \A c \in Candidate :
           IF cand[c].status = Absent THEN cand[c].wo = NULL
                                      ELSE cand[c].born <= born
    /\ \A r \in Request, c \in Candidate \ reopened :
           /\ pc[r] \in Checked
           /\ cand[c].status = "open"
           /\ cand[c].key = req[r].key
           => req[r].since < cand[c].born

Inv == TypeOK /\ ReqInv /\ LockInv /\ BornInv

USE DEF CandidateStatus, Absent, Checked

-----------------------------------------------------------------------------
(* Initially.                                                              *)

\* The fields of an idle request are of their types.
LEMMA NoReqType == NoReq \in Req
  BY DEF NoReq, Req

\* The invariant and the proved properties hold of empty tables.
LEMMA InitInv == Init => Inv /\ PromotedLink /\ OpenDuplicatesWereRivals
  <1> SUFFICES ASSUME Init PROVE Inv /\ PromotedLink /\ OpenDuplicatesWereRivals
    OBVIOUS
  <1>1. NoRow \in CandRow /\ NoRow.status = Absent /\ NoRow.wo = NULL
    BY DEF NoRow, CandRow
  <1>2. status = [w \in WorkOrder |-> Absent]
    BY DEF Init, Order!Init, Order!Absent
  <1>3. TypeOK
    BY <1>1, <1>2, NoReqType DEF Init, TypeOK, Step
  <1>4. ReqInv /\ LockInv /\ BornInv
    BY <1>1 DEF Init, ReqInv, LockInv, BornInv
  <1>5. PromotedLink /\ OpenDuplicatesWereRivals
    BY <1>1, <1>2 DEF Init, PromotedLink, OpenDuplicatesWereRivals
  <1> QED  BY <1>3, <1>4, <1>5 DEF Inv

-----------------------------------------------------------------------------
(* Steps that read the tables and change one request only.                 *)

\* The statements that only read move their own request along.
LEMMA ReadInv ==
    ASSUME Inv, NEW r \in Request,
           \/ \E k \in Key : StartCreate(r, k)
           \/ CheckOpen(r)
           \/ CheckPromoted(r)
           \/ CheckOrder(r)
           \/ CheckOrderFails(r)
           \/ CheckRecent(r)
           \/ \E c \in Candidate : BeginPromote(r, c)
           \/ \E c \in Candidate, to \in PatchTo : BeginSet(r, c, to)
    PROVE  Inv'
  <1> USE NoReqType
  <1> DEFINE Same == UNCHANGED <<cand, lock, status, source, now, born, reopened>>
  <1>1. CASE \E k \in Key : StartCreate(r, k)
    <2>1. PICK k \in Key, days \in Cooldowns :
              /\ req' = [req EXCEPT ![r] =
                             [NoReq EXCEPT !.key = k, !.cooldown = days]]
              /\ pc' = [pc EXCEPT ![r] = "check_open"]
              /\ Same
      BY <1>1 DEF StartCreate, Goto, tables, history
    <2>2. [NoReq EXCEPT !.key = k, !.cooldown = days] \in Req
      BY CooldownsAssumption DEF Req, NoReq
    <2>3. TypeOK'
      BY <2>1, <2>2 DEF Inv, TypeOK, Step
    <2>4. ReqInv' /\ LockInv' /\ BornInv'
      BY <2>1, <2>2 DEF Inv, TypeOK, ReqInv, LockInv, BornInv, NoReq
    <2> QED  BY <2>3, <2>4 DEF Inv
  <1>2. CASE CheckOpen(r)
    <2> DEFINE new == [req[r] EXCEPT !.since = born]
    <2>1. Same /\ pc[r] = "check_open"
      BY <1>2 DEF CheckOpen, tables, history
    <2>2. \/ /\ pc' = [pc EXCEPT ![r] = "idle"]
             /\ req' = [req EXCEPT ![r] = NoReq]
          \/ /\ pc' = [pc EXCEPT ![r] = "check_promoted"]
             /\ req' = [req EXCEPT ![r] = new]
             /\ \A c \in Candidate : cand[c].status = "open" => cand[c].key /= req[r].key
      BY <1>2 DEF CheckOpen, Finish, Goto, Of
    <2>3. new \in Req /\ new.key = req[r].key /\ new.since = born
      BY DEF Inv, TypeOK, Req
    <2> HIDE DEF new
    <2>4. TypeOK'
      BY <2>1, <2>2, <2>3 DEF Inv, TypeOK, Step
    <2>5. ReqInv' /\ LockInv'
      BY <2>1, <2>2, <2>3 DEF Inv, TypeOK, ReqInv, LockInv
    <2>6. BornInv'
      BY <2>1, <2>2, <2>3 DEF Inv, TypeOK, BornInv
    <2> QED  BY <2>4, <2>5, <2>6 DEF Inv
  <1>3. CASE CheckPromoted(r)
    <2>1. Same /\ pc[r] = "check_promoted"
      BY <1>3 DEF CheckPromoted, tables, history
    <2>2. \/ pc' = [pc EXCEPT ![r] = "check_recent"] /\ req' = req
          \/ \E w \in WorkOrder :
                 /\ pc' = [pc EXCEPT ![r] = "check_order"]
                 /\ req' = [req EXCEPT ![r] = [req[r] EXCEPT !.wo = w]]
      BY <1>3 DEF CheckPromoted, Goto, Newest, Of, Inv, TypeOK, CandRow
    <2>3. CASE pc' = [pc EXCEPT ![r] = "check_recent"] /\ req' = req
      BY <2>1, <2>3 DEF Inv, TypeOK, Step, ReqInv, LockInv, BornInv
    <2>4. ASSUME NEW w \in WorkOrder,
                 pc' = [pc EXCEPT ![r] = "check_order"],
                 req' = [req EXCEPT ![r] = [req[r] EXCEPT !.wo = w]]
          PROVE  Inv'
      <3> DEFINE new == [req[r] EXCEPT !.wo = w]
      <3>1. /\ new \in Req /\ new.key = req[r].key
            /\ new.since = req[r].since /\ new.wo = w
        BY DEF Inv, TypeOK, Req
      <3>2. req' = [req EXCEPT ![r] = new]
        BY <2>4
      <3> HIDE DEF new
      <3>3. TypeOK'
        BY <2>1, <2>4, <3>1, <3>2 DEF Inv, TypeOK, Step
      <3>4. ReqInv' /\ LockInv'
        BY <2>1, <2>4, <3>1, <3>2 DEF Inv, TypeOK, ReqInv, LockInv
      <3>5. BornInv'
        BY <2>1, <2>4, <3>1, <3>2 DEF Inv, TypeOK, BornInv
      <3> QED  BY <3>3, <3>4, <3>5 DEF Inv
    <2> QED  BY <2>2, <2>3, <2>4
  <1>4. CASE CheckOrder(r) \/ CheckOrderFails(r) \/ CheckRecent(r)
    <2>1. Same /\ pc[r] \in Checked
      BY <1>4 DEF CheckOrder, CheckOrderFails, CheckRecent, tables, history
    <2> DEFINE noOrder == [req[r] EXCEPT !.wo = NULL]
               noCooldown == [req[r] EXCEPT !.cooldown = 0]
    <2>2. \/ /\ pc' = [pc EXCEPT ![r] = "idle"]
             /\ req' = [req EXCEPT ![r] = NoReq]
          \/ /\ \/ pc' = [pc EXCEPT ![r] = "check_recent"]
                \/ pc' = [pc EXCEPT ![r] = "insert"]
             /\ \/ req' = [req EXCEPT ![r] = noOrder]
                \/ req' = [req EXCEPT ![r] = noCooldown]
      BY <1>4 DEF CheckOrder, CheckOrderFails, CheckRecent, Finish, Goto,
                  ForgetOrder, ForgetCooldown
    <2>3. CASE /\ pc' = [pc EXCEPT ![r] = "idle"]
               /\ req' = [req EXCEPT ![r] = NoReq]
      <3>1. TypeOK'
        BY <2>1, <2>3 DEF Inv, TypeOK, Step, Req, NoReq
      <3>2. ReqInv' /\ LockInv' /\ BornInv'
        BY <2>1, <2>3 DEF Inv, TypeOK, ReqInv, LockInv, BornInv
      <3> QED  BY <3>1, <3>2 DEF Inv
    <2>4. ASSUME NEW new \in {noOrder, noCooldown},
                 NEW step \in {"check_recent", "insert"},
                 pc' = [pc EXCEPT ![r] = step],
                 req' = [req EXCEPT ![r] = new]
          PROVE  Inv'
      <3>1. /\ new \in Req
            /\ new.key = req[r].key
            /\ new.since = req[r].since
        BY DEF Inv, TypeOK, Req
      <3>2. TypeOK'
        BY <2>1, <2>4, <3>1 DEF Inv, TypeOK, Step
      <3>3. ReqInv' /\ LockInv'
        BY <2>1, <2>4, <3>1 DEF Inv, TypeOK, ReqInv, LockInv
      <3>4. BornInv'
        BY <2>1, <2>4, <3>1 DEF Inv, TypeOK, BornInv
      <3> QED  BY <3>2, <3>3, <3>4 DEF Inv
    <2>5. QED
      BY <2>2, <2>3, <2>4
  <1>5. CASE \E c \in Candidate : BeginPromote(r, c)
    <2>1. PICK c \in Candidate :
              /\ req' = [req EXCEPT ![r] = [NoReq EXCEPT !.cand = c, !.at = now]]
              /\ pc' = [pc EXCEPT ![r] = "lock_candidate"]
              /\ Same
      BY <1>5 DEF BeginPromote, Goto, tables, history
    <2>2. [NoReq EXCEPT !.cand = c, !.at = now] \in Req
      BY DEF Req, NoReq, Inv, TypeOK
    <2>3. TypeOK'
      BY <2>1, <2>2 DEF Inv, TypeOK, Step
    <2>4. ReqInv' /\ LockInv' /\ BornInv'
      BY <2>1, <2>2 DEF Inv, TypeOK, ReqInv, LockInv, BornInv, NoReq
    <2> QED  BY <2>3, <2>4 DEF Inv
  <1>6. CASE \E c \in Candidate, to \in PatchTo : BeginSet(r, c, to)
    <2>1. PICK c \in Candidate, to \in CandidateStatus :
              /\ req' = [req EXCEPT ![r] =
                             [NoReq EXCEPT !.cand = c, !.to = to, !.at = now]]
              /\ pc' = [pc EXCEPT ![r] = "set"]
              /\ cand[c].status /= Absent
              /\ Same
      BY <1>6, StatusAssumption DEF BeginSet, Goto, tables, history
    <2>2. [NoReq EXCEPT !.cand = c, !.to = to, !.at = now] \in Req
      BY DEF Req, NoReq, Inv, TypeOK
    <2>3. TypeOK'
      BY <2>1, <2>2 DEF Inv, TypeOK, Step
    <2>4. ReqInv' /\ LockInv' /\ BornInv'
      BY <2>1, <2>2 DEF Inv, TypeOK, ReqInv, LockInv, BornInv, NoReq
    <2> QED  BY <2>3, <2>4 DEF Inv
  <1> QED  BY <1>1, <1>2, <1>3, <1>4, <1>5, <1>6

-----------------------------------------------------------------------------
(* Steps that write the tables.                                            *)

\* The INSERT of a candidate is the last in the order of insertion, so no
\* request that looked before it can have seen it.
LEMMA InsertInv ==
    ASSUME Inv, NEW r \in Request, NEW c \in Candidate, Insert(r, c)
    PROVE  Inv'
  <1> DEFINE row == [status |-> "open", key |-> req[r].key, wo |-> NULL,
                     updated |-> now, born |-> born', since |-> req[r].since]
  <1>1. /\ pc[r] = "insert" /\ cand[c].status = Absent
        /\ born' = born + 1 /\ born' \in Nat
        /\ cand' = [cand EXCEPT ![c] = row]
        /\ pc' = [pc EXCEPT ![r] = "idle"]
        /\ req' = [req EXCEPT ![r] = NoReq]
        /\ UNCHANGED <<lock, status, source, now, reopened>>
    BY DEF Insert, Finish, Goto, Inv, TypeOK
  <1>2. /\ row \in CandRow /\ row.status = "open" /\ row.wo = NULL
        /\ row.key = req[r].key /\ row.born = born + 1
    BY <1>1 DEF Inv, TypeOK, CandRow, Req
  <1> HIDE DEF row
  <1>3. TypeOK'
    BY <1>1, <1>2, NoReqType DEF Inv, TypeOK, Step
  <1>4. ReqInv'
    BY <1>1, <1>2, NoReqType DEF Inv, TypeOK, ReqInv, Req
  <1>5. LockInv'
    BY <1>1, <1>2, NoReqType DEF Inv, TypeOK, ReqInv, LockInv
  <1>6. BornInv'
    <2>1. \A d \in Candidate : IF cand'[d].status = Absent
                               THEN cand'[d].wo = NULL
                               ELSE cand'[d].born <= born'
      BY <1>1, <1>2 DEF Inv, TypeOK, CandRow, BornInv
    <2>2. \A q \in Request : pc'[q] \in Checked =>
              req'[q] = req[q] /\ pc[q] \in Checked /\ req[q].since \in Nat
      BY <1>1 DEF Inv, TypeOK, Req
    <2>3. \A q \in Request, d \in Candidate \ reopened' :
              /\ pc'[q] \in Checked
              /\ cand'[d].status = "open"
              /\ cand'[d].key = req'[q].key
              => req'[q].since < cand'[d].born
      BY <1>1, <1>2, <2>2 DEF Inv, TypeOK, ReqInv, BornInv
    <2> QED  BY <2>1, <2>3 DEF BornInv
  <1> QED  BY <1>3, <1>4, <1>5, <1>6 DEF Inv

\* SELECT ... FOR UPDATE gives the lock to one request and shows it the row.
LEMMA LockCandidateInv ==
    ASSUME Inv, NEW r \in Request, LockCandidate(r)
    PROVE  Inv'
  <1>1. /\ pc[r] = "lock_candidate" /\ lock[req[r].cand] = NULL
        /\ req[r].cand \in Candidate
        /\ UNCHANGED <<cand, status, source, now, born, reopened>>
    BY DEF LockCandidate, history, Inv, ReqInv
  <1>2. \/ /\ cand[req[r].cand].status = "open"
           /\ lock' = [lock EXCEPT ![req[r].cand] = r]
           /\ pc' = [pc EXCEPT ![r] = "promote"]
           /\ req' = req
        \/ /\ lock' = lock
           /\ pc' = [pc EXCEPT ![r] = "idle"]
           /\ req' = [req EXCEPT ![r] = NoReq]
    BY DEF LockCandidate, Finish, Goto
  <1>3. TypeOK'
    BY <1>1, <1>2, NoReqType DEF Inv, TypeOK, Step
  <1>4. ReqInv'
    BY <1>1, <1>2, NoReqType DEF Inv, TypeOK, ReqInv
  <1>5. LockInv'
    <2>1. \A q \in Request : q # NULL
      BY NullAssumption
    <2> SUFFICES ASSUME NEW q \in Request, pc'[q] = "promote"
                 PROVE  /\ lock'[req'[q].cand] = q
                        /\ cand'[req'[q].cand].status = "open"
      BY DEF LockInv
    <2>2. CASE q = r
      BY <1>1, <1>2, <2>2 DEF Inv, TypeOK
    <2>3. CASE q # r
      <3>1. pc[q] = "promote" /\ req'[q] = req[q]
        BY <1>2, <2>3 DEF Inv, TypeOK
      <3>2. /\ lock[req[q].cand] = q /\ cand[req[q].cand].status = "open"
            /\ req[q].cand \in Candidate
        BY <3>1 DEF Inv, LockInv, ReqInv
      <3>3. req[q].cand # req[r].cand
        BY <1>1, <2>1, <3>2
      <3>4. lock'[req[q].cand] = lock[req[q].cand]
        BY <1>2, <3>2, <3>3 DEF Inv, TypeOK
      <3> QED  BY <1>1, <3>1, <3>2, <3>4
    <2> QED  BY <2>2, <2>3
  <1>6. BornInv'
    BY <1>1, <1>2 DEF Inv, TypeOK, BornInv
  <1> QED  BY <1>3, <1>4, <1>5, <1>6 DEF Inv

\* What the commit of a promotion does, in terms of one candidate row.
LEMMA CommitPromoteStep ==
    ASSUME Inv, NEW r \in Request, NEW w \in WorkOrder, CommitPromote(r, w)
    PROVE  \E c \in Candidate, row \in CandRow :
               /\ c = req[r].cand /\ pc[r] = "promote"
               /\ lock[c] = r /\ cand[c].status = "open"
               /\ row.status = "promoted" /\ row.wo = w
               /\ row.key = cand[c].key /\ row.born = cand[c].born
               /\ row.since = cand[c].since
               /\ cand' = [cand EXCEPT ![c] = row]
               /\ lock' = [lock EXCEPT ![c] = NULL]
               /\ status[w] = Absent
               /\ status' = [status EXCEPT ![w] = "open"]
               /\ source' = [source EXCEPT ![w] = c]
               /\ pc' = [pc EXCEPT ![r] = "idle"]
               /\ req' = [req EXCEPT ![r] = NoReq]
               /\ UNCHANGED <<now, born, reopened>>
  <1> DEFINE c == req[r].cand
             row == [cand[c] EXCEPT !.status = "promoted", !.wo = w,
                                    !.updated = req[r].at]
  <1>1. /\ c \in Candidate /\ pc[r] = "promote"
        /\ lock[c] = r /\ cand[c].status = "open"
    BY DEF CommitPromote, Inv, ReqInv, LockInv
  <1>2. cand[c] \in CandRow /\ req[r].at \in Nat
    BY <1>1 DEF Inv, TypeOK, Req
  <1>3. /\ row \in CandRow /\ row.status = "promoted" /\ row.wo = w
        /\ row.key = cand[c].key /\ row.born = cand[c].born
        /\ row.since = cand[c].since
    BY <1>2 DEF CandRow
  <1>4. cand' = [cand EXCEPT ![c] = row]
    BY <1>1 DEF CommitPromote, Inv, TypeOK
  <1>5. status[w] = Absent /\ status' = [status EXCEPT ![w] = "open"]
    BY DEF CommitPromote, Order!Create, Order!Absent
  <1>6. /\ lock' = [lock EXCEPT ![c] = NULL]
        /\ source' = [source EXCEPT ![w] = c]
        /\ pc' = [pc EXCEPT ![r] = "idle"]
        /\ req' = [req EXCEPT ![r] = NoReq]
        /\ UNCHANGED <<now, born, reopened>>
    BY DEF CommitPromote, Finish, Goto, history
  <1> HIDE DEF row
  <1> QED  BY <1>1, <1>3, <1>4, <1>5, <1>6

\* The commit of a promotion keeps the invariant.
LEMMA CommitPromoteInv ==
    ASSUME Inv, NEW r \in Request, NEW w \in WorkOrder, CommitPromote(r, w)
    PROVE  Inv'
  <1>1. PICK c \in Candidate, row \in CandRow :
            /\ c = req[r].cand /\ pc[r] = "promote"
            /\ lock[c] = r /\ cand[c].status = "open"
            /\ row.status = "promoted" /\ row.wo = w
            /\ row.key = cand[c].key /\ row.born = cand[c].born
            /\ row.since = cand[c].since
            /\ cand' = [cand EXCEPT ![c] = row]
            /\ lock' = [lock EXCEPT ![c] = NULL]
            /\ status[w] = Absent
            /\ status' = [status EXCEPT ![w] = "open"]
            /\ source' = [source EXCEPT ![w] = c]
            /\ pc' = [pc EXCEPT ![r] = "idle"]
            /\ req' = [req EXCEPT ![r] = NoReq]
            /\ UNCHANGED <<now, born, reopened>>
    BY CommitPromoteStep
  <1>2. TypeOK'
    BY <1>1, NoReqType DEF Inv, TypeOK, Step, Status
  <1>3. ReqInv'
    BY <1>1, NoReqType DEF Inv, TypeOK, ReqInv
  <1>4. LockInv'
    BY <1>1, NoReqType DEF Inv, TypeOK, ReqInv, LockInv
  <1>5. BornInv'
    BY <1>1, NoReqType DEF Inv, TypeOK, BornInv
  <1> QED  BY <1>2, <1>3, <1>4, <1>5 DEF Inv

\* A status change waits for the lock, so it cannot change a row that a
\* promotion has read and not yet written.
LEMMA ApplySetInv ==
    ASSUME Inv, NEW r \in Request, ApplySet(r)
    PROVE  Inv'
  <1> DEFINE c == req[r].cand
             row == [cand[c] EXCEPT !.status = req[r].to, !.updated = req[r].at]
  <1>1. /\ c \in Candidate /\ pc[r] = "set" /\ lock[c] = NULL
        /\ cand[c].status # Absent /\ req[r].to \in CandidateStatus
    BY DEF ApplySet, Inv, ReqInv
  <1>2. cand[c] \in CandRow /\ req[r].at \in Nat
    BY <1>1 DEF Inv, TypeOK, Req
  <1>3. /\ row \in CandRow /\ row.status = req[r].to /\ row.key = cand[c].key
        /\ row.born = cand[c].born /\ row.wo = cand[c].wo
    BY <1>1, <1>2 DEF CandRow
  <1>4. /\ cand' = [cand EXCEPT ![c] = row]
        /\ reopened \subseteq reopened' /\ reopened' \subseteq Candidate
        /\ row.status = "open" /\ cand[c].status # "open" => c \in reopened'
        /\ pc' = [pc EXCEPT ![r] = "idle"]
        /\ req' = [req EXCEPT ![r] = NoReq]
        /\ UNCHANGED <<lock, status, source, now, born>>
    BY <1>1, <1>3 DEF ApplySet, Finish, Goto, Inv, TypeOK
  <1> HIDE DEF row
  <1>5. TypeOK'
    BY <1>3, <1>4, NoReqType DEF Inv, TypeOK, Step
  <1>6. \A d \in Candidate : d # c => cand'[d] = cand[d]
    BY <1>4 DEF Inv, TypeOK
  <1>7. cand'[c] = row /\ row.status # Absent
    BY <1>1, <1>3, <1>4 DEF Inv, TypeOK
  <1>8. ReqInv'
    BY <1>4, <1>6, <1>7, NoReqType DEF Inv, TypeOK, ReqInv
  <1>9. LockInv'
    <2> SUFFICES ASSUME NEW q \in Request, pc'[q] = "promote"
                 PROVE  /\ lock'[req'[q].cand] = q
                        /\ cand'[req'[q].cand].status = "open"
      BY DEF LockInv
    <2>1. pc[q] = "promote" /\ req'[q] = req[q]
      BY <1>4 DEF Inv, TypeOK
    <2>2. /\ lock[req[q].cand] = q /\ cand[req[q].cand].status = "open"
          /\ req[q].cand \in Candidate
      BY <2>1 DEF Inv, LockInv, ReqInv
    <2>3. req[q].cand # c
      BY <1>1, <2>2, NullAssumption
    <2> QED  BY <1>4, <1>6, <2>1, <2>2, <2>3
  <1>10. BornInv'
    <2>1. \A d \in Candidate : IF cand'[d].status = Absent
                               THEN cand'[d].wo = NULL
                               ELSE cand'[d].born <= born'
      BY <1>1, <1>3, <1>4, <1>6, <1>7 DEF Inv, BornInv
    <2> SUFFICES ASSUME NEW q \in Request, NEW d \in Candidate \ reopened',
                        pc'[q] \in Checked,
                        cand'[d].status = "open",
                        cand'[d].key = req'[q].key
                 PROVE  req'[q].since < cand'[d].born
      BY <2>1 DEF BornInv
    <2>2. pc[q] \in Checked /\ req'[q] = req[q]
      BY <1>4 DEF Inv, TypeOK
    <2>3. /\ d \in Candidate \ reopened
          /\ cand[d].status = "open" /\ cand[d].key = cand'[d].key
          /\ cand[d].born = cand'[d].born
      BY <1>3, <1>4, <1>6, <1>7
    <2> QED  BY <2>2, <2>3 DEF Inv, BornInv
  <1> QED  BY <1>5, <1>8, <1>9, <1>10 DEF Inv

\* A rollback gives back exactly the locks of its request.
LEMMA AbortInv ==
    ASSUME Inv, NEW r \in Request, Abort(r)
    PROVE  Inv'
  <1>1. /\ lock' = [c \in Candidate |-> IF lock[c] = r THEN NULL ELSE lock[c]]
        /\ pc' = [pc EXCEPT ![r] = "idle"]
        /\ req' = [req EXCEPT ![r] = NoReq]
        /\ UNCHANGED <<cand, status, source, now, born, reopened>>
    BY DEF Abort, Finish, Goto, history
  <1>2. TypeOK'
    BY <1>1, NoReqType DEF Inv, TypeOK, Step
  <1>3. \A q \in Request : pc'[q] # "idle" =>
            q # r /\ pc'[q] = pc[q] /\ req'[q] = req[q]
    BY <1>1 DEF Inv, TypeOK
  <1>4. ReqInv'
    BY <1>1, <1>3 DEF Inv, ReqInv
  <1>5. LockInv'
    BY <1>1, <1>3 DEF Inv, ReqInv, LockInv
  <1>6. BornInv'
    BY <1>1, <1>3 DEF Inv, BornInv
  <1> QED  BY <1>2, <1>4, <1>5, <1>6 DEF Inv

\* What the field team does to the orders keeps the invariant.
LEMMA MoveOrderInv ==
    ASSUME Inv, NEW w \in WorkOrder, NEW to \in OrderMoves, MoveOrder(w, to)
    PROVE  Inv'
  <1>1. /\ status' = [status EXCEPT ![w] = to] /\ to \in Status
        /\ UNCHANGED <<cand, lock, source, pc, req, now, born, reopened>>
    BY StatusAssumption DEF MoveOrder, Order!Move, history
  <1>2. TypeOK'
    BY <1>1 DEF Inv, TypeOK
  <1> QED  BY <1>1, <1>2 DEF Inv, ReqInv, LockInv, BornInv

\* The passing of a day keeps the invariant.
LEMMA TickInv == Inv /\ (Tick \/ UNCHANGED vars) => Inv'
  <1> SUFFICES ASSUME Inv, Tick \/ UNCHANGED vars
               PROVE  Inv'
    OBVIOUS
  <1>1. /\ now' \in Nat
        /\ UNCHANGED <<cand, lock, status, source, pc, req, born, reopened>>
    BY DEF Tick, vars, tables, history, Inv, TypeOK
  <1>2. TypeOK'
    BY <1>1 DEF Inv, TypeOK
  <1> QED  BY <1>1, <1>2 DEF Inv, ReqInv, LockInv, BornInv

\* Every step of the specification keeps the invariant.
LEMMA NextInv == Inv /\ [Next]_vars => Inv'
  <1> SUFFICES ASSUME Inv, [Next]_vars PROVE Inv'
    OBVIOUS
  <1>1. CASE \E r \in Request : Creating(r) \/ Promoting(r) \/ Setting(r) \/ Abort(r)
    BY <1>1, ReadInv, InsertInv, LockCandidateInv, CommitPromoteInv, ApplySetInv,
       AbortInv DEF Creating, Promoting, Setting
  <1>2. CASE \E w \in WorkOrder, to \in OrderMoves : MoveOrder(w, to)
    BY <1>2, MoveOrderInv
  <1>3. CASE Tick \/ UNCHANGED vars
    BY <1>3, TickInv
  <1> QED  BY <1>1, <1>2, <1>3 DEF Next

-----------------------------------------------------------------------------
(* The theorems.                                                           *)

\* The invariant holds in every state: requests carry what they need, a lock
\* protects the row its holder has read, insertions are counted in order.
THEOREM Invariance == Spec => []Inv
  <1>1. Init => Inv
    BY InitInv
  <1> QED  BY <1>1, NextInv, PTL DEF Spec

\* Every table keeps its columns' types, in particular the CHECK constraint on
\* work_order_candidates.status.
THEOREM TypeCorrect == Spec => []TypeOK
  <1>1. Inv => TypeOK
    BY DEF Inv
  <1> QED  BY <1>1, Invariance, PTL

\* One step keeps the links between candidates and orders.
LEMMA LinkStep == Inv /\ PromotedLink /\ [Next]_vars => PromotedLink'
  <1> SUFFICES ASSUME Inv, PromotedLink, [Next]_vars PROVE PromotedLink'
    OBVIOUS
  <1> DEFINE SameLinks == /\ \A c \in Candidate : cand'[c].wo = cand[c].wo
                          /\ UNCHANGED <<status, source>>
  <1>1. ASSUME SameLinks PROVE PromotedLink'
    BY <1>1 DEF PromotedLink, Inv, TypeOK
  <1>2. ASSUME NEW r \in Request, Creating(r) PROVE PromotedLink'
    <2>1. CASE \E c \in Candidate : Insert(r, c)
      <3>1. PICK c \in Candidate : Insert(r, c)
        BY <2>1
      <3>2. cand[c].wo = NULL
        BY <3>1 DEF Insert, Inv, BornInv
      <3> QED  BY <1>1, <3>1, <3>2 DEF Insert, Inv, TypeOK
    <2> QED  BY <1>1, <1>2, <2>1 DEF Creating, StartCreate, CheckOpen, CheckPromoted,
                 CheckOrder, CheckOrderFails, CheckRecent, tables
  <1>3. ASSUME NEW r \in Request, Promoting(r) PROVE PromotedLink'
    <2>1. CASE \E w \in WorkOrder : CommitPromote(r, w)
      <3>1. PICK w \in WorkOrder, c \in Candidate, row \in CandRow :
                /\ row.wo = w /\ status[w] = Absent
                /\ cand' = [cand EXCEPT ![c] = row]
                /\ status' = [status EXCEPT ![w] = "open"]
                /\ source' = [source EXCEPT ![w] = c]
        BY <2>1, CommitPromoteStep
      <3>2. \A d \in Candidate : cand'[d] = IF d = c THEN row ELSE cand[d]
        BY <3>1 DEF Inv, TypeOK
      <3>3. \A v \in WorkOrder :
                /\ status'[v] = (IF v = w THEN "open" ELSE status[v])
                /\ source'[v] = (IF v = w THEN c ELSE source[v])
        BY <3>1 DEF Inv, TypeOK
      <3>4. \A d \in Candidate : cand[d].wo # w
        BY <3>1, NullAssumption DEF PromotedLink
      <3>5. w # NULL /\ c # NULL
        BY NullAssumption
      <3>6. /\ \A d \in Candidate : cand[d].wo \in WorkOrder \cup {NULL}
            /\ \A v \in WorkOrder : source[v] \in Candidate \cup {NULL}
        BY DEF Inv, TypeOK, CandRow
      <3> QED  BY <3>1, <3>2, <3>3, <3>4, <3>5, <3>6 DEF PromotedLink
    <2> QED  BY <1>1, <1>3, <2>1 DEF Promoting, BeginPromote, LockCandidate, tables
  <1>4. ASSUME NEW r \in Request, Setting(r) PROVE PromotedLink'
    <2>1. CASE ApplySet(r)
      <3>1. /\ \A d \in Candidate : cand[d] \in CandRow
            /\ cand \in [Candidate -> CandRow]
        BY DEF Inv, TypeOK
      <3>2. \A d \in Candidate : cand'[d].wo = cand[d].wo
        BY <2>1, <3>1 DEF ApplySet, CandRow
      <3> QED  BY <1>1, <2>1, <3>2 DEF ApplySet
    <2> QED  BY <1>1, <1>4, <2>1 DEF Setting, BeginSet, tables
  <1>5. ASSUME NEW r \in Request, Abort(r) PROVE PromotedLink'
    BY <1>1, <1>5 DEF Abort
  <1>6. ASSUME NEW w \in WorkOrder, NEW to \in OrderMoves, MoveOrder(w, to)
        PROVE  PromotedLink'
    <2>1. /\ status[w] # Absent /\ to # Absent
          /\ status' = [status EXCEPT ![w] = to]
          /\ UNCHANGED <<cand, source>>
      BY <1>6, StatusAssumption
         DEF MoveOrder, Order!Move, Order!CanTransition, CanTransition, Status
    <2>2. \A v \in WorkOrder : status'[v] = Absent <=> status[v] = Absent
      BY <2>1 DEF Inv, TypeOK
    <2>3. \A d \in Candidate : cand[d].wo \in WorkOrder \cup {NULL}
      BY DEF Inv, TypeOK, CandRow
    <2> QED  BY <2>1, <2>2, <2>3 DEF PromotedLink
  <1>7. CASE Tick \/ UNCHANGED vars
    BY <1>1, <1>7 DEF Tick, vars, tables
  <1> QED  BY <1>2, <1>3, <1>4, <1>5, <1>6, <1>7 DEF Next

\* A candidate and the order made from it always point at each other, however
\* promotions, status changes, failures and the field team's moves interleave.
THEOREM LinkHolds == Spec => []PromotedLink
  <1>1. Init => PromotedLink
    BY InitInv
  <1> QED  BY <1>1, LinkStep, Invariance, PTL DEF Spec

\* One step links an order only by promoting an open candidate.
LEMMA OpeningStep ==
    Inv /\ [Next]_vars =>
        [\A c \in Candidate : cand'[c].wo /= cand[c].wo =>
             cand[c].status = "open" /\ cand'[c].status = "promoted"]_vars
  <1> DEFINE Opened(c) == cand'[c].wo /= cand[c].wo =>
                 cand[c].status = "open" /\ cand'[c].status = "promoted"
  <1> SUFFICES ASSUME Inv, Next PROVE \A c \in Candidate : Opened(c)
    BY DEF vars
  <1>1. ASSUME NEW r \in Request, NEW c \in Candidate, Insert(r, c)
        PROVE  \A d \in Candidate : Opened(d)
    <2>1. cand[c].wo = NULL
      BY <1>1 DEF Insert, Inv, BornInv
    <2> QED  BY <1>1, <2>1 DEF Insert, Inv, TypeOK
  <1>2. ASSUME NEW r \in Request, NEW w \in WorkOrder, CommitPromote(r, w)
        PROVE  \A d \in Candidate : Opened(d)
    <2>1. PICK c \in Candidate, row \in CandRow :
              /\ cand[c].status = "open" /\ row.status = "promoted"
              /\ cand' = [cand EXCEPT ![c] = row]
      BY <1>2, CommitPromoteStep
    <2> QED  BY <2>1 DEF Inv, TypeOK
  <1>3. ASSUME NEW r \in Request, ApplySet(r)
        PROVE  \A d \in Candidate : Opened(d)
    <2>1. cand \in [Candidate -> CandRow]
      BY DEF Inv, TypeOK
    <2>2. \A d \in Candidate : cand'[d].wo = cand[d].wo
      BY <1>3, <2>1 DEF ApplySet, CandRow
    <2> QED  BY <2>2
  <1>4. UNCHANGED cand => \A d \in Candidate : Opened(d)
    OBVIOUS
  <1> HIDE DEF Opened
  <1>5. ASSUME NEW r \in Request, Creating(r)
        PROVE  \A d \in Candidate : Opened(d)
    BY <1>1, <1>4, <1>5 DEF Creating, StartCreate, CheckOpen, CheckPromoted,
       CheckOrder, CheckOrderFails, CheckRecent, tables
  <1>6. ASSUME NEW r \in Request, Promoting(r)
        PROVE  \A d \in Candidate : Opened(d)
    BY <1>2, <1>4, <1>6 DEF Promoting, BeginPromote, LockCandidate, tables
  <1>7. ASSUME NEW r \in Request, Setting(r)
        PROVE  \A d \in Candidate : Opened(d)
    BY <1>3, <1>4, <1>7 DEF Setting, BeginSet, tables
  <1>8. ASSUME NEW r \in Request, Abort(r)
        PROVE  \A d \in Candidate : Opened(d)
    BY <1>4, <1>8 DEF Abort
  <1>9. ASSUME Tick \/ \E w \in WorkOrder, to \in OrderMoves : MoveOrder(w, to)
        PROVE  \A d \in Candidate : Opened(d)
    BY <1>4, <1>9 DEF Tick, MoveOrder, tables
  <1> QED  BY <1>5, <1>6, <1>7, <1>8, <1>9 DEF Next

\* A second order for a candidate needs a second opening: promoting twice, at
\* once or one after the other, creates one order.
THEOREM OneOrderHolds == Spec => OneOrderPerOpening
  <1> USE DEF OneOrderPerOpening
  <1> QED  BY OpeningStep, Invariance, PTL DEF Spec

-----------------------------------------------------------------------------
(* The duplicate guard.                                                    *)

\* One step keeps the order of look and insertion among open duplicates.
LEMMA RivalStep ==
    Inv /\ OpenDuplicatesWereRivals /\ [Next]_vars => OpenDuplicatesWereRivals'
  <1> SUFFICES ASSUME Inv, OpenDuplicatesWereRivals, [Next]_vars
               PROVE  OpenDuplicatesWereRivals'
    OBVIOUS
  <1> DEFINE Fewer ==
        /\ reopened \subseteq reopened'
        /\ \A c \in Candidate \ reopened' :
               cand'[c].status = "open" =>
                   /\ cand[c].status = "open"
                   /\ cand'[c].key = cand[c].key
                   /\ cand'[c].born = cand[c].born
                   /\ cand'[c].since = cand[c].since
  <1>1. ASSUME Fewer PROVE OpenDuplicatesWereRivals'
    BY <1>1 DEF OpenDuplicatesWereRivals
  <1>2. ASSUME UNCHANGED <<cand, reopened>> PROVE Fewer
    BY <1>2
  <1> HIDE DEF Fewer
  <1>3. ASSUME NEW r \in Request, NEW c \in Candidate, Insert(r, c)
        PROVE  OpenDuplicatesWereRivals'
    <2> DEFINE row == [status |-> "open", key |-> req[r].key, wo |-> NULL,
                       updated |-> now, born |-> born', since |-> req[r].since]
    <2>1. /\ pc[r] = "insert" /\ born \in Nat /\ born' = born + 1
          /\ cand' = [cand EXCEPT ![c] = row]
          /\ UNCHANGED reopened
      BY <1>3 DEF Insert, Inv, TypeOK
    <2>2. /\ row.key = req[r].key /\ row.born = born + 1
          /\ row.since = req[r].since
      BY <2>1
    <2> HIDE DEF row
    <2>3. \A d \in Candidate : cand'[d] = IF d = c THEN row ELSE cand[d]
      BY <2>1 DEF Inv, TypeOK
    <2>4. \A d \in Candidate \ reopened :
              cand[d].status = "open" /\ cand[d].key = row.key
                  => row.since < cand[d].born
      BY <2>1, <2>2 DEF Inv, BornInv
    <2>5. \A d \in Candidate : cand[d].status = "open" =>
              cand[d].born \in Nat /\ cand[d].born <= born
      BY DEF Inv, TypeOK, BornInv, CandRow
    <2> SUFFICES ASSUME NEW d \in Candidate \ reopened', NEW e \in Candidate \ reopened',
                        cand'[d].status = "open", cand'[e].status = "open",
                        cand'[d].key = cand'[e].key,
                        cand'[d].born < cand'[e].born
                 PROVE  cand'[e].since < cand'[d].born
      BY DEF OpenDuplicatesWereRivals
    <2>6. CASE d = c
      BY <2>1, <2>2, <2>3, <2>5, <2>6
    <2>7. CASE d # c /\ e = c
      BY <2>1, <2>3, <2>4, <2>7
    <2>8. CASE d # c /\ e # c
      BY <2>1, <2>3, <2>8 DEF OpenDuplicatesWereRivals
    <2> QED  BY <2>6, <2>7, <2>8
  <1>4. ASSUME NEW r \in Request, NEW w \in WorkOrder, CommitPromote(r, w)
        PROVE  Fewer
    <2>1. PICK c \in Candidate, row \in CandRow :
              /\ row.status = "promoted"
              /\ cand' = [cand EXCEPT ![c] = row]
              /\ UNCHANGED reopened
      BY <1>4, CommitPromoteStep
    <2> QED  BY <2>1 DEF Fewer, Inv, TypeOK
  <1>5. ASSUME NEW r \in Request, ApplySet(r)
        PROVE  Fewer
    <2> DEFINE c == req[r].cand
               row == [cand[c] EXCEPT !.status = req[r].to, !.updated = req[r].at]
    <2>1. /\ cand' = [cand EXCEPT ![c] = row] /\ c \in Candidate
          /\ reopened \subseteq reopened'
          /\ req[r].to = "open" /\ cand[c].status # "open" => c \in reopened'
      BY <1>5 DEF ApplySet, Inv, TypeOK, ReqInv
    <2>2. cand[c] \in CandRow /\ req[r].to \in CandidateStatus /\ req[r].at \in Nat
      BY <1>5, <2>1 DEF ApplySet, Inv, TypeOK, ReqInv, Req
    <2>3. /\ row.status = req[r].to /\ row.key = cand[c].key
          /\ row.born = cand[c].born /\ row.since = cand[c].since
      BY <2>2 DEF CandRow
    <2> HIDE DEF row
    <2> QED  BY <2>1, <2>3 DEF Fewer, Inv, TypeOK
  <1>6. ASSUME NEW r \in Request, Creating(r)
        PROVE  OpenDuplicatesWereRivals'
    BY <1>1, <1>2, <1>3, <1>6 DEF Creating, StartCreate, CheckOpen, CheckPromoted,
       CheckOrder, CheckOrderFails, CheckRecent, tables, history
  <1>7. ASSUME NEW r \in Request, Promoting(r)
        PROVE  OpenDuplicatesWereRivals'
    BY <1>1, <1>2, <1>4, <1>7 DEF Promoting, BeginPromote, LockCandidate, tables, history
  <1>8. ASSUME NEW r \in Request, Setting(r)
        PROVE  OpenDuplicatesWereRivals'
    BY <1>1, <1>2, <1>5, <1>8 DEF Setting, BeginSet, tables, history
  <1>9. ASSUME NEW r \in Request, Abort(r)
        PROVE  OpenDuplicatesWereRivals'
    BY <1>1, <1>2, <1>9 DEF Abort, history
  <1>10. CASE \E w \in WorkOrder, to \in OrderMoves : MoveOrder(w, to)
    BY <1>1, <1>2, <1>10 DEF MoveOrder, history
  <1>11. CASE Tick \/ UNCHANGED vars
    BY <1>1, <1>2, <1>11 DEF Tick, vars, tables, history
  <1> QED  BY <1>6, <1>7, <1>8, <1>9, <1>10, <1>11 DEF Next

\* Two open candidates of one customer and diagnosis are there only because two
\* creations overlapped, or because somebody set one back to open.
THEOREM RivalsOnly == Spec => []OpenDuplicatesWereRivals
  <1>1. Init => OpenDuplicatesWereRivals
    BY InitInv
  <1> QED  BY <1>1, RivalStep, Invariance, PTL DEF Spec
=============================================================================
