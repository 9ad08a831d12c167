-------------------------- MODULE ClientTestsProofs --------------------------
(***************************************************************************)
(* What an answer says about the pings of a test, for every latency, every *)
(* count and every length of the log.                                      *)
(*                                                                         *)
(* An answer is made from the log as it stands at that moment, and the log *)
(* does not change after it: so VerdictInv keeps the way in which a result *)
(* came about, and the rest follows from what each way says of a log.      *)
(* The mean and the deviation of the replies stay uninterpreted: the proof *)
(* needs only that the verdict and the property ask the same of them.      *)
(***************************************************************************)
EXTENDS ClientTests, FiniteSetTheorems, TLAPS

\* How a ping test comes to its answer: it is refused, it has sent every ping
\* and tells of all of them, or it tells of those before it was cut short.
Verdict ==
    \/ /\ ended = NULL
       /\ \E code \in {"test_disabled", "test_unknown", "count_out_of_range"} :
              result = Blocked(code)
    \/ ended = "exited" /\ Len(log) = CountOf(req) /\ result = Exited(log)
    \/ /\ ended \in {"killed", "refused"}
       /\ \E n \in 0 .. Len(log) : result = CutShort(SubSeq(log, 1, n))

\* The inductive invariant: there is no result before the answer, and then the
\* log does not change any more.
VerdictInv ==
    /\ pc \in {"idle", "run", "answer", "done"}
    /\ log \in Seq(Latency \cup {NULL})
    /\ pc /= "idle" => req.count \in Counts
    /\ pc \in {"idle", "run"} => result = NULL /\ ended = NULL
    /\ pc \in {"answer", "done"} =>
           IF req.type \in PingType THEN Verdict ELSE ended = NULL

-----------------------------------------------------------------------------
(* Counting the replies.                                                   *)

\* The replies of a log are counted by a number, which is 0 when there is none.
LEMMA RepliesCounted ==
    ASSUME NEW pings \in Seq(Latency \cup {NULL})
    PROVE  /\ Cardinality(Replies(pings)) \in Nat
           /\ Cardinality(Replies(pings)) = 0 <=> Replies(pings) = {}
<1>1. IsFiniteSet(1 .. Len(pings))
  BY FS_Interval
<1>2. Replies(pings) \subseteq 1 .. Len(pings)
  BY DEF Replies
<1>3. IsFiniteSet(Replies(pings))
  BY <1>1, <1>2, FS_Subset
<1>. QED
  BY <1>3, FS_CardinalityType, FS_EmptySet

\* What Exited says of a log is what VerdictMatchesPings asks.
LEMMA ExitedMatches ==
    ASSUME NEW pings \in Seq(Latency \cup {NULL})
    PROVE  /\ Exited(pings).diagnosis = "unreachable" <=> Replies(pings) = {}
           /\ Exited(pings).diagnosis = "healthy" =>
                  /\ Replies(pings) /= {}
                  /\ 20 * Lost(pings) < Len(pings)
                  /\ ~MeanReaches(pings, 100)
                  /\ ~DeviationReaches(pings, 30)
<1>. DEFINE n == Cardinality(Replies(pings))
            verdict == classifyPing(Lost(pings), Len(pings), pings)
<1>1. n \in Nat /\ (n = 0 <=> Replies(pings) = {})
  BY RepliesCounted
<1>2. Len(pings) \in Nat
  OBVIOUS
<1>3. Lost(pings) = Len(pings) - n
  BY DEF Lost
<1>4. Exited(pings).diagnosis = verdict
  BY DEF Exited
<1>. HIDE DEF n
<1>5. Lost(pings) >= Len(pings) <=> Replies(pings) = {}
  BY <1>1, <1>2, <1>3
<1>6. CASE Lost(pings) >= Len(pings)
  <2>1. verdict = "unreachable"
    BY <1>6, <1>1, <1>2, <1>3 DEF classifyPing
  <2>. QED
    BY <2>1, <1>4, <1>5, <1>6
<1>7. CASE Lost(pings) < Len(pings) /\ 100 * Lost(pings) >= 5 * Len(pings)
  <2>1. verdict = "packet_loss"
    BY <1>7, <1>1, <1>2, <1>3 DEF classifyPing
  <2>2. ~(Lost(pings) >= Len(pings))
    BY <1>7, <1>1, <1>2, <1>3
  <2>. QED
    BY <2>1, <2>2, <1>4, <1>5
<1>8. CASE ~(Lost(pings) >= Len(pings)) /\ ~(100 * Lost(pings) >= 5 * Len(pings))
  <2>1. 20 * Lost(pings) < Len(pings)
    BY <1>8, <1>1, <1>2, <1>3
  <2>2. verdict = IF Replies(pings) = {} THEN "data_insufficient"
                  ELSE IF DeviationReaches(pings, 30) THEN "unstable_jitter"
                  ELSE IF MeanReaches(pings, 100) THEN "high_latency"
                  ELSE "healthy"
    BY <1>8, <1>1, <1>2, <1>3 DEF classifyPing
  <2>. QED
    BY <2>1, <2>2, <1>4, <1>5, <1>8
<1>. QED
  BY <1>6, <1>7, <1>8, <1>1, <1>2, <1>3

\* A test that was cut short tells no loss, and nothing of no reply.
LEMMA CutShortTells ==
    ASSUME NEW pings
    PROVE  /\ CutShort(pings).status = "partial"
           /\ CutShort(pings).diagnosis \notin {"unreachable", "packet_loss"}
           /\ Replies(pings) = {} => CutShort(pings).diagnosis = "data_insufficient"
<1>1. classifyPing(0, 1, pings) \notin {"unreachable", "packet_loss"}
  BY DEF classifyPing
<1>2. Replies(pings) = {} => classifyPing(0, 1, pings) = "data_insufficient"
  BY DEF classifyPing
<1>. QED
  BY <1>1, <1>2 DEF CutShort

\* A log without a reply has no beginning with one.
LEMMA SilentFromTheStart ==
    ASSUME NEW pings \in Seq(Latency \cup {NULL}), NEW n \in 0 .. Len(pings),
           Replies(pings) = {}
    PROVE  Replies(SubSeq(pings, 1, n)) = {}
<1>1. ASSUME NEW i \in Replies(SubSeq(pings, 1, n)) PROVE FALSE
  <2>1. i \in 1 .. n /\ SubSeq(pings, 1, n)[i] /= NULL
    BY <1>1 DEF Replies
  <2>2. i \in DOMAIN pings /\ SubSeq(pings, 1, n)[i] = pings[i]
    BY <2>1
  <2>3. i \in Replies(pings)
    BY <2>1, <2>2 DEF Replies
  <2>. QED
    BY <2>3
<1>. QED
  BY <1>1

-----------------------------------------------------------------------------
(* The invariant.                                                          *)

LEMMA VerdictInit == Init => VerdictInv
BY DEF Init, VerdictInv

\* A request that Validate refuses is refused with its code.
LEMMA RequestAnswers == VerdictInv /\ Request => VerdictInv'
<1>. SUFFICES ASSUME VerdictInv, Request PROVE VerdictInv'
  OBVIOUS
<1>1. pc = "idle" /\ result = NULL /\ ended = NULL /\ UNCHANGED <<log, ended>>
  BY DEF VerdictInv, Request
<1>2. PICK type \in TestType \cup Disabled \cup {"unknown"}, count \in Counts :
          /\ req' = [type |-> type, count |-> count]
          /\ IF Validate(req') = "" THEN pc' = "run" /\ UNCHANGED result
             ELSE pc' = "answer" /\ result' = Blocked(Validate(req'))
  BY Zenon DEF Request
<1>3. req'.count \in Counts
  BY <1>2
<1>4. Validate(req') \in {"test_disabled", "test_unknown", "count_out_of_range", ""}
  BY DEF Validate
<1>5. CASE pc' = "run" /\ UNCHANGED result
  BY <1>1, <1>3, <1>5 DEF VerdictInv
<1>6. CASE Validate(req') /= "" /\ pc' = "answer" /\ result' = Blocked(Validate(req'))
  <2>1. Verdict'
    BY <1>1, <1>4, <1>6 DEF Verdict
  <2>. QED
    BY <1>1, <1>3, <1>6, <2>1 DEF VerdictInv
<1>. QED
  BY <1>2, <1>5, <1>6

LEMMA PingKeeps == VerdictInv /\ Ping => VerdictInv'
<1>. SUFFICES ASSUME VerdictInv, Ping PROVE VerdictInv'
  OBVIOUS
<1>1. pc = "run" /\ UNCHANGED <<pc, req, ended, result>>
  BY DEF Ping, Pinging
<1>2. PICK reply \in Latency \cup {NULL} : log' = Append(log, reply)
  BY DEF Ping
<1>3. log' \in Seq(Latency \cup {NULL})
  BY <1>2 DEF VerdictInv
<1>. QED
  BY <1>1, <1>3 DEF VerdictInv

LEMMA PingExitsAnswers == VerdictInv /\ PingExits => VerdictInv'
<1>. SUFFICES ASSUME VerdictInv, PingExits PROVE VerdictInv'
  OBVIOUS
<1>1. /\ pc = "run" /\ req.type \in PingType
      /\ pc' = "answer" /\ UNCHANGED <<req, log>>
  BY DEF PingExits, Answer, Pinging
<1>2. ended' = "exited" /\ Len(log) = CountOf(req) /\ result' = Exited(log)
  BY DEF PingExits, Answer
<1>3. Verdict'
  BY <1>1, <1>2 DEF Verdict
<1>. QED
  BY <1>1, <1>3 DEF VerdictInv

LEMMA PingIsKilledAnswers == VerdictInv /\ PingIsKilled => VerdictInv'
<1>. SUFFICES ASSUME VerdictInv, PingIsKilled PROVE VerdictInv'
  OBVIOUS
<1>1. /\ pc = "run" /\ req.type \in PingType /\ ended' = "killed"
      /\ pc' = "answer" /\ UNCHANGED <<req, log>>
  BY DEF PingIsKilled, Answer, Pinging
<1>2. PICK n \in 0 .. Len(log) : result' = CutShort(SubSeq(log, 1, n))
  BY DEF PingIsKilled, Answer
<1>3. Verdict'
  BY <1>1, <1>2 DEF Verdict
<1>. QED
  BY <1>1, <1>3 DEF VerdictInv

LEMMA PingIsRefusedAnswers == VerdictInv /\ PingIsRefused => VerdictInv'
<1>. SUFFICES ASSUME VerdictInv, PingIsRefused PROVE VerdictInv'
  OBVIOUS
<1>1. /\ pc = "run" /\ req.type \in PingType /\ ended' = "refused"
      /\ pc' = "answer" /\ UNCHANGED <<req, log>>
  BY DEF PingIsRefused, Answer, Pinging
<1>2. log = <<>> /\ result' = CutShort(<<>>)
  BY DEF PingIsRefused, Answer
<1>3. 0 \in 0 .. Len(log) /\ SubSeq(log, 1, 0) = <<>>
  BY <1>2
<1>4. Verdict'
  BY <1>1, <1>2, <1>3 DEF Verdict
<1>. QED
  BY <1>1, <1>4 DEF VerdictInv

LEMMA HopKeeps == VerdictInv /\ Hop => VerdictInv'
BY DEF VerdictInv, Hop, Tracing

\* The answer to a traceroute is no ping test's.
LEMMA TraceExitsAnswers == VerdictInv /\ TraceExits => VerdictInv'
<1>. SUFFICES ASSUME VerdictInv, TraceExits PROVE VerdictInv'
  OBVIOUS
<1>1. /\ pc = "run" /\ req.type = "traceroute"
      /\ pc' = "answer" /\ UNCHANGED <<req, log, ended>>
  BY DEF TraceExits, Answer, Tracing
<1>. QED
  BY <1>1 DEF VerdictInv, PingType

LEMMA AuditKeeps == VerdictInv /\ Audit => VerdictInv'
<1>. SUFFICES ASSUME VerdictInv, Audit PROVE VerdictInv'
  OBVIOUS
<1>1. pc = "answer" /\ pc' = "done" /\ UNCHANGED <<req, log, ended, result>>
  BY DEF Audit
<1>2. Verdict' <=> Verdict
  BY <1>1 DEF Verdict
<1>. QED
  BY <1>1, <1>2 DEF VerdictInv

LEMMA VerdictStep == VerdictInv /\ [Next]_vars => VerdictInv'
<1>. SUFFICES ASSUME VerdictInv, [Next]_vars PROVE VerdictInv'
  OBVIOUS
<1>1. CASE UNCHANGED vars
  <2>1. Verdict' <=> Verdict
    BY <1>1 DEF Verdict, vars
  <2>. QED
    BY <1>1, <2>1 DEF VerdictInv, vars
<1>. QED
  BY <1>1, RequestAnswers, PingKeeps, PingExitsAnswers, PingIsKilledAnswers, PingIsRefusedAnswers,
     HopKeeps, TraceExitsAnswers, AuditKeeps DEF Next, Proceed

\* There is no result before the answer, and the answer to a ping test comes
\* about in one of three ways.
THEOREM Invariance == Spec => []VerdictInv
<1>1. Init => VerdictInv
  BY VerdictInit
<1>2. VerdictInv /\ [Next]_vars => VerdictInv'
  BY VerdictStep
<1>. QED
  BY <1>1, <1>2, PTL DEF Spec

-----------------------------------------------------------------------------
(* What the answers say.                                                   *)

LEMMA VerdictMatches == VerdictInv => VerdictMatchesPings
<1>. SUFFICES ASSUME VerdictInv, Judged
              PROVE  /\ Len(log) = CountOf(req)
                     /\ result.diagnosis = "unreachable" <=> Replies(log) = {}
                     /\ result.diagnosis = "healthy" =>
                            /\ Replies(log) /= {}
                            /\ 20 * Lost(log) < Len(log)
                            /\ ~MeanReaches(log, 100)
                            /\ ~DeviationReaches(log, 30)
  BY DEF VerdictMatchesPings
<1>1. Verdict
  BY DEF VerdictInv, Judged
<1>2. result.status = "success"
  BY DEF Judged
<1>3. Len(log) = CountOf(req) /\ result = Exited(log)
  BY <1>1, <1>2, CutShortTells DEF Verdict, Blocked
<1>4. log \in Seq(Latency \cup {NULL})
  BY DEF VerdictInv
<1>. QED
  BY <1>3, <1>4, ExitedMatches

\* A ping test that succeeded has sent every ping and says of the log what it
\* shows.
THEOREM VerdictMatchesPingsHolds == Spec => []VerdictMatchesPings
<1>1. VerdictInv => VerdictMatchesPings
  BY VerdictMatches
<1>. QED
  BY <1>1, Invariance, PTL

LEMMA CutShortIsMild == VerdictInv => CutShortAccusesNobody
<1>. SUFFICES ASSUME VerdictInv, result /= NULL, ended = "killed"
              PROVE  /\ result.status = "partial"
                     /\ result.diagnosis \notin {"unreachable", "packet_loss"}
                     /\ Replies(log) = {} => result.diagnosis = "data_insufficient"
  BY DEF CutShortAccusesNobody
<1>1. Verdict
  BY NullIsNoEnd DEF VerdictInv
<1>2. PICK n \in 0 .. Len(log) : result = CutShort(SubSeq(log, 1, n))
  BY <1>1, NullIsNoEnd DEF Verdict
<1>3. log \in Seq(Latency \cup {NULL})
  BY DEF VerdictInv
<1>4. Replies(log) = {} => Replies(SubSeq(log, 1, n)) = {}
  BY <1>3, SilentFromTheStart
<1>. QED
  BY <1>2, <1>4, CutShortTells

\* A ping test that is killed before its summary is partial, names no loss and
\* no unreachable customer, and nothing at all when no ping has come back.
THEOREM CutShortAccusesNobodyHolds == Spec => []CutShortAccusesNobody
<1>1. VerdictInv => CutShortAccusesNobody
  BY CutShortIsMild
<1>. QED
  BY <1>1, Invariance, PTL
===============================================================================
