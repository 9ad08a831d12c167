------------------------------ MODULE ClientTests ------------------------------
(***************************************************************************)
(* Tests of a customer's connection from the server: the route             *)
(* ap-client-test-runs/run-now and internal/apclienttest, from the request *)
(* over the pings, or the hops of a traceroute, to the verdict.            *)
(*                                                                         *)
(* The command ends by itself, or is killed when its time is over or the   *)
(* client has gone: the summary is missing then, and the text may end      *)
(* after any reply.  Nor is there one when ping does not start, or cannot  *)
(* send because the server's network is down.                              *)
(***************************************************************************)
EXTENDS Integers, Sequences, FiniteSetsExt

CONSTANTS
    Counts,   \* how many pings a request asks for, 0 when it does not say
    Latency,  \* round trips in milliseconds
    MaxHops,  \* hops a traceroute tries, 30 in the code
    NULL      \* no value

ASSUME CountsAssumption == Counts \subseteq Nat

ASSUME LatencyAssumption == Latency \subseteq Nat /\ NULL \notin Latency

ASSUME NullIsNoEnd == NULL \notin {"exited", "killed", "refused"}

ASSUME MaxHopsAssumption == MaxHops \in Nat \ {0}

VARIABLES
    pc,      \* where the request stands
    req,     \* its type and count
    log,     \* what became of each ping: its round trip, NULL when it is lost
    ended,   \* history: how ping ended
    hops,    \* hops of which the traceroute has printed a line
    result,  \* the TestResult of the answer
    audit    \* the result that audit_logs tells

vars == <<pc, req, log, ended, hops, result, audit>>

PingType == {"ping_latency", "packet_loss", "jitter"}

TestType == PingType \cup {"traceroute"}

Disabled == {"limited_throughput", "mikrotik_bandwidth_test"}

Init ==
    /\ pc = "idle"
    /\ req = NULL
    /\ log = <<>>
    /\ ended = NULL
    /\ hops = 0
    /\ result = NULL
    /\ audit = NULL

-----------------------------------------------------------------------------
(* What the code makes of the text of the commands.                        *)

\* Validate; the other bounds are treated like that of the count.
Validate(r) ==
    CASE r.type \in Disabled -> "test_disabled"
      [] r.type \notin Disabled \cup TestType -> "test_unknown"
      [] r.type \in TestType /\ r.count \notin 0 .. 20 -> "count_out_of_range"
      [] OTHER -> ""

CountOf(r) == IF r.count = 0 THEN 5 ELSE r.count

\* The pings that were answered.
Replies(pings) == {i \in DOMAIN pings : pings[i] /= NULL}

Lost(pings) == Len(pings) - Cardinality(Replies(pings))

\* The mean of the round trips and their deviation reach so many milliseconds.
MeanReaches(pings, ms) ==
    MapThenSumSet(LAMBDA i : pings[i], Replies(pings))
        >= ms * Cardinality(Replies(pings))

DeviationReaches(pings, ms) ==
    LET n == Cardinality(Replies(pings))
        sum == MapThenSumSet(LAMBDA i : pings[i], Replies(pings))
        squares == MapThenSumSet(LAMBDA i : pings[i] * pings[i], Replies(pings))
    IN  n * squares - sum * sum >= ms * ms * n * n

\* classifyPing: lost of so many pings, and the round trips in the text.
classifyPing(lost, of, pings) ==
    CASE lost >= of -> "unreachable"
      [] lost < of /\ 100 * lost >= 5 * of -> "packet_loss"
      [] OTHER ->
            IF Replies(pings) = {} THEN "data_insufficient"
            ELSE IF DeviationReaches(pings, 30) THEN "unstable_jitter"
            ELSE IF MeanReaches(pings, 100) THEN "high_latency"
            ELSE "healthy"

\* (Mutant) The line with the loss is not found in the summary.
ExitedLossless(pings) ==
    [status |-> "success", diagnosis |-> classifyPing(0, 1, pings),
     lost |-> 0, of |-> 1, error |-> ""]

\* ping has printed its summary; without any reply it exits with an error.
Exited(pings) ==
    [status |-> "success",
     diagnosis |-> classifyPing(Lost(pings), Len(pings), pings),
     lost |-> Lost(pings), of |-> Len(pings), error |-> ""]

\* (Mutant) The error of the command is not looked at.
CutShortIgnored(pings) ==
    [status |-> "success", diagnosis |-> classifyPing(0, 1, pings),
     lost |-> 0, of |-> 1, error |-> ""]

\* Without a summary the loss stays 0, and the replies are those in the text.
CutShort(pings) ==
    [status |-> "partial", diagnosis |-> classifyPing(0, 1, pings),
     lost |-> 0, of |-> 1, error |-> ""]

\* A hop that does not answer has a line too.
Traced(lines, failed) ==
    [status |-> IF failed \/ lines = 0 THEN "partial" ELSE "success",
     diagnosis |-> IF lines = 0 THEN "route_issue" ELSE "healthy",
     lost |-> 0, of |-> 1, error |-> IF failed THEN "trace_partial" ELSE ""]

Blocked(code) ==
    [status |-> "blocked", diagnosis |-> "data_insufficient", lost |-> 0, of |-> 1,
     error |-> code]

-----------------------------------------------------------------------------
(* The handler and the commands.                                           *)

\* handleAPClientRunNow, up to the command.
Request ==
    /\ pc = "idle"
    /\ \E type \in TestType \cup Disabled \cup {"unknown"}, count \in Counts :
           LET r == [type |-> type, count |-> count]
           IN  /\ req' = r
               /\ IF Validate(r) = "" THEN pc' = "run" /\ UNCHANGED result
                  ELSE pc' = "answer" /\ result' = Blocked(Validate(r))
    /\ UNCHANGED <<log, ended, hops, audit>>

Answer(r) == pc' = "answer" /\ result' = r /\ UNCHANGED <<req, audit>>

Pinging == pc = "run" /\ req.type \in PingType

Tracing == pc = "run" /\ req.type = "traceroute"

Ping ==
    /\ Pinging
    /\ Len(log) < CountOf(req)
    /\ \E reply \in Latency \cup {NULL} : log' = Append(log, reply)
    /\ UNCHANGED <<pc, req, ended, hops, result, audit>>

PingExits ==
    /\ Pinging
    /\ Len(log) = CountOf(req)
    /\ ended' = "exited"
    /\ Answer(Exited(log))
    /\ UNCHANGED <<log, hops>>

\* max_duration has passed or the client has gone.
PingIsKilled ==
    /\ Pinging
    /\ ended' = "killed"
    /\ \E n \in 0 .. Len(log) : Answer(CutShort(SubSeq(log, 1, n)))
    /\ UNCHANGED <<log, hops>>

\* ping has not started, or its socket finds no network: it prints an error
\* at most.
PingIsRefused ==
    /\ Pinging
    /\ log = <<>>
    /\ ended' = "refused"
    /\ Answer(CutShort(<<>>))
    /\ UNCHANGED <<log, hops>>

Hop ==
    /\ Tracing
    /\ hops < MaxHops
    /\ hops' = hops + 1
    /\ UNCHANGED <<pc, req, log, ended, result, audit>>

TraceExits ==
    /\ Tracing
    /\ \/ hops > 0 /\ Answer(Traced(hops, FALSE))
       \/ \E n \in 0 .. hops : Answer(Traced(n, TRUE))
    /\ UNCHANGED <<log, ended, hops>>

\* persistAPClientResult gives no run_id, which the table requires, and its
\* error is dropped: the one trace of a test is the audit, which may fail too.
Audit ==
    /\ pc = "answer"
    /\ pc' = "done"
    /\ audit' \in {NULL, result}
    /\ UNCHANGED <<req, log, ended, hops, result>>

Proceed ==
    Ping \/ PingExits \/ PingIsKilled \/ PingIsRefused \/ Hop \/ TraceExits \/ Audit

Next == Request \/ Proceed

Spec == Init /\ [][Next]_vars

-----------------------------------------------------------------------------
(* Properties.                                                             *)

Judged == result /= NULL /\ result.status = "success" /\ req.type \in PingType

\* A test that succeeded speaks of the network as it was: it has sent every
\* ping, it calls the customer unreachable just when no ping came back, and
\* healthy only when fewer than one in twenty was lost and the replies were
\* quick on average and alike.
VerdictMatchesPings ==
    Judged =>
        /\ Len(log) = CountOf(req)
        /\ result.diagnosis = "unreachable" <=> Replies(log) = {}
        /\ result.diagnosis = "healthy" =>
               /\ Replies(log) /= {}
               /\ 20 * Lost(log) < Len(log)
               /\ ~MeanReaches(log, 100)
               /\ ~DeviationReaches(log, 30)

\* A test that is killed before its summary is marked as partial and accuses
\* nobody: it names no loss and no unreachable customer, whatever the pings
\* have shown so far, and nothing at all as long as none has come back.
CutShortAccusesNobody ==
    (result /= NULL /\ ended = "killed") =>
        /\ result.status = "partial"
        /\ result.diagnosis \notin {"unreachable", "packet_loss"}
        /\ Replies(log) = {} => result.diagnosis = "data_insufficient"
=============================================================================
