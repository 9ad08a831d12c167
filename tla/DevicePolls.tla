------------------------------ MODULE DevicePolls ------------------------------
(***************************************************************************)
(* Probes and polls of devices: Service.Probe and Service.Poll of          *)
(* internal/devicectl once they hold a usable credential (the lookups are  *)
(* module Credentials), the read-only adapters, and what                   *)
(* internal/telemetry writes afterwards.                                   *)
(*                                                                         *)
(* A call talks to the device, records one row of device_poll_results,     *)
(* copies it onto the device, stores the snapshot row by row, merges the   *)
(* capabilities and writes an audit entry.  Each write is a statement of   *)
(* its own on the context of the call.  It fails when the client has gone, *)
(* when the timeout of the worker has passed or when the database is away; *)
(* only an error of the snapshot reaches the caller.                       *)
(***************************************************************************)
EXTENDS Integers, FiniteSets

CONSTANTS
    Call,     \* calls of Probe and Poll for one device; each is used once
    Replies,  \* Replies[s]: how section s of the RouterOS API may answer
    Station,  \* clients that an access point may list
    NULL      \* no call, no row

ASSUME CallAssumption == IsFiniteSet(Call)

\* An allowed command answers with rows, with none, or with an error; the end
\* of the context and the timeout of the adapter are errors too.
Reply == {"rows", "empty", "error"}

ASSUME RepliesAssumption ==
    Replies \in [{"system", "interfaces", "radios", "table"} -> SUBSET Reply]

VARIABLES
    vendor,   \* devices.vendor, which the calls never change
    call,     \* the calls: where they stand and what they know
    earlier,  \* history: the calls that had returned when a call began
    results,  \* device_poll_results: the status of the row of each call
    mirror,   \* devices.last_poll_*: the call they were copied from
    stored,   \* snapshot rows in the database with the id of the call's row
    caps,     \* device_capabilities
    audit     \* audit_logs: the outcome written for each call

vars == <<vendor, call, earlier, results, mirror, stored, caps, audit>>

Capability == {"routeros_api", "ssh", "snmp", "health", "wireless",
               "clients", "frequency", "recommend"}

\* Tables in the order PersistMikroTikSnapshot fills them.
Tables == <<"telemetry_snapshots", "interface_metrics", "wireless_interfaces",
            "wireless_clients", "wireless_metrics">>

\* One row for the system, an interface and a radio, and one for each client.
Row == {<<i, 0>> : i \in 1 .. 3} \cup {<<i, s>> : i \in 4 .. 5, s \in Station}

\* What an adapter returns: perr, whether the snapshot lists errors or is
\* partial by nature, the rows to store, and the capabilities it proved.
Outcome == [failed : BOOLEAN, partial : BOOLEAN, rows : SUBSET Row,
            caps : SUBSET Capability]

Status == {"success", "failed", "blocked", "partial"}

ASSUME NullAssumption == NULL \notin Call \cup Status /\ NULL \notin Outcome

Idle == [pc |-> "idle", op |-> NULL, transport |-> NULL, out |-> NULL,
         torn |-> FALSE, unseen |-> FALSE]

Init ==
    /\ vendor \in {"mikrotik", "mimosa"}
    /\ call = [c \in Call |-> Idle]
    /\ earlier = [c \in Call |-> {}]
    /\ results = [c \in Call |-> NULL]
    /\ mirror = NULL
    /\ stored = [c \in Call |-> {}]
    /\ caps = {}
    /\ audit = [c \in Call |-> NULL]

database == <<vendor, results, mirror, stored, caps, audit>>

-----------------------------------------------------------------------------
(* The adapters: every outcome of one conversation with the device.        *)

Failed(some) == [failed |-> TRUE, partial |-> FALSE, rows |-> {}, caps |-> some]

RowsOf(reply, i) == IF reply = "rows" THEN {<<i, 0>>} ELSE {}

If(condition, some) == IF condition THEN some ELSE {}

Recommend(some) ==
    some \cup If({"health", "frequency"} \subseteq some, {"recommend"})

\* The clients of a table that has rows.
Listed == SUBSET Station \ {{}}

\* The first of the packages wireless, wifiwave2 and wifi that answers is
\* asked again for its radios, then for its registration table.  A table that
\* answers proves the capability, also when it is empty.
ApiPolled(system, interfaces, radios, table, clients) ==
    [failed |-> FALSE,
     partial |-> "error" \in {system, interfaces, radios, table},
     rows |-> {<<1, 0>>} \cup RowsOf(interfaces, 2) \cup RowsOf(radios, 3)
                  \cup If(table = "rows", {4, 5} \X clients),
     caps |-> Recommend({"routeros_api"}
                  \cup If(system = "rows", {"health"})
                  \cup If(radios = "rows", {"wireless", "frequency"})
                  \cup If(table /= "error", {"clients"}))]

ApiPoll ==
    {ApiPolled(system, interfaces, radios, table, clients) :
        system \in Replies["system"], interfaces \in Replies["interfaces"],
        radios \in Replies["radios"], table \in Replies["table"],
        clients \in Listed}

\* Errors of the sections of a probe leave no trace, and the table is asked
\* only of a device with radios.
ApiProbed(system, radios, table) ==
    [failed |-> FALSE, partial |-> FALSE, rows |-> {},
     caps |-> Recommend({"routeros_api"}
                  \cup If(system = "rows", {"health"})
                  \cup If(radios = "rows", {"wireless", "frequency"}
                          \cup If(table /= "error", {"clients"})))]

ApiProbe ==
    {ApiProbed(system, radios, table) : system \in Replies["system"],
        radios \in Replies["radios"], table \in Replies["table"]}

Proved(flags) == [failed |-> FALSE, partial |-> FALSE, rows |-> {}, caps |-> flags]

\* ssh asks for the identity only, and its silence is no error.
SshProbe == {Proved({"ssh"}), Proved({"ssh", "health"})}

\* The snapshot of a poll over ssh is a row without a value.
SshPoll == {[out EXCEPT !.rows = {<<1, 0>>}] : out \in SshProbe}

SnmpProbe == {Proved({"snmp", "health"}), Failed({})}

\* A poll has set the flag of the transport when the system does not answer.
SnmpPoll ==
    {[Proved({"snmp", "health"}) EXCEPT !.rows = {<<1, 0>>}], Failed({"snmp"})}

\* One Get for the three objects of the system: an object that is missing or of
\* another type is left empty and is no error.
MimosaSystem == {"rows", "error"}

\* Eleven walks, column by column; a walk that fails is passed over, so that
\* the table may lack columns or rows and never fails.
MimosaInterfaces == {"rows", "empty"}

\* Everything about a Mimosa device is partial; its poll reads the system and
\* the interfaces and goes on when the system does not answer.
MimosaPolled(system, interfaces) ==
    [failed |-> FALSE, partial |-> TRUE,
     rows |-> RowsOf(system, 1) \cup RowsOf(interfaces, 2),
     caps |-> {"snmp"} \cup If(system = "rows", {"health"})]

MimosaPoll ==
    {MimosaPolled(system, interfaces) :
        system \in MimosaSystem, interfaces \in MimosaInterfaces}

MimosaProbe == {[Proved({"snmp", "health"}) EXCEPT !.partial = TRUE], Failed({})}

\* A device that cannot be dialled fails the call, over any transport.
Outcomes(r) ==
    {Failed({})} \cup
    CASE vendor = "mimosa" -> IF r.op = "poll" THEN MimosaPoll ELSE MimosaProbe
      [] r.transport = "api-ssl" -> IF r.op = "poll" THEN ApiPoll ELSE ApiProbe
      [] r.transport = "ssh" -> IF r.op = "poll" THEN SshPoll ELSE SshProbe
      [] OTHER -> IF r.op = "poll" THEN SnmpPoll ELSE SnmpProbe

\* transportFor, and mimosaCfg for a Mimosa device.
Transports ==
    IF vendor = "mimosa" THEN {"snmp"} ELSE {"api-ssl", "ssh", "snmp"}

StatusOf(out) ==
    IF out.failed THEN "failed" ELSE IF out.partial THEN "partial" ELSE "success"

-----------------------------------------------------------------------------
(* Calls.                                                                  *)

Active(c) == call[c].pc \notin {"idle", "done"}

\* handleDeviceProbe and handleDevicePoll, or a goroutine of the worker.
Begin(c) ==
    /\ call[c].pc = "idle"
    /\ \E op \in {"probe", "poll"}, t \in Transports :
           call' = [call EXCEPT ![c].pc = "talk", ![c].op = op, ![c].transport = t]
    /\ earlier' = [earlier EXCEPT ![c] = {e \in Call : call[e].pc = "done"}]
    /\ UNCHANGED database

\* The conversation with the device ends.
Talk(c) ==
    /\ call[c].pc = "talk"
    /\ \E out \in Outcomes(call[c]) :
           call' = [call EXCEPT ![c].pc = "record", ![c].out = out]
    /\ UNCHANGED <<earlier, database>>

\* Neither a deadline nor the context bounds the login of the RouterOS client,
\* nor the handshake, the authentication and the opening of a session over ssh:
\* the timeout of the ssh client is that of the TCP connection only.
DeviceHangs(c) ==
    /\ call[c].pc = "talk"
    /\ call[c].transport \in {"api-ssl", "ssh"}
    /\ call' = [call EXCEPT ![c].pc = "hung"]
    /\ UNCHANGED <<earlier, database>>

\* A probe has no snapshot; its capabilities are merged with or without a row.
AfterProbe(r) == IF r.out.failed THEN "audit" ELSE "capabilities"

\* (Mutant) What a failed poll has seen of the device counts as well.
AfterPollAlways(r, recorded) ==
    IF r.out.failed THEN "capabilities" ELSE IF recorded THEN "persist" ELSE "audit"

\* (Mutant) A poll that leaves no row is repeated.
AfterPollAgain(r, recorded) ==
    IF ~recorded THEN "talk" ELSE IF r.out.failed THEN "audit" ELSE "persist"

\* Only a result with an id gets a snapshot and adds capabilities.
AfterPoll(r, recorded) == IF ~r.out.failed /\ recorded THEN "persist" ELSE "audit"

AfterRecord(r, recorded) ==
    IF r.op = "probe" THEN AfterProbe(r) ELSE AfterPoll(r, recorded)

\* RecordPollResult inserts the row; its error is dropped.
Record(c) ==
    /\ call[c].pc = "record"
    /\ \/ /\ results' = [results EXCEPT ![c] = StatusOf(call[c].out)]
          /\ call' = [call EXCEPT ![c].pc = "mirror"]
       \/ /\ UNCHANGED results
          /\ call' = [call EXCEPT ![c].pc = AfterRecord(call[c], FALSE)]
    /\ UNCHANGED <<vendor, earlier, mirror, stored, caps, audit>>

\* (Mutant) The device shows only polls that did not fail.
MirrorNoFailure(c) ==
    /\ call[c].pc = "mirror"
    /\ \/ /\ mirror' = IF call[c].out.failed THEN mirror ELSE c
          /\ call' = [call EXCEPT ![c].pc = AfterRecord(call[c], TRUE)]
       \/ /\ UNCHANGED mirror
          /\ call' = [call EXCEPT ![c].pc = AfterRecord(call[c], TRUE),
                                  ![c].unseen = TRUE]
    /\ UNCHANGED <<vendor, earlier, results, stored, caps, audit>>

\* The UPDATE of the device looks at no timestamp, and its error is dropped.
Mirror(c) ==
    /\ call[c].pc = "mirror"
    /\ \/ /\ mirror' = c
          /\ call' = [call EXCEPT ![c].pc = AfterRecord(call[c], TRUE)]
       \/ /\ UNCHANGED mirror
          /\ call' = [call EXCEPT ![c].pc = AfterRecord(call[c], TRUE),
                                  ![c].unseen = TRUE]
    /\ UNCHANGED <<vendor, earlier, results, stored, caps, audit>>

Missing(c) == call[c].out.rows \ stored[c]

\* (Mutant) An insert that fails is passed over, as the comment on
\* PersistMimosaSnapshot has it.
InsertBestEffort(c) ==
    /\ call[c].pc = "persist"
    /\ \/ /\ \E row \in Missing(c) :
                 stored' = [stored EXCEPT ![c] = @ \cup {row}]
          /\ UNCHANGED call
       \/ /\ call' = [call EXCEPT ![c].pc = "capabilities"]
          /\ UNCHANGED stored
    /\ UNCHANGED <<vendor, earlier, results, mirror, caps, audit>>

\* One INSERT after the other, table by table; the first error ends it and is
\* appended to the errors the caller sees.
Insert(c) ==
    /\ call[c].pc = "persist"
    /\ \/ /\ \E row \in Missing(c) :
                 /\ \A other \in Missing(c) : row[1] <= other[1]
                 /\ stored' = [stored EXCEPT ![c] = @ \cup {row}]
          /\ UNCHANGED call
       \/ /\ Missing(c) = {}
          /\ call' = [call EXCEPT ![c].pc = "capabilities"]
          /\ UNCHANGED stored
       \/ /\ Missing(c) /= {}
          /\ call' = [call EXCEPT ![c].pc = "capabilities", ![c].torn = TRUE]
          /\ UNCHANGED stored
    /\ UNCHANGED <<vendor, earlier, results, mirror, caps, audit>>

PersistMikroTikSnapshot(c) == vendor = "mikrotik" /\ Insert(c)

\* The comment on it promises to go on after an error; it does not.
PersistMimosaSnapshot(c) == vendor = "mimosa" /\ Insert(c)

\* (Mutant) The flags of this call replace those of the row.
MergeOverwrite(c) ==
    /\ call[c].pc = "capabilities"
    /\ call' = [call EXCEPT ![c].pc = "audit"]
    /\ \/ caps' = call[c].out.caps
       \/ UNCHANGED caps
    /\ UNCHANGED <<vendor, earlier, results, mirror, stored, audit>>

\* ON CONFLICT: what this call proved is added to what earlier calls proved.
Merge(c) ==
    /\ call[c].pc = "capabilities"
    /\ call' = [call EXCEPT ![c].pc = "audit"]
    /\ \/ caps' = caps \cup call[c].out.caps
       \/ UNCHANGED caps
    /\ UNCHANGED <<vendor, earlier, results, mirror, stored, audit>>

CapabilitiesUpsert(c) == vendor = "mikrotik" /\ Merge(c)

CapabilitiesUpsertMimosa(c) == vendor = "mimosa" /\ Merge(c)

Audit(c) ==
    /\ call[c].pc = "audit"
    /\ call' = [call EXCEPT ![c].pc = "done"]
    /\ \/ audit' = [audit EXCEPT ![c] =
             IF call[c].out.failed THEN "failure" ELSE "success"]
       \/ UNCHANGED audit
    /\ UNCHANGED <<vendor, earlier, results, mirror, stored, caps>>

Proceed(c) ==
    \/ Talk(c)
    \/ Record(c)
    \/ Mirror(c)
    \/ PersistMikroTikSnapshot(c)
    \/ PersistMimosaSnapshot(c)
    \/ CapabilitiesUpsert(c)
    \/ CapabilitiesUpsertMimosa(c)
    \/ Audit(c)

Next == \E c \in Call : Begin(c) \/ DeviceHangs(c) \/ Proceed(c)

\* A TCP or TLS connection, every command that was sent, the SNMP requests and
\* every statement end or are given up; a device may keep the rest waiting.
Fairness == \A c \in Call : WF_vars(Proceed(c))

Spec == Init /\ [][Next]_vars /\ Fairness

-----------------------------------------------------------------------------
(* Properties.                                                             *)

\* The rows, the copies and the calls keep their types.
TypeOK ==
    /\ \A c \in Call : call[c].out = NULL \/ call[c].out \in Outcome
    /\ results \in [Call -> Status \cup {NULL}]
    /\ mirror \in Call \cup {NULL}
    /\ stored \in [Call -> SUBSET Row]
    /\ caps \subseteq Capability
    /\ audit \in [Call -> {"success", "failure", NULL}]

\* The state copied onto a device is that of a recorded call, and of none that
\* had returned before another recorded call of the device began, unless the
\* UPDATE of that one failed: only calls that overlap are shown in the wrong
\* order.
MirrorFollowsCalls ==
    /\ mirror /= NULL => results[mirror] /= NULL
    /\ \A c \in Call :
           (/\ call[c].pc = "done"
            /\ results[c] /= NULL
            /\ mirror \in earlier[c] \cup {NULL}) => call[c].unseen

\* A recorded poll that returns without an error, and lists none of its own
\* from storing the snapshot, has stored all of it; a call that failed has
\* stored nothing.  A torn snapshot is known to the caller, not to the row.
SnapshotIsWholeOrTold ==
    \A c \in Call :
        /\ results[c] \notin {"success", "partial"} => stored[c] = {}
        /\ (/\ call[c].pc = "done"
            /\ call[c].op = "poll"
            /\ results[c] \in {"success", "partial"}
            /\ ~call[c].torn) => Missing(c) = {}

\* Every capability of a device was proved by a call that did not fail, and
\* frequencies are recommended only where health and frequency are readable.
CapabilitiesAreProven ==
    /\ \A flag \in caps :
           \E c \in Call : /\ call[c].out /= NULL
                           /\ ~call[c].out.failed
                           /\ flag \in call[c].out.caps
    /\ "recommend" \in caps => {"health", "frequency"} \subseteq caps

\* No call takes a capability away: two calls over different transports that
\* merge their flags at the same time lose none.
CapabilitiesStay == [][caps \subseteq caps']_vars

\* Whatever fails, a call comes back, unless the device keeps a login of the
\* API or the opening of an ssh session waiting; over SNMP it always does.
CallsEnd ==
    \A c \in Call :
        Active(c) ~> \/ ~Active(c)
                     \/ call[c].pc = "hung" /\ call[c].transport /= "snmp"
=============================================================================
