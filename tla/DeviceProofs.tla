----------------------------- MODULE DeviceProofs -----------------------------
(***************************************************************************)
(* The two components that reach a device.  DevicePolls: for any number of *)
(* calls, clients and answers, what the tables say of a device is what its *)
(* calls have found.  HostKeys: whatever the connections and the keys, a   *)
(* host that is trusted on first use has one trusted key unless two first  *)
(* contacts raced.                                                         *)
(***************************************************************************)
EXTENDS DevicePolls, HostKeys, TLAPS

Before == {"idle", "talk", "hung"}

After == {"persist", "capabilities", "audit", "done"}

\* An outcome recommends frequencies only with what the recommendation needs.
Sound(out) ==
    /\ out \in Outcome
    /\ "recommend" \in out.caps => {"health", "frequency"} \subseteq out.caps

IsCall(x) ==
    x \in [pc : Before \cup {"record", "mirror"} \cup After, op : {x.op},
           transport : {x.transport}, out : {x.out}, torn : {x.torn}, unseen : {x.unseen}]

\* What is written for a call at each point of it.
CallInv(c) ==
    /\ call[c].pc \in Before => call[c].out = NULL
    /\ call[c].pc \notin Before => Sound(call[c].out)
    /\ call[c].pc \in Before \cup {"record"} => results[c] = NULL
    /\ call[c].pc \in Before \cup {"record", "mirror"} => stored[c] = {}
    /\ call[c].pc \in {"mirror", "persist"} => results[c] = StatusOf(call[c].out)
    /\ call[c].pc \in {"persist", "capabilities"} => ~call[c].out.failed
    /\ results[c] \notin {"success", "partial"} => stored[c] = {}
    /\ (/\ call[c].pc \in {"capabilities", "audit", "done"}
        /\ call[c].op = "poll"
        /\ results[c] \in {"success", "partial"}
        /\ ~call[c].torn) => Missing(c) = {}

\* A call that has passed the UPDATE of the device shows there, or a later one
\* does.
ShownInv(c) ==
    /\ \A e \in earlier[c] : e \in Call /\ call[e].pc = "done"
    /\ (/\ call[c].pc \in After
        /\ results[c] /= NULL
        /\ mirror \in earlier[c] \cup {NULL}) => call[c].unseen

Types ==
    /\ earlier = [c \in Call |-> earlier[c]]
    /\ results \in [Call -> Status \cup {NULL}]
    /\ mirror \in Call \cup {NULL}
    /\ stored \in [Call -> SUBSET Row]
    /\ caps \subseteq Capability
    /\ audit \in [Call -> {"success", "failure", NULL}]

Inv ==
    /\ call = [c \in Call |-> call[c]]
    /\ Types
    /\ \A c \in Call : IsCall(call[c])
    /\ \A c \in Call : CallInv(c)
    /\ \A c \in Call : ShownInv(c)
    /\ mirror /= NULL => results[mirror] /= NULL
    /\ CapabilitiesAreProven
-----------------------------------------------------------------------------
(* What a conversation brings.                                             *)

LEMMA RecommendIsSound ==
    ASSUME NEW some \in SUBSET {"routeros_api", "ssh", "snmp", "health", "wireless",
                                "clients", "frequency"}
    PROVE  /\ Recommend(some) \subseteq Capability
           /\ "recommend" \in Recommend(some) =>
                  {"health", "frequency"} \subseteq Recommend(some)
  BY DEF Recommend, If, Capability

LEMMA Made ==
    ASSUME NEW failed \in BOOLEAN, NEW partial \in BOOLEAN, NEW rows \in SUBSET Row,
           NEW some \in SUBSET Capability,
           "recommend" \in some => {"health", "frequency"} \subseteq some
    PROVE  Sound([failed |-> failed, partial |-> partial, rows |-> rows, caps |-> some])
  BY DEF Sound, Outcome

LEMMA ApiPollIsSound == ASSUME NEW out \in ApiPoll PROVE Sound(out)
  <1>1. PICK system \in Replies["system"], interfaces \in Replies["interfaces"],
             radios \in Replies["radios"], table \in Replies["table"],
             clients \in Listed :
            out = ApiPolled(system, interfaces, radios, table, clients)
    BY DEF ApiPoll
  <1> DEFINE rows == {<<1, 0>>} \cup RowsOf(interfaces, 2) \cup RowsOf(radios, 3)
                         \cup If(table = "rows", {4, 5} \X clients)
             some == {"routeros_api"} \cup If(system = "rows", {"health"})
                         \cup If(radios = "rows", {"wireless", "frequency"})
                         \cup If(table /= "error", {"clients"})
             partial == "error" \in {system, interfaces, radios, table}
  <1>2. rows \subseteq Row
    BY DEF RowsOf, If, Row, Listed
  <1>3. some \subseteq {"routeros_api", "ssh", "snmp", "health", "wireless", "clients", "frequency"}
    BY DEF If
  <1>4. partial \in BOOLEAN
    OBVIOUS
  <1>5. ApiPolled(system, interfaces, radios, table, clients)
            = [failed |-> FALSE, partial |-> partial, rows |-> rows, caps |-> Recommend(some)]
    BY DEF ApiPolled
  <1> HIDE DEF rows, some, partial
  <1> QED  BY <1>1, <1>2, <1>3, <1>4, <1>5, RecommendIsSound, Made

LEMMA ApiProbeIsSound == ASSUME NEW out \in ApiProbe PROVE Sound(out)
  <1>1. PICK system \in Replies["system"], radios \in Replies["radios"],
             table \in Replies["table"] : out = ApiProbed(system, radios, table)
    BY DEF ApiProbe
  <1> DEFINE some == {"routeros_api"} \cup If(system = "rows", {"health"})
                         \cup If(radios = "rows", {"wireless", "frequency"}
                                 \cup If(table /= "error", {"clients"}))
  <1>2. some \subseteq {"routeros_api", "ssh", "snmp", "health", "wireless", "clients", "frequency"}
    BY DEF If
  <1>3. ApiProbed(system, radios, table)
            = [failed |-> FALSE, partial |-> FALSE, rows |-> {}, caps |-> Recommend(some)]
    BY DEF ApiProbed
  <1> HIDE DEF some
  <1> QED  BY <1>1, <1>2, <1>3, RecommendIsSound, Made

LEMMA ProvedIsSound == ASSUME NEW some \in SUBSET {"ssh", "snmp", "health"} PROVE Sound(Proved(some))
  BY Made DEF Proved, Capability

LEMMA FailedIsSound == ASSUME NEW some \in SUBSET {"snmp"} PROVE Sound(Failed(some))
  BY Made DEF Failed, Capability

\* An outcome to which rows are added, or that is marked as partial.
LEMMA ChangedIsSound ==
    ASSUME NEW out, Sound(out), NEW x,
           x = [out EXCEPT !.rows = {<<1, 0>>}] \/ x = [out EXCEPT !.partial = TRUE]
    PROVE  Sound(x)
  <1>1. CASE x = [out EXCEPT !.rows = {<<1, 0>>}]
    <2>1. {<<1, 0>>} \subseteq Row
      BY DEF Row
    <2> DEFINE rows == {<<1, 0>>}
    <2> HIDE DEF rows
    <2>2. x = [out EXCEPT !.rows = rows] /\ rows \subseteq Row
      BY <1>1, <2>1 DEF rows
    <2>3. x \in Outcome /\ x.caps = out.caps
      BY <2>2 DEF Sound, Outcome
    <2> QED  BY <2>3 DEF Sound
  <1>2. CASE x = [out EXCEPT !.partial = TRUE]
    <2>1. x \in Outcome /\ x.caps = out.caps
      BY <1>2 DEF Sound, Outcome
    <2> QED  BY <2>1 DEF Sound
  <1> QED  BY <1>1, <1>2

LEMMA SshIsSound == ASSUME NEW out \in SshProbe \cup SshPoll PROVE Sound(out)
  <1>1. ASSUME NEW o \in SshProbe PROVE Sound(o)
    BY ProvedIsSound DEF SshProbe
  <1> QED  BY <1>1, ChangedIsSound DEF SshPoll

LEMMA SnmpIsSound == ASSUME NEW out \in SnmpProbe \cup SnmpPoll PROVE Sound(out)
  BY ProvedIsSound, FailedIsSound, ChangedIsSound DEF SnmpProbe, SnmpPoll

LEMMA MimosaPollIsSound == ASSUME NEW out \in MimosaPoll PROVE Sound(out)
  <1>1. PICK system \in MimosaSystem, interfaces \in MimosaInterfaces :
            out = MimosaPolled(system, interfaces)
    BY DEF MimosaPoll
  <1> DEFINE rows == RowsOf(system, 1) \cup RowsOf(interfaces, 2)
             some == {"snmp"} \cup If(system = "rows", {"health"})
  <1>2. rows \subseteq Row
    BY DEF RowsOf, Row
  <1>3. some \subseteq Capability /\ "recommend" \notin some
    BY DEF If, Capability
  <1>4. MimosaPolled(system, interfaces)
            = [failed |-> FALSE, partial |-> TRUE, rows |-> rows, caps |-> some]
    BY DEF MimosaPolled
  <1> HIDE DEF rows, some
  <1> QED  BY <1>1, <1>2, <1>3, <1>4, Made

LEMMA MimosaProbeIsSound == ASSUME NEW out \in MimosaProbe PROVE Sound(out)
  BY ProvedIsSound, FailedIsSound, ChangedIsSound DEF MimosaProbe

LEMMA OutcomesAreSound == ASSUME NEW r, NEW out \in Outcomes(r) PROVE Sound(out)
  <1>1. Sound(Failed({}))
    BY FailedIsSound
  <1> QED  BY <1>1, ApiPollIsSound, ApiProbeIsSound, SshIsSound, SnmpIsSound,
              MimosaPollIsSound, MimosaProbeIsSound
           DEF Outcomes
-----------------------------------------------------------------------------
(* What a step of one call leaves of the others.                           *)

LEMMA OutIsSomething == ASSUME NEW out, Sound(out) PROVE out /= NULL
  BY NullAssumption DEF Sound

LEMMA Frame ==
    ASSUME Inv, NEW c \in Call, NEW x, call' = [call EXCEPT ![c] = x], IsCall(x),
           call[c].pc /= "done", Types',
           \A d \in Call \ {c} :
               results'[d] = results[d] /\ stored'[d] = stored[d] /\ earlier'[d] = earlier[d],
           mirror' \in {mirror, c},
           mirror' /= NULL => results'[mirror'] /= NULL,
           CallInv(c)', ShownInv(c)', CapabilitiesAreProven'
    PROVE  Inv'
  <1>1. /\ call' = [d \in Call |-> call'[d]] /\ call'[c] = x
        /\ \A d \in Call \ {c} : call'[d] = call[d]
    BY DEF Inv
  <1>2. ASSUME NEW d \in Call PROVE IsCall(call'[d])
    BY <1>1 DEF Inv
  <1>3. ASSUME NEW d \in Call PROVE CallInv(d)'
    <2>1. CASE d = c
      BY <2>1
    <2>2. CASE d /= c
      <3>1. call'[d] = call[d] /\ results'[d] = results[d] /\ stored'[d] = stored[d]
        BY <1>1, <2>2
      <3>2. CallInv(d)
        BY DEF Inv
      <3> QED  BY <3>1, <3>2 DEF CallInv, Missing
    <2> QED  BY <2>1, <2>2
  <1>4. ASSUME NEW d \in Call PROVE ShownInv(d)'
    <2>1. CASE d = c
      BY <2>1
    <2>2. CASE d /= c
      <3>1. call'[d] = call[d] /\ results'[d] = results[d] /\ earlier'[d] = earlier[d]
        BY <1>1, <2>2
      <3>2. \A e \in Call : call[e].pc = "done" => call'[e].pc = "done"
        BY <1>1
      <3>3. ShownInv(d)
        BY DEF Inv
      <3>4. c \notin earlier[d] /\ c /= NULL
        BY <3>3, NullAssumption DEF ShownInv
      <3> QED  BY <3>1, <3>2, <3>3, <3>4 DEF ShownInv
    <2> QED  BY <2>1, <2>2
  <1> QED  BY <1>1, <1>2, <1>3, <1>4 DEF Inv

\* What a call has proved stays proved.
LEMMA StillProven ==
    ASSUME Inv, NEW c \in Call, NEW x, call' = [call EXCEPT ![c] = x],
           call[c].out = NULL \/ x.out = call[c].out, caps' = caps
    PROVE  CapabilitiesAreProven'
  <1>1. \A d \in Call : call[d].out /= NULL => call'[d].out = call[d].out
    BY DEF Inv
  <1> QED  BY <1>1 DEF Inv, CapabilitiesAreProven

\* A step of a call that writes nothing about it.
LEMMA Quiet ==
    ASSUME Inv, NEW c \in Call, NEW x, call' = [call EXCEPT ![c] = x], IsCall(x),
           call[c].pc /= "done", UNCHANGED <<earlier, results, mirror, stored, caps>>,
           audit' \in [Call -> {"success", "failure", NULL}],
           call[c].out = NULL \/ x.out = call[c].out,
           CallInv(c)', ShownInv(c)'
    PROVE  Inv'
  <1>1. Types'
    BY DEF Inv, Types
  <1>2. mirror' /= NULL => results'[mirror'] /= NULL
    BY DEF Inv
  <1>3. CapabilitiesAreProven'
    BY StillProven
  <1> QED  BY <1>1, <1>2, <1>3, Frame

LEMMA InitInv == Init => Inv
  <1> SUFFICES ASSUME Init PROVE Inv
    OBVIOUS
  <1>1. ASSUME NEW c \in Call
        PROVE  /\ IsCall(call[c]) /\ call[c].pc = "idle" /\ call[c].out = NULL
               /\ results[c] = NULL /\ stored[c] = {} /\ earlier[c] = {}
    BY DEF Init, Idle, IsCall, Before
  <1>2. ASSUME NEW c \in Call PROVE CallInv(c) /\ ShownInv(c)
    BY <1>1, NullAssumption DEF CallInv, ShownInv, Before, After, Status
  <1>3. Types /\ call = [c \in Call |-> call[c]]
    BY DEF Init, Types
  <1>4. mirror = NULL /\ CapabilitiesAreProven
    BY DEF Init, CapabilitiesAreProven
  <1> QED  BY <1>1, <1>2, <1>3, <1>4 DEF Inv

LEMMA BeginInv == ASSUME Inv, NEW c \in Call, Begin(c) PROVE Inv'
  <1>1. PICK op, t : call' = [call EXCEPT ![c].pc = "talk", ![c].op = op, ![c].transport = t]
    BY DEF Begin
  <1> DEFINE x == [call[c] EXCEPT !.pc = "talk", !.op = op, !.transport = t]
  <1>2. /\ IsCall(call[c]) /\ CallInv(c) /\ ShownInv(c) /\ Types
        /\ call[c].pc = "idle" /\ UNCHANGED <<results, mirror, stored, caps, audit>>
    BY DEF Begin, Inv, database
  <1>3. call' = [call EXCEPT ![c] = x]
    BY <1>1
  <1>4. IsCall(x) /\ x.pc = "talk" /\ x.out = call[c].out
    BY <1>2 DEF IsCall, Before
  <1> HIDE DEF x
  <1>5. call'[c] = x /\ \A d \in Call \ {c} : call'[d] = call[d]
    BY <1>3 DEF Inv
  <1>6. /\ earlier' = [d \in Call |-> earlier'[d]]
        /\ earlier'[c] = {e \in Call : call[e].pc = "done"}
        /\ \A d \in Call \ {c} : earlier'[d] = earlier[d]
    BY <1>2 DEF Begin, Types
  <1>7. CallInv(c)'
    BY <1>2, <1>4, <1>5 DEF CallInv, Before
  <1>8. ShownInv(c)'
    BY <1>2, <1>4, <1>5, <1>6 DEF ShownInv, After
  <1>9. Types'
    BY <1>2, <1>6 DEF Types
  <1>10. CapabilitiesAreProven'
    BY <1>2, <1>3, <1>4, StillProven
  <1> QED  BY <1>2, <1>3, <1>4, <1>6, <1>7, <1>8, <1>9, <1>10, Frame DEF Inv

LEMMA TalkInv == ASSUME Inv, NEW c \in Call, Talk(c) \/ DeviceHangs(c) PROVE Inv'
  <1>1. /\ IsCall(call[c]) /\ CallInv(c) /\ ShownInv(c) /\ Types
        /\ call[c].pc = "talk" /\ UNCHANGED <<earlier, results, mirror, stored, caps, audit>>
    BY DEF Talk, DeviceHangs, Inv, database
  <1>2. call[c].out = NULL /\ results[c] = NULL /\ stored[c] = {}
    BY <1>1 DEF CallInv, Before
  <1>3. CASE Talk(c)
    <2>1. PICK out \in Outcomes(call[c]) : call' = [call EXCEPT ![c].pc = "record", ![c].out = out]
      BY <1>3 DEF Talk
    <2>2. Sound(out)
      BY OutcomesAreSound
    <2> DEFINE x == [call[c] EXCEPT !.pc = "record", !.out = out]
    <2>3. call' = [call EXCEPT ![c] = x]
      BY <2>1
    <2>4. IsCall(x) /\ x.pc = "record" /\ x.out = out
      BY <1>1 DEF IsCall, Before
    <2> HIDE DEF x
    <2>5. call'[c] = x
      BY <2>3 DEF Inv
    <2>6. CallInv(c)' /\ ShownInv(c)'
      <3>1. CallInv(c)'
        BY <1>1, <1>2, <2>2, <2>4, <2>5 DEF CallInv, Before
      <3>2. \A e \in earlier[c] : e \in Call /\ call'[e].pc = "done"
        BY <1>1, <2>3 DEF Inv, ShownInv
      <3> QED  BY <1>1, <2>4, <2>5, <3>1, <3>2 DEF ShownInv, After
    <2> QED  BY <1>1, <1>2, <2>3, <2>4, <2>6, Quiet DEF Types
  <1>4. CASE DeviceHangs(c)
    <2> DEFINE x == [call[c] EXCEPT !.pc = "hung"]
    <2>1. call' = [call EXCEPT ![c] = x]
      BY <1>4 DEF DeviceHangs
    <2>2. IsCall(x) /\ x.pc = "hung" /\ x.out = call[c].out
      BY <1>1 DEF IsCall, Before
    <2> HIDE DEF x
    <2>3. call'[c] = x
      BY <2>1 DEF Inv
    <2>4. CallInv(c)' /\ ShownInv(c)'
      <3>1. CallInv(c)'
        BY <1>1, <1>2, <2>2, <2>3 DEF CallInv, Before
      <3>2. \A e \in earlier[c] : e \in Call /\ call'[e].pc = "done"
        BY <1>1, <2>1 DEF Inv, ShownInv
      <3> QED  BY <1>1, <2>2, <2>3, <3>1, <3>2 DEF ShownInv, After
    <2> QED  BY <1>1, <2>1, <2>2, <2>4, Quiet DEF Types
  <1> QED  BY <1>3, <1>4

\* Where a call goes once its row is written, or is not.
LEMMA AfterRecordIs ==
    ASSUME NEW r, NEW recorded \in BOOLEAN
    PROVE  /\ AfterRecord(r, recorded) \in {"persist", "capabilities", "audit"}
           /\ AfterRecord(r, recorded) = "persist" => recorded /\ ~r.out.failed
           /\ AfterRecord(r, recorded) = "capabilities" => ~r.out.failed /\ r.op = "probe"
           /\ AfterRecord(r, recorded) = "audit" =>
                  r.op = "probe" \/ r.out.failed \/ ~recorded
  BY DEF AfterRecord, AfterProbe, AfterPoll

LEMMA StatusIs ==
    ASSUME NEW out
    PROVE  /\ StatusOf(out) \in Status /\ StatusOf(out) /= NULL
           /\ out.failed <=> StatusOf(out) \notin {"success", "partial"}
  BY NullAssumption DEF StatusOf, Status

\* The calls that had returned when this one began stay as they are.
LEMMA EarlierStay ==
    ASSUME Inv, NEW c \in Call, NEW x, call' = [call EXCEPT ![c] = x], call[c].pc /= "done"
    PROVE  \A e \in earlier[c] : e \in Call \ {c} /\ e /= NULL /\ call'[e].pc = "done"
  <1>1. \A e \in earlier[c] : e \in Call /\ call[e].pc = "done"
    BY DEF Inv, ShownInv
  <1> QED  BY <1>1, NullAssumption DEF Inv

LEMMA RecordInv == ASSUME Inv, NEW c \in Call, Record(c) PROVE Inv'
  <1>1. /\ IsCall(call[c]) /\ CallInv(c) /\ ShownInv(c) /\ Types
        /\ call[c].pc = "record" /\ UNCHANGED <<earlier, mirror, stored, caps, audit>>
    BY DEF Record, Inv
  <1>2. Sound(call[c].out) /\ results[c] = NULL /\ stored[c] = {}
    BY <1>1 DEF CallInv, Before
  <1>3. CASE /\ results' = [results EXCEPT ![c] = StatusOf(call[c].out)]
             /\ call' = [call EXCEPT ![c].pc = "mirror"]
    <2> DEFINE x == [call[c] EXCEPT !.pc = "mirror"]
    <2>1. call' = [call EXCEPT ![c] = x]
      BY <1>3
    <2>2. IsCall(x) /\ x.pc = "mirror" /\ x.out = call[c].out
      BY <1>1 DEF IsCall
    <2> HIDE DEF x
    <2>3. call'[c] = x
      BY <2>1 DEF Inv
    <2>4. /\ results' \in [Call -> Status \cup {NULL}]
          /\ results'[c] = StatusOf(call[c].out)
          /\ \A d \in Call \ {c} : results'[d] = results[d]
      BY <1>1, <1>3, StatusIs DEF Types
    <2>5. CallInv(c)'
      BY <1>1, <1>2, <2>2, <2>3, <2>4 DEF CallInv, Before
    <2>6. ShownInv(c)'
      BY <1>1, <2>1, <2>2, <2>3, EarlierStay DEF ShownInv, After
    <2>7. Types'
      BY <1>1, <2>4 DEF Types
    <2>8. CapabilitiesAreProven'
      BY <1>1, <2>1, <2>2, StillProven
    <2>9. mirror' /= NULL => results'[mirror'] /= NULL
      <3>1. mirror \in Call \cup {NULL} /\ (mirror /= NULL => results[mirror] /= NULL)
        BY <1>1 DEF Inv, Types
      <3> QED  BY <1>1, <1>2, <2>4, <3>1, StatusIs
    <2> QED  BY <1>1, <2>1, <2>2, <2>4, <2>5, <2>6, <2>7, <2>8, <2>9, Frame
  <1>4. CASE /\ UNCHANGED results
             /\ call' = [call EXCEPT ![c].pc = AfterRecord(call[c], FALSE)]
    <2> DEFINE to == AfterRecord(call[c], FALSE)
               x == [call[c] EXCEPT !.pc = to]
    <2>1. call' = [call EXCEPT ![c] = x]
      BY <1>4
    <2>2. /\ to \in {"capabilities", "audit"}
          /\ to = "capabilities" => ~call[c].out.failed /\ call[c].op = "probe"
      BY AfterRecordIs
    <2> HIDE DEF to
    <2>3. IsCall(x) /\ x.pc = to /\ x.out = call[c].out /\ x.op = call[c].op
      BY <1>1, <2>2 DEF IsCall, After
    <2> HIDE DEF x
    <2>4. call'[c] = x
      BY <2>1 DEF Inv
    <2>5. CallInv(c)'
      <3>1. results'[c] \notin {"success", "partial"}
        BY <1>2, <1>4, NullAssumption DEF Status
      <3> QED  BY <1>1, <1>2, <1>4, <2>2, <2>3, <2>4, <3>1 DEF CallInv, Before
    <2>6. ShownInv(c)'
      BY <1>1, <1>2, <1>4, <2>1, EarlierStay DEF ShownInv
    <2> QED  BY <1>1, <1>4, <2>1, <2>3, <2>5, <2>6, Quiet DEF Types
  <1> QED  BY <1>3, <1>4 DEF Record

LEMMA MirrorInv == ASSUME Inv, NEW c \in Call, Mirror(c) PROVE Inv'
  <1> DEFINE to == AfterRecord(call[c], TRUE)
  <1>1. /\ IsCall(call[c]) /\ CallInv(c) /\ ShownInv(c) /\ Types
        /\ call[c].pc = "mirror" /\ UNCHANGED <<earlier, results, stored, caps, audit>>
    BY DEF Mirror, Inv
  <1>2. /\ Sound(call[c].out) /\ results[c] = StatusOf(call[c].out) /\ stored[c] = {}
        /\ results[c] /= NULL
        /\ call[c].out.failed <=> results[c] \notin {"success", "partial"}
    BY <1>1, StatusIs DEF CallInv, Before
  <1>3. /\ to \in {"persist", "capabilities", "audit"}
        /\ to \in {"persist", "capabilities"} => ~call[c].out.failed
        /\ to = "capabilities" => call[c].op = "probe"
        /\ to = "audit" => call[c].op = "probe" \/ call[c].out.failed
    BY AfterRecordIs
  <1> HIDE DEF to
  <1>4. CASE mirror' = c /\ call' = [call EXCEPT ![c].pc = to]
    <2> DEFINE x == [call[c] EXCEPT !.pc = to]
    <2>1. call' = [call EXCEPT ![c] = x]
      BY <1>4
    <2>2. IsCall(x) /\ x.pc = to /\ x.out = call[c].out /\ x.op = call[c].op
      BY <1>1, <1>3 DEF IsCall, After
    <2> HIDE DEF x
    <2>3. call'[c] = x
      BY <2>1 DEF Inv
    <2>4. CallInv(c)'
      BY <1>1, <1>2, <1>3, <2>2, <2>3 DEF CallInv, Before
    <2>5. ShownInv(c)'
      <3>1. c \notin earlier[c] /\ c /= NULL
        BY <1>1, <2>1, EarlierStay, NullAssumption
      <3> QED  BY <1>1, <1>4, <2>1, <3>1, EarlierStay DEF ShownInv
    <2>6. Types'
      BY <1>1, <1>4 DEF Types
    <2>7. CapabilitiesAreProven'
      BY <1>1, <2>1, <2>2, StillProven
    <2> QED  BY <1>1, <1>2, <1>4, <2>1, <2>2, <2>4, <2>5, <2>6, <2>7, Frame
  <1>5. CASE mirror' = mirror /\ call' = [call EXCEPT ![c].pc = to, ![c].unseen = TRUE]
    <2> DEFINE x == [call[c] EXCEPT !.pc = to, !.unseen = TRUE]
    <2>1. call' = [call EXCEPT ![c] = x]
      BY <1>5
    <2>2. IsCall(x) /\ x.pc = to /\ x.out = call[c].out /\ x.op = call[c].op /\ x.unseen = TRUE
      BY <1>1, <1>3 DEF IsCall, After
    <2> HIDE DEF x
    <2>3. call'[c] = x
      BY <2>1 DEF Inv
    <2>4. CallInv(c)'
      BY <1>1, <1>2, <1>3, <2>2, <2>3 DEF CallInv, Before
    <2>5. ShownInv(c)'
      BY <1>1, <2>1, <2>2, <2>3, EarlierStay DEF ShownInv
    <2> QED  BY <1>1, <1>5, <2>1, <2>2, <2>4, <2>5, Quiet DEF Types
  <1> QED  BY <1>4, <1>5 DEF Mirror, to

LEMMA InsertInv == ASSUME Inv, NEW c \in Call, Insert(c) PROVE Inv'
  <1>1. /\ IsCall(call[c]) /\ CallInv(c) /\ ShownInv(c) /\ Types
        /\ call[c].pc = "persist" /\ UNCHANGED <<earlier, results, mirror, caps, audit>>
    BY DEF Insert, Inv
  <1>2. /\ Sound(call[c].out) /\ results[c] = StatusOf(call[c].out)
        /\ results[c] \in {"success", "partial"}
    BY <1>1, StatusIs DEF CallInv, Before
  <1>3. ASSUME NEW row \in Missing(c), UNCHANGED call, stored' = [stored EXCEPT ![c] = @ \cup {row}]
        PROVE  Inv'
    <2>1. call' = [call EXCEPT ![c] = call[c]]
      BY <1>3 DEF Inv
    <2>2. row \in Row
      BY <1>2 DEF Missing, Sound, Outcome
    <2>3. /\ stored' \in [Call -> SUBSET Row]
          /\ \A d \in Call \ {c} : stored'[d] = stored[d]
      BY <1>1, <1>3, <2>2 DEF Types
    <2>4. CallInv(c)'
      BY <1>1, <1>2, <1>3 DEF CallInv, Before
    <2>5. ShownInv(c)'
      BY <1>1, <1>3 DEF ShownInv
    <2>6. Types'
      BY <1>1, <2>3 DEF Types
    <2>7. CapabilitiesAreProven'
      BY <1>1, <2>1, StillProven
    <2>8. mirror' /= NULL => results'[mirror'] /= NULL
      BY <1>1 DEF Inv
    <2> QED  BY <1>1, <2>1, <2>3, <2>4, <2>5, <2>6, <2>7, <2>8, Frame
  <1>4. CASE /\ Missing(c) = {} /\ UNCHANGED stored
             /\ call' = [call EXCEPT ![c].pc = "capabilities"]
    <2> DEFINE x == [call[c] EXCEPT !.pc = "capabilities"]
    <2>1. call' = [call EXCEPT ![c] = x]
      BY <1>4
    <2>2. IsCall(x) /\ x.pc = "capabilities" /\ x.out = call[c].out /\ x.unseen = call[c].unseen
      BY <1>1 DEF IsCall, After
    <2> HIDE DEF x
    <2>3. call'[c] = x
      BY <2>1 DEF Inv
    <2>4. CallInv(c)'
      BY <1>1, <1>2, <1>4, <2>2, <2>3 DEF CallInv, Missing, Before
    <2>5. ShownInv(c)'
      BY <1>1, <2>1, <2>2, <2>3, EarlierStay DEF ShownInv, After
    <2> QED  BY <1>1, <1>4, <2>1, <2>2, <2>4, <2>5, Quiet DEF Types
  <1>5. CASE /\ UNCHANGED stored
             /\ call' = [call EXCEPT ![c].pc = "capabilities", ![c].torn = TRUE]
    <2> DEFINE x == [call[c] EXCEPT !.pc = "capabilities", !.torn = TRUE]
    <2>1. call' = [call EXCEPT ![c] = x]
      BY <1>5
    <2>2. /\ IsCall(x) /\ x.pc = "capabilities" /\ x.out = call[c].out /\ x.torn = TRUE
          /\ x.unseen = call[c].unseen
      BY <1>1 DEF IsCall, After
    <2> HIDE DEF x
    <2>3. call'[c] = x
      BY <2>1 DEF Inv
    <2>4. CallInv(c)'
      BY <1>1, <1>2, <1>5, <2>2, <2>3 DEF CallInv, Before
    <2>5. ShownInv(c)'
      BY <1>1, <2>1, <2>2, <2>3, EarlierStay DEF ShownInv, After
    <2> QED  BY <1>1, <1>5, <2>1, <2>2, <2>4, <2>5, Quiet DEF Types
  <1> QED  BY <1>3, <1>4, <1>5 DEF Insert

LEMMA MergeInv == ASSUME Inv, NEW c \in Call, Merge(c) PROVE Inv'
  <1>1. /\ IsCall(call[c]) /\ CallInv(c) /\ ShownInv(c) /\ Types
        /\ call[c].pc = "capabilities" /\ UNCHANGED <<earlier, results, mirror, stored, audit>>
    BY DEF Merge, Inv
  <1>2. Sound(call[c].out) /\ ~call[c].out.failed /\ call[c].out /= NULL
    BY <1>1, OutIsSomething DEF CallInv, Before
  <1> DEFINE x == [call[c] EXCEPT !.pc = "audit"]
  <1>3. call' = [call EXCEPT ![c] = x]
    BY DEF Merge
  <1>4. /\ IsCall(x) /\ x.pc = "audit" /\ x.out = call[c].out /\ x.torn = call[c].torn
        /\ x.op = call[c].op /\ x.unseen = call[c].unseen
    BY <1>1 DEF IsCall, After
  <1> HIDE DEF x
  <1>5. call'[c] = x /\ \A d \in Call : call'[d].out = call[d].out
    BY <1>3, <1>4 DEF Inv
  <1>6. CallInv(c)'
    BY <1>1, <1>2, <1>4, <1>5 DEF CallInv, Missing, Before
  <1>7. ShownInv(c)'
    BY <1>1, <1>3, <1>4, <1>5, EarlierStay DEF ShownInv, After
  <1>8. caps' = caps \/ caps' = caps \cup call[c].out.caps
    BY DEF Merge
  <1>9. Types'
    <2>1. call[c].out.caps \subseteq Capability
      BY <1>2 DEF Sound, Outcome
    <2> QED  BY <1>1, <1>8, <2>1 DEF Types
  <1>10. CapabilitiesAreProven'
    <2>1. CASE caps' = caps
      BY <1>3, <1>4, <2>1, StillProven
    <2>2. CASE caps' = caps \cup call[c].out.caps
      <3>1. ASSUME NEW flag \in caps'
            PROVE  \E d \in Call : /\ call'[d].out /= NULL
                                   /\ ~call'[d].out.failed
                                   /\ flag \in call'[d].out.caps
        <4>1. CASE flag \in caps
          BY <4>1, <1>5 DEF Inv, CapabilitiesAreProven
        <4>2. CASE flag \in call[c].out.caps
          BY <4>2, <1>2, <1>5
        <4> QED  BY <2>2, <4>1, <4>2
      <3>2. "recommend" \in caps' => {"health", "frequency"} \subseteq caps'
        BY <2>2, <1>2 DEF Inv, CapabilitiesAreProven, Sound
      <3> QED  BY <3>1, <3>2 DEF CapabilitiesAreProven
    <2> QED  BY <1>8, <2>1, <2>2
  <1>11. mirror' /= NULL => results'[mirror'] /= NULL
    BY <1>1 DEF Inv
  <1> QED  BY <1>1, <1>3, <1>4, <1>6, <1>7, <1>9, <1>10, <1>11, Frame

LEMMA AuditInv == ASSUME Inv, NEW c \in Call, Audit(c) PROVE Inv'
  <1>1. /\ IsCall(call[c]) /\ CallInv(c) /\ ShownInv(c) /\ Types
        /\ call[c].pc = "audit" /\ UNCHANGED <<earlier, results, mirror, stored, caps>>
    BY DEF Audit, Inv
  <1> DEFINE x == [call[c] EXCEPT !.pc = "done"]
  <1>2. call' = [call EXCEPT ![c] = x]
    BY DEF Audit
  <1>3. /\ IsCall(x) /\ x.pc = "done" /\ x.out = call[c].out /\ x.torn = call[c].torn
        /\ x.op = call[c].op /\ x.unseen = call[c].unseen
    BY <1>1 DEF IsCall, After
  <1> HIDE DEF x
  <1>4. call'[c] = x
    BY <1>2 DEF Inv
  <1>5. CallInv(c)'
    BY <1>1, <1>3, <1>4 DEF CallInv, Missing, Before
  <1>6. ShownInv(c)'
    BY <1>1, <1>2, <1>3, <1>4, EarlierStay DEF ShownInv, After
  <1>7. audit' \in [Call -> {"success", "failure", NULL}]
    BY <1>1 DEF Audit, Types
  <1> QED  BY <1>1, <1>2, <1>3, <1>5, <1>6, <1>7, Quiet

LEMMA StutterInv == ASSUME Inv, UNCHANGED vars PROVE Inv'
  <1>1. ASSUME NEW c \in Call PROVE IsCall(call'[c]) /\ CallInv(c)' /\ ShownInv(c)'
    <2>1. IsCall(call[c]) /\ CallInv(c) /\ ShownInv(c)
      BY DEF Inv
    <2> QED  BY <2>1 DEF vars, CallInv, Missing, ShownInv
  <1> QED  BY <1>1 DEF vars, Inv, Types, CapabilitiesAreProven

LEMMA NextInv == Inv /\ [Next]_vars => Inv'
  BY BeginInv, TalkInv, RecordInv, MirrorInv, InsertInv, MergeInv, AuditInv, StutterInv
     DEF Next, Proceed, PersistMikroTikSnapshot, PersistMimosaSnapshot, CapabilitiesUpsert,
         CapabilitiesUpsertMimosa
-----------------------------------------------------------------------------
(* Theorems.                                                               *)

\* The invariant holds for any number of calls, clients and answers.
THEOREM Invariance == Spec => []Inv
  BY InitInv, NextInv, PTL DEF Spec

\* The rows, the copies and the calls keep their types.
THEOREM TypeCorrect == Spec => []TypeOK
  <1>1. Inv => TypeOK
    BY DEF Inv, Types, CallInv, Sound, IsCall, Before, TypeOK
  <1> QED  BY <1>1, Invariance, PTL

\* The columns last_poll_* show a recorded call, and only calls that overlap
\* appear in the wrong order, although the UPDATE looks at no timestamp.
THEOREM MirrorHolds == Spec => []MirrorFollowsCalls
  <1>1. Inv => MirrorFollowsCalls
    BY DEF Inv, ShownInv, After, MirrorFollowsCalls
  <1> QED  BY <1>1, Invariance, PTL

\* A snapshot without an error from storing it is whole, and a failed call
\* stores none, wherever the database or the context gives up.
THEOREM SnapshotHolds == Spec => []SnapshotIsWholeOrTold
  <1>1. Inv => SnapshotIsWholeOrTold
    BY DEF Inv, CallInv, SnapshotIsWholeOrTold
  <1> QED  BY <1>1, Invariance, PTL

\* Every flag of device_capabilities was proved by a call that did not fail.
THEOREM CapabilitiesProven == Spec => []CapabilitiesAreProven
  <1>1. Inv => CapabilitiesAreProven
    BY DEF Inv
  <1> QED  BY <1>1, Invariance, PTL

\* The upserts of device_capabilities take no flag away.
THEOREM CapabilitiesKept == Spec => CapabilitiesStay
  <1>1. [Next]_vars => [caps \subseteq caps']_vars
    BY DEF Next, Begin, DeviceHangs, Proceed, Talk, Record, Mirror, Insert, Merge, Audit,
           PersistMikroTikSnapshot, PersistMimosaSnapshot, CapabilitiesUpsert,
           CapabilitiesUpsertMimosa, database, vars
  <1> QED  BY <1>1, PTL DEF Spec, CapabilitiesStay

-----------------------------------------------------------------------------
(* The inductive invariant of the host keys.                               *)

\* Nobody has met a connection before it is dialled, and all that are under
\* way at once have met.
MetInv ==
    /\ \A c \in Conn : conn[c].pc = "idle" =>
           /\ ~conn[c].first /\ met[c] = {}
           /\ \A d \in Conn : c \notin met[d]
    /\ \A c, d \in UnderWay : c /= d => c \in met[d]

\* The key of the table is that of a first contact; who is about to make
\* another one has met everybody who has made one.
PinInv ==
    /\ known /= None => \E c \in Conn : conn[c].first /\ conn[c].seen = known
    /\ \A c \in Conn : conn[c].first => known /= None /\ conn[c].pc \in {"login", "open", "refused"}
    /\ \A c, d \in Conn : conn[c].first /\ conn[d].pc = "put" => c \in met[d]
    /\ \A c \in Conn : conn[c].pc \in {"get", "put"} =>
           conn[c].policy = "trust_on_first_use" /\ conn[c].process = "api" /\ conn[c].seen \in Key

\* As long as no first contacts have raced, everything is about one key.
KeyInv ==
    Raced \/ \A c \in Conn : (conn[c].first \/ c \in Trusted) => known /= None /\ conn[c].seen = known

KeysInv == KeysTypeOK /\ MetInv /\ PinInv /\ KeyInv
Step == {"idle", "dial", "get", "put", "login", "open", "refused"}

Moved(c, step, key) == conn' = [conn EXCEPT ![c].pc = step, ![c].seen = key]

PutFails(c) == Put(c) /\ Goto(c, "refused") /\ UNCHANGED known

Asks(c) == conn[c].policy = "trust_on_first_use" /\ conn[c].process = "api"

-----------------------------------------------------------------------------
(* What a step of a connection does.                                       *)

\* The host replaced: nothing of what the invariant speaks about changes.
LEMMA ReplaceInv == KeysInv /\ (ReplaceHost \/ UNCHANGED keysVars) => KeysInv'
  BY DEF KeysInv, KeysTypeOK, MetInv, PinInv, KeyInv, ReplaceHost, keysVars, UnderWay, Trusted, Raced

\* Nobody knows the host at first.
LEMMA KeysInitInv == KeysInit => KeysInv
  BY DEF KeysInit, KeysInv, NotDialled, KeysTypeOK, MetInv, PinInv, KeyInv, UnderWay, Trusted, Raced

\* A step of a connection that leaves the table alone: it comes to a step with
\* a key, and to be about to pin, or to be let in, it has asked the table.
Keeps(c, step, key) ==
    /\ Moved(c, step, key)
    /\ UNCHANGED <<presented, known, met>>
    /\ conn[c].pc \in {"dial", "get", "put", "login"}
    /\ conn[c].pc /= "dial" => key = conn[c].seen
    /\ conn[c].pc = "login" => step \in {"open", "refused"}
    /\ step = "put" => conn[c].pc = "get" /\ known = None
    /\ step = "get" => conn[c].pc = "dial" /\ Asks(c) /\ key \in Key
    /\ step \in {"login", "open"} /\ Asks(c) =>
           conn[c].pc = "login" \/ (known = key /\ known /= None)

LEMMA MoveStep ==
    ASSUME KeysInv, NEW c \in Conn, Handshake(c) \/ Get(c) \/ Login(c) \/ PutFails(c)
    PROVE  \E step \in Step \ {"idle", "dial"}, key \in Key \cup {None} : Keeps(c, step, key)
  <1> USE DEF Step
  <1>0. conn[c].seen \in Key \cup {None}
    BY DEF KeysInv, KeysTypeOK
  <1>1. ASSUME NEW step \in Step, Goto(c, step) PROVE Moved(c, step, conn[c].seen)
    BY <1>1 DEF Goto, Moved, KeysInv, KeysTypeOK
  <1>2. CASE Handshake(c) /\ Goto(c, "refused")
    <2>1. Keeps(c, "refused", conn[c].seen)
      BY <1>1, <1>2 DEF Handshake, Keeps
    <2> QED  BY <1>0, <2>1
  <1>3. CASE Handshake(c) /\ ~Goto(c, "refused")
    <2>1. /\ AfterHandshake(c) \in {"get", "login", "refused"}
          /\ AfterHandshake(c) = "get" <=> Asks(c)
      BY DEF AfterHandshake, Asks
    <2>2. Moved(c, AfterHandshake(c), presented) /\ presented \in Key
      BY <1>3 DEF Handshake, Moved, KeysInv, KeysTypeOK
    <2>3. Keeps(c, AfterHandshake(c), presented)
      BY <1>3, <2>1, <2>2 DEF Handshake, Keeps
    <2> QED  BY <2>1, <2>2, <2>3
  <1>4. CASE Get(c)
    <2>1. PICK step \in {"put", "login", "refused"} :
              /\ Goto(c, step)
              /\ step = "put" => known = None
              /\ step = "login" => known = conn[c].seen
      BY <1>4 DEF Get
    <2>2. conn[c].seen \in Key
      BY <1>4 DEF Get, KeysInv, PinInv
    <2>3. Keeps(c, step, conn[c].seen)
      BY <1>1, <1>4, <2>1, <2>2, KeyAssumption DEF Get, Keeps
    <2> QED  BY <1>0, <2>3
  <1>5. CASE Login(c)
    <2>1. PICK step \in {"open", "refused"} : Goto(c, step)
      BY <1>5 DEF Login
    <2>2. Keeps(c, step, conn[c].seen)
      BY <1>1, <1>5, <2>1 DEF Login, Keeps
    <2> QED  BY <1>0, <2>2
  <1>6. CASE PutFails(c)
    <2>1. Keeps(c, "refused", conn[c].seen)
      BY <1>1, <1>6 DEF PutFails, Put, Keeps
    <2> QED  BY <1>0, <2>1
  <1> QED  BY <1>2, <1>3, <1>4, <1>5, <1>6

\* A move changes the step and the key of one connection and nothing else.
LEMMA MoveFrame ==
    ASSUME KeysTypeOK, NEW c \in Conn, NEW step \in Step, NEW key \in Key \cup {None},
           Moved(c, step, key)
    PROVE  /\ conn' \in [Conn -> [pc : Step, policy : Policy \cup {None},
                         process : Process \cup {None}, pin : Key \cup {None},
                         seen : Key \cup {None}, first : BOOLEAN]]
           /\ conn'[c].pc = step /\ conn'[c].seen = key
           /\ conn'[c].policy = conn[c].policy /\ conn'[c].process = conn[c].process
           /\ conn'[c].first = conn[c].first
           /\ \A d \in Conn \ {c} : conn'[d] = conn[d]
  BY DEF KeysTypeOK, Moved, Step

\* Such a step keeps the invariant: whoever is put in a place to pin a key
\* has found none.
LEMMA MoveInv ==
    ASSUME KeysInv, NEW c \in Conn, Handshake(c) \/ Get(c) \/ Login(c) \/ PutFails(c)
    PROVE  KeysInv'
  <1>1. PICK step \in Step \ {"idle", "dial"}, key \in Key \cup {None} : Keeps(c, step, key)
    BY MoveStep
  <1> USE DEF Keeps
  <1> DEFINE Kept == /\ conn'[c].pc = step /\ conn'[c].seen = key
                      /\ conn'[c].policy = conn[c].policy /\ conn'[c].process = conn[c].process
                      /\ conn'[c].first = conn[c].first
                      /\ \A d \in Conn \ {c} : conn'[d] = conn[d]
  <1>2. Kept
    BY <1>1, MoveFrame DEF KeysInv
  <1>3. KeysTypeOK'
    BY <1>1, MoveFrame DEF KeysInv, KeysTypeOK, Step
  <1>4. MetInv'
    BY <1>1, <1>2 DEF KeysInv, MetInv, UnderWay
  <1>5. PinInv'
    BY <1>1, <1>2 DEF KeysInv, PinInv, Asks
  <1>6. KeyInv'
    <2>1. CASE Raced
      BY <1>1, <1>2, <2>1 DEF Raced, KeyInv
    <2>2. CASE ~Raced
      <3>1. \A d \in Conn : conn[d].first \/ d \in Trusted => known /= None /\ conn[d].seen = known
        BY <2>2 DEF KeysInv, KeyInv
      <3>2. \A d \in Conn \ {c} : d \in Trusted' => d \in Trusted
        BY <1>2 DEF Trusted
      <3>3. conn'[c].first \/ c \in Trusted' => known /= None /\ conn'[c].seen = known
        BY <1>1, <1>2, <3>1 DEF Trusted, Asks, KeysInv, PinInv
      <3> QED  BY <1>1, <1>2, <3>1, <3>2, <3>3 DEF KeyInv
    <2> QED  BY <2>1, <2>2
  <1> QED  BY <1>3, <1>4, <1>5, <1>6 DEF KeysInv

\* A dial meets all that are under way.
LEMMA DialInv == ASSUME KeysInv, NEW c \in Conn, Dial(c) PROVE KeysInv'
  <1>1. /\ conn[c].pc = "idle" /\ conn'[c].pc = "dial" /\ ~conn'[c].first
        /\ \A d \in Conn \ {c} : conn'[d] = conn[d]
        /\ UNCHANGED <<presented, known>>
    BY DEF Dial, NotDialled, KeysInv, KeysTypeOK
  <1>2. /\ met' \in [Conn -> SUBSET Conn]
        /\ met'[c] = UnderWay
        /\ \A d \in Conn \ {c} : met'[d] = IF d \in UnderWay THEN met[d] \cup {c} ELSE met[d]
    BY <1>1 DEF Dial, KeysInv, KeysTypeOK, UnderWay
  <1>3. KeysTypeOK'
    <2>1. PICK policy \in Policy, process \in Process, pin \in Key \cup {None} :
              conn' = [conn EXCEPT ![c] = [NotDialled EXCEPT !.pc = "dial",
                  !.policy = policy, !.process = process, !.pin = pin]]
      BY DEF Dial
    <2> QED  BY <1>1, <1>2, <2>1 DEF NotDialled, KeysInv, KeysTypeOK
  <1>4. MetInv'
    BY <1>1, <1>2 DEF KeysInv, MetInv, UnderWay
  <1>5. PinInv'
    BY <1>1, <1>2 DEF KeysInv, MetInv, PinInv
  <1>6. KeyInv'
    <2>1. \A a, b \in Conn : a \in met[b] => a \in met'[b]
      BY <1>1, <1>2 DEF KeysInv, MetInv
    <2>2. Raced => Raced'
      BY <1>1, <2>1 DEF Raced, KeysInv, MetInv
    <2>3. \A d \in Conn : conn'[d].first \/ d \in Trusted' =>
              (conn[d].first \/ d \in Trusted) /\ conn'[d].seen = conn[d].seen
      BY <1>1 DEF Trusted
    <2> QED  BY <1>1, <2>2, <2>3 DEF KeysInv, KeyInv
  <1> QED  BY <1>3, <1>4, <1>5, <1>6 DEF KeysInv

\* A first contact has met every other that has pinned a key before.
LEMMA PutInv == ASSUME KeysInv, NEW c \in Conn, Put(c) PROVE KeysInv'
  <1>1. CASE PutFails(c)
    BY <1>1, MoveInv
  <1>2. CASE ~PutFails(c)
    <2>1. /\ conn[c].pc = "put" /\ conn'[c].pc = "login" /\ conn'[c].first
          /\ conn'[c].seen = conn[c].seen
          /\ conn'[c].policy = conn[c].policy /\ conn'[c].process = conn[c].process
          /\ \A d \in Conn \ {c} : conn'[d] = conn[d]
          /\ known' = conn[c].seen /\ UNCHANGED <<presented, met>>
      BY <1>2 DEF Put, PutFails, KeysInv, KeysTypeOK
    <2>2. known' \in Key /\ known' /= None
      BY <2>1, KeyAssumption DEF KeysInv, PinInv
    <2>3. KeysTypeOK'
      BY <1>2, <2>1, <2>2 DEF Put, PutFails, KeysInv, KeysTypeOK
    <2>4. MetInv'
      BY <2>1 DEF KeysInv, MetInv, UnderWay
    <2>5. PinInv'
      BY <2>1, <2>2 DEF KeysInv, PinInv, MetInv, UnderWay
    <2>6. KeyInv'
      <3>1. CASE \E d \in Conn \ {c} : conn[d].first
        <4>1. Raced'
          BY <2>1, <3>1 DEF Raced, KeysInv, PinInv
        <4> QED  BY <4>1 DEF KeyInv
      <3>2. CASE ~\E d \in Conn \ {c} : conn[d].first
        <4>1. known = None /\ ~Raced
          BY <2>1, <3>2 DEF Raced, KeysInv, PinInv
        <4>2. Trusted = {}
          BY <4>1 DEF KeysInv, KeyInv, Trusted
        <4>3. Trusted' = {c}
          BY <2>1, <4>2 DEF Trusted, KeysInv, PinInv
        <4> QED  BY <2>1, <2>2, <3>2, <4>3 DEF KeyInv
      <3> QED  BY <3>1, <3>2
    <2> QED  BY <2>3, <2>4, <2>5, <2>6 DEF KeysInv
  <1> QED  BY <1>1, <1>2

LEMMA KeysNextInv == KeysInv /\ [KeysNext]_keysVars => KeysInv'
  BY ReplaceInv, MoveInv, DialInv, PutInv DEF KeysNext

-----------------------------------------------------------------------------
(* Theorems about the host keys.                                           *)

\* The inductive invariant of the connections and the table.
THEOREM KeysInvariance == KeysSpec => []KeysInv
  BY KeysInitInv, KeysNextInv, PTL DEF KeysSpec

\* The table and the connections keep their types (internal/adapters/ssh,
\* EnforcePolicy).
THEOREM KeysTypeCorrect == KeysSpec => []KeysTypeOK
  BY KeysInvariance, PTL DEF KeysInv

\* For any number of connections and keys, connections that the API trusts on
\* first use have all seen one key, unless two first contacts overlapped.
THEOREM OneKeyHolds == KeysSpec => []OneKeyUnlessRaced
  <1>1. KeysInv => OneKeyUnlessRaced
    BY DEF KeysInv, KeyInv, OneKeyUnlessRaced, Trusted
  <1> QED  BY <1>1, KeysInvariance, PTL

\* A pinned key is replaced only by a first contact that had overlapped with the
\* one that pinned it.
THEOREM PinsHold == KeysSpec => PinsAreReplacedByRacesOnly
  <1> DEFINE Replaced == \A key \in Key : (known = key /\ known' /= key) =>
           \E c, d \in Conn : /\ conn[c].first
                              /\ conn[c].seen = key
                              /\ conn[d].pc = "put"
                              /\ c \in met[d]
  <1>1. KeysInv /\ [KeysNext]_keysVars => [Replaced]_keysVars
    <2> SUFFICES ASSUME KeysInv, [KeysNext]_keysVars, NEW key \in Key, known = key, known' /= key
                 PROVE  \E c, d \in Conn : /\ conn[c].first
                                           /\ conn[c].seen = key
                                           /\ conn[d].pc = "put"
                                           /\ c \in met[d]
      OBVIOUS
    <2>1. PICK d \in Conn : conn[d].pc = "put"
      BY DEF KeysNext, ReplaceHost, Dial, Handshake, Get, Login, Put, keysVars
    <2>2. PICK c \in Conn : conn[c].first /\ conn[c].seen = key
      BY KeyAssumption DEF KeysInv, PinInv
    <2> QED  BY <2>1, <2>2 DEF KeysInv, PinInv
  <1> QED  BY <1>1, KeysInvariance, PTL DEF KeysSpec, PinsAreReplacedByRacesOnly
=============================================================================
