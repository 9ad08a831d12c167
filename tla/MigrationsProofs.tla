--------------------------- MODULE MigrationsProofs ---------------------------
(***************************************************************************)
(* Whatever the files, and however many runners apply them, die and are    *)
(* overtaken by edits: what is recorded has run, in order, and what has    *)
(* run is recorded unless its file commits by itself.  The schema only     *)
(* grows, because an open transaction is the only one (SchemaInv).         *)
(***************************************************************************)
EXTENDS Migrations, NaturalsInduction, WellFoundedInduction, TLAPS

Knows == {"list", "next", "exec", "record"}

\* What a run knows at each point of Migrate.
RunInv(r) ==
    /\ run[r].pc \in {"discover", "list"} => run[r].version = 1
    /\ run[r].pc \in Knows =>
           /\ run[r].sums \in [Version -> Text]
           /\ \A v \in Version : ToRead(r, v) => disk[v] = run[r].sums[v] \/ v \in slipped
    /\ run[r].pc \in Knows \ {"list"} =>
           /\ run[r].applied \in [Version -> Text \cup {NULL}]
           /\ \A v \in Version : run[r].applied[v] /= NULL => recorded[v] /= NULL
           /\ \A v \in Version : v < run[r].version => recorded[v] /= NULL
    /\ run[r].pc \in {"exec", "record"} =>
           /\ run[r].version \in Version
           /\ run[r].text \in Text
           /\ run[r].text = run[r].sums[run[r].version] \/ run[r].version \in slipped
    /\ run[r].pc = "record" =>
           IF Files[run[r].version].commits THEN run[r].text \in ran[run[r].version]
           ELSE run[r].pending /= NULL
    /\ run[r].pending /= NULL => run[r].pc = "record"

\* A run is a record of the fields of Idle.
IsRun(x) ==
    x \in [pc : Ended \cup {"discover"} \cup Knows, version : Nat \ {0},
           sums : {x.sums}, applied : {x.applied}, text : {x.text},
           pending : {x.pending}, disturbed : {x.disturbed}]

Tables ==
    /\ disk \in [Version -> Text]
    /\ recorded \in [Version -> Text \cup {NULL}]
    /\ ran \in [Version -> SUBSET Text]
    /\ slipped \subseteq Version

Inv ==
    /\ Tables
    /\ run = [r \in Runner |-> run[r]]
    /\ \A r \in Runner : IsRun(run[r]) /\ RunInv(r)
    /\ RecordIsOfItsText
    /\ AppliedIsRecorded
    /\ RecordedInOrder
-----------------------------------------------------------------------------
(* What a step does.                                                       *)

LEMMA VersionsInOrder == Version = 1 .. Len(Files) /\ Len(Files) \in Nat
  BY FilesAssumption DEF Version

\* A step of one run replaces its record.
Only(r) == /\ run' = [s \in Runner |-> run'[s]]
           /\ \A s \in Runner \ {r} : run'[s] = run[s]

LEMMA OnlyOne ==
    ASSUME Inv, NEW r \in Runner, NEW x, run' = [run EXCEPT ![r] = x]
    PROVE  Only(r) /\ run'[r] = x
  BY DEF Inv, Only

\* What a run knows stays true when others record more.
Grows(s) ==
    /\ \A v \in Version : recorded[v] /= NULL => recorded'[v] /= NULL
    /\ \A v \in Version : ran[v] \subseteq ran'[v]
    /\ slipped \subseteq slipped'
    /\ \A v \in Version : ToRead(s, v) => disk'[v] = disk[v] \/ v \in slipped'

LEMMA OthersKnow ==
    ASSUME Inv, NEW s \in Runner, run'[s] = run[s], Grows(s)
    PROVE  RunInv(s)'
  <1>1. RunInv(s)
    BY DEF Inv
  <1>2. \A v \in Version : ToRead(s, v)' <=> ToRead(s, v)
    BY DEF ToRead
  <1> QED  BY <1>1, <1>2 DEF RunInv, Grows, Knows

\* A step that only reads keeps the invariant if its own run knows what it has
\* read.
LEMMA ReadOnly ==
    ASSUME Inv, NEW r \in Runner, Only(r), UNCHANGED <<disk, schema, recorded, ran, slipped>>,
           IsRun(run'[r]), RunInv(r)'
    PROVE  Inv'
  <1>1. ASSUME NEW s \in Runner \ {r} PROVE IsRun(run'[s]) /\ RunInv(s)'
    <2>1. run'[s] = run[s] /\ Grows(s)
      BY DEF Only, Grows
    <2> QED  BY <2>1, OthersKnow DEF Inv
  <1> QED  BY <1>1 DEF Inv, Only, Tables, RecordIsOfItsText, AppliedIsRecorded, RecordedInOrder

\* What is left of a run that has ended, or starts.
Left(how, disturbed) == [Idle EXCEPT !.pc = how, !.disturbed = disturbed]

LEMMA LeftFields ==
    ASSUME NEW how, NEW disturbed, NEW x, x = [Idle EXCEPT !.pc = how, !.disturbed = disturbed]
    PROVE  x = [pc |-> how, version |-> 1, sums |-> NULL, applied |-> NULL,
                text |-> NULL, pending |-> NULL, disturbed |-> disturbed]
  BY DEF Idle

LEMMA LeftIsRun ==
    ASSUME NEW how \in Ended \cup {"discover"}, NEW disturbed
    PROVE  /\ IsRun(Left(how, disturbed)) /\ Left(how, disturbed).pc = how
           /\ Left(how, disturbed).version = 1 /\ Left(how, disturbed).pending = NULL
  <1> DEFINE x == Left(how, disturbed)
  <1>1. x = [pc |-> how, version |-> 1, sums |-> NULL, applied |-> NULL,
             text |-> NULL, pending |-> NULL, disturbed |-> disturbed]
    BY LeftFields DEF Left
  <1> HIDE DEF x
  <1>2. IsRun(x) /\ x.pc = how /\ x.version = 1 /\ x.pending = NULL
    BY <1>1 DEF IsRun, Ended
  <1> QED  BY <1>2 DEF x

\* A run that has ended knows nothing.
LEMMA EndInv ==
    ASSUME Inv, NEW r \in Runner, NEW how \in Ended \cup {"discover"}, NEW disturbed,
           run' = [run EXCEPT ![r] = Left(how, disturbed)],
           UNCHANGED <<disk, schema, recorded, ran, slipped>>
    PROVE  Inv'
  <1> DEFINE x == Left(how, disturbed)
  <1>1. IsRun(x) /\ x.pc = how /\ x.version = 1 /\ x.pending = NULL
    BY LeftIsRun
  <1> HIDE DEF x
  <1>2. Only(r) /\ run'[r] = x
    BY OnlyOne DEF x
  <1>3. how \notin Knows
    BY DEF Knows, Ended
  <1>4. RunInv(r)'
    BY <1>1, <1>2, <1>3 DEF RunInv, Knows
  <1> QED  BY <1>1, <1>2, <1>4, ReadOnly

\* No run is under way and nothing is recorded at first.
LEMMA InitInv == Init => Inv
  <1> SUFFICES ASSUME Init PROVE Inv
    OBVIOUS
  <1>1. Idle = Left("idle", FALSE)
    <2>1. Left("idle", FALSE) = [Idle EXCEPT !.pc = "idle", !.disturbed = FALSE]
      BY DEF Left
    <2>2. Left("idle", FALSE) = [pc |-> "idle", version |-> 1, sums |-> NULL, applied |-> NULL,
                                 text |-> NULL, pending |-> NULL, disturbed |-> FALSE]
      BY <2>1, LeftFields
    <2> QED  BY <2>2 DEF Idle
  <1>2. IsRun(Idle) /\ Idle.pc = "idle" /\ Idle.version = 1 /\ Idle.pending = NULL
    BY <1>1, LeftIsRun DEF Ended
  <1>3. ASSUME NEW r \in Runner PROVE IsRun(run[r]) /\ RunInv(r)
    <2>1. run[r] = Idle
      BY DEF Init
    <2> QED  BY <2>1, <1>2 DEF RunInv, Knows
  <1>4. Tables /\ run = [r \in Runner |-> run[r]]
    BY DEF Init, Tables, Text
  <1>5. RecordIsOfItsText /\ AppliedIsRecorded /\ RecordedInOrder
    BY DEF Init, RecordIsOfItsText, AppliedIsRecorded, RecordedInOrder
  <1> QED  BY <1>3, <1>4, <1>5 DEF Inv

LEMMA StartInv == ASSUME Inv, NEW r \in Runner, Start(r) \/ Die(r) PROVE Inv'
  <1>1. PICK how \in Ended \cup {"discover"}, disturbed \in BOOLEAN :
            run' = [run EXCEPT ![r] = Left(how, disturbed)]
    BY DEF Start, Die, End, Left, Ended, Alone
  <1> QED  BY <1>1, EndInv DEF Start, Die

LEMMA DiscoverInv == ASSUME Inv, NEW r \in Runner, Discover(r) PROVE Inv'
  <1> DEFINE x == [run[r] EXCEPT !.pc = "list", !.sums = disk]
  <1>1. IsRun(run[r]) /\ RunInv(r) /\ Tables
    BY DEF Inv
  <1>2. run' = [run EXCEPT ![r] = x]
    BY DEF Discover
  <1>3. Only(r) /\ run'[r] = x
    BY <1>2, OnlyOne
  <1>4. /\ IsRun(x) /\ x.pc = "list" /\ x.sums = disk /\ x.pending = run[r].pending
        /\ x.version = run[r].version
    BY <1>1 DEF IsRun, Knows
  <1> HIDE DEF x
  <1>5. RunInv(r)'
    BY <1>1, <1>3, <1>4 DEF RunInv, Knows, Discover, Tables
  <1> QED  BY <1>3, <1>4, <1>5, ReadOnly DEF Discover

LEMMA ListInv == ASSUME Inv, NEW r \in Runner, ListApplied(r) PROVE Inv'
  <1> DEFINE x == [run[r] EXCEPT !.pc = "next", !.applied = recorded]
  <1>1. IsRun(run[r]) /\ RunInv(r) /\ Tables
    BY DEF Inv
  <1>2. run' = [run EXCEPT ![r] = x]
    BY DEF ListApplied
  <1>3. Only(r) /\ run'[r] = x
    BY <1>2, OnlyOne
  <1>4. /\ IsRun(x) /\ x.pc = "next" /\ x.applied = recorded /\ x.sums = run[r].sums
        /\ x.pending = run[r].pending /\ x.version = run[r].version
    BY <1>1 DEF IsRun, Knows
  <1> HIDE DEF x
  <1>5. run[r].pc = "list" /\ run'[r].version = 1 /\ run'[r].pending = NULL
    BY <1>1, <1>3, <1>4 DEF RunInv, ListApplied
  <1>6. RunInv(r)'
    <2>1. recorded' = recorded /\ disk' = disk /\ slipped' = slipped
      BY DEF ListApplied
    <2>2. ~ \E v \in Version : v < 1
      BY VersionsInOrder
    <2>3. /\ run'[r].sums \in [Version -> Text]
          /\ \A v \in Version :
                 ToRead(r, v)' => disk'[v] = run'[r].sums[v] \/ v \in slipped'
      <3>1. \A v \in Version : ToRead(r, v)' => ToRead(r, v)
        BY <1>3, <1>4, <1>5 DEF ToRead
      <3> QED  BY <3>1, <1>1, <1>3, <1>4, <1>5, <2>1 DEF RunInv, Knows
    <2> QED  BY <1>1, <1>3, <1>4, <1>5, <2>1, <2>2, <2>3 DEF RunInv, Knows, Tables
  <1> QED  BY <1>3, <1>4, <1>6, ReadOnly DEF ListApplied

LEMMA NextFileInv == ASSUME Inv, NEW r \in Runner, NextFile(r) PROVE Inv'
  <1> DEFINE v == run[r].version
  <1>1. IsRun(run[r]) /\ RunInv(r) /\ Tables /\ run[r].pc = "next" /\ run[r].pending = NULL
    BY DEF Inv, NextFile, RunInv
  <1>2. UNCHANGED <<disk, schema, recorded, ran, slipped>>
    BY DEF NextFile
  <1>3. CASE End(r, "done", run[r].disturbed) \/ End(r, "drift", run[r].disturbed)
    <2>1. PICK how \in {"done", "drift"} :
              run' = [run EXCEPT ![r] = Left(how, run[r].disturbed)]
      BY <1>3 DEF End, Left
    <2> QED  BY <2>1, <1>2, EndInv DEF Ended
  <1>4. CASE /\ v \in Version /\ run[r].applied[v] = run[r].sums[v]
             /\ run' = [run EXCEPT ![r].version = v + 1]
    <2> DEFINE x == [run[r] EXCEPT !.version = v + 1]
    <2>1. Only(r) /\ run'[r] = x
      BY <1>4, OnlyOne
    <2>2. v \in Nat \ {0}
      BY <1>1 DEF IsRun
    <2>3. /\ IsRun(x) /\ x.pc = "next" /\ x.version = v + 1 /\ x.pending = run[r].pending
          /\ x.sums = run[r].sums /\ x.applied = run[r].applied
      BY <1>1, <2>2 DEF IsRun, Knows
    <2> HIDE DEF x
    <2>4. recorded[v] /= NULL
      <3>1. run[r].sums[v] \in Text /\ NULL \notin Text
        BY <1>1, <1>4, NullAssumption DEF RunInv, Knows, Text
      <3> QED  BY <3>1, <1>1, <1>4 DEF RunInv, Knows
    <2>5. \A u \in Version : u < v + 1 => recorded[u] /= NULL
      <3>1. \A u \in Version : u < v + 1 => u < v \/ u = v
        BY <2>2, VersionsInOrder
      <3> QED  BY <3>1, <2>4, <1>1 DEF RunInv, Knows
    <2>6. \A u \in Version : ToRead(r, u)' => ToRead(r, u)
      BY <1>1, <2>1, <2>2, <2>3, VersionsInOrder DEF ToRead
    <2>7. RunInv(r)'
      BY <1>1, <1>2, <2>1, <2>3, <2>5, <2>6 DEF RunInv, Knows
    <2> QED  BY <1>2, <2>1, <2>3, <2>7, ReadOnly
  <1>5. CASE /\ v \in Version
             /\ run' = [run EXCEPT ![r].pc = "exec", ![r].text = disk[v]]
    <2> DEFINE x == [run[r] EXCEPT !.pc = "exec", !.text = disk[v]]
    <2>1. run' = [run EXCEPT ![r] = x]
      BY <1>5
    <2>2. Only(r) /\ run'[r] = x
      BY <2>1, OnlyOne
    <2>3. /\ IsRun(x) /\ x.pc = "exec" /\ x.version = v /\ x.pending = run[r].pending
          /\ x.sums = run[r].sums /\ x.applied = run[r].applied /\ x.text = disk[v]
      BY <1>1 DEF IsRun, Knows
    <2> HIDE DEF x
    <2>4. disk[v] \in Text /\ (disk[v] = run[r].sums[v] \/ v \in slipped)
      <3>1. v \in Nat /\ v <= v
        BY <1>1 DEF IsRun
      <3>2. ToRead(r, v)
        BY <1>1, <3>1 DEF ToRead
      <3> QED  BY <3>2, <1>1, <1>5 DEF RunInv, Knows, Tables
    <2>5. /\ run[r].sums \in [Version -> Text]
          /\ \A u \in Version : ToRead(r, u) => disk[u] = run[r].sums[u] \/ u \in slipped
          /\ run[r].applied \in [Version -> Text \cup {NULL}]
          /\ \A u \in Version : run[r].applied[u] /= NULL => recorded[u] /= NULL
          /\ \A u \in Version : u < v => recorded[u] /= NULL
      BY <1>1 DEF RunInv, Knows
    <2>6. RunInv(r)'
      <3>1. v \in Version /\ run[r].pending = NULL
        BY <1>1, <1>5
      <3>2. \A u \in Version : ToRead(r, u)' => ToRead(r, u)
        BY <1>1, <3>1, <2>2, <2>3, VersionsInOrder DEF ToRead
      <3> QED  BY <3>1, <3>2, <1>2, <2>2, <2>3, <2>4, <2>5 DEF RunInv, Knows
    <2> QED  BY <1>2, <2>2, <2>3, <2>6, ReadOnly
  <1> QED  BY <1>3, <1>4, <1>5 DEF NextFile

\* A step that commits keeps the invariant if all three relations still hold.
LEMMA Commits ==
    ASSUME Inv, NEW r \in Runner, Only(r), UNCHANGED <<disk, slipped>>, Tables',
           \A v \in Version : recorded[v] /= NULL => recorded'[v] /= NULL,
           \A v \in Version : ran[v] \subseteq ran'[v],
           IsRun(run'[r]), RunInv(r)',
           RecordIsOfItsText', AppliedIsRecorded', RecordedInOrder'
    PROVE  Inv'
  <1>1. ASSUME NEW s \in Runner \ {r} PROVE IsRun(run'[s]) /\ RunInv(s)'
    <2>1. run'[s] = run[s] /\ Grows(s)
      BY DEF Only, Grows
    <2> QED  BY <2>1, OthersKnow DEF Inv
  <1> QED  BY <1>1 DEF Inv, Only

LEMMA ExecInv == ASSUME Inv, NEW r \in Runner, Exec(r) PROVE Inv'
  <1> DEFINE v == run[r].version
             tables == Execute(Files[v].body)
  <1>1. /\ IsRun(run[r]) /\ RunInv(r) /\ Tables /\ run[r].pc = "exec"
        /\ run[r].pending = NULL /\ v \in Version
    BY DEF Inv, Exec, RunInv
  <1>2. UNCHANGED <<disk, recorded, slipped>>
    BY DEF Exec
  <1>6. /\ run[r].sums \in [Version -> Text]
        /\ \A u \in Version : ToRead(r, u) => disk[u] = run[r].sums[u] \/ u \in slipped
        /\ run[r].applied \in [Version -> Text \cup {NULL}]
        /\ \A u \in Version : run[r].applied[u] /= NULL => recorded[u] /= NULL
        /\ \A u \in Version : u < v => recorded[u] /= NULL
        /\ run[r].text \in Text
        /\ run[r].text = run[r].sums[v] \/ v \in slipped
    BY <1>1 DEF RunInv, Knows
  <1> HIDE DEF tables
  <1>3. CASE Failed(r) /\ UNCHANGED <<schema, ran>>
    <2>1. run' = [run EXCEPT ![r] = Left("failed", run[r].disturbed)]
      BY <1>3 DEF Failed, End, Left
    <2> QED  BY <2>1, <1>2, <1>3, EndInv DEF Ended
  <1>4. CASE /\ Files[v].commits
             /\ ran' = [ran EXCEPT ![v] = @ \cup {run[r].text}]
             /\ run' = [run EXCEPT ![r].pc = "record"]
    <2> DEFINE x == [run[r] EXCEPT !.pc = "record"]
    <2>1. Only(r) /\ run'[r] = x
      BY <1>4, OnlyOne
    <2>2. /\ IsRun(x) /\ x.pc = "record" /\ x.version = v /\ x.pending = run[r].pending
          /\ x.sums = run[r].sums /\ x.applied = run[r].applied /\ x.text = run[r].text
      BY <1>1 DEF IsRun, Knows
    <2> HIDE DEF x
    <2>3. run[r].text \in Text /\ ran \in [Version -> SUBSET Text]
      BY <1>1 DEF RunInv, Tables
    <2>4. /\ ran' \in [Version -> SUBSET Text]
          /\ run[r].text \in ran'[v]
          /\ \A u \in Version : ran[u] \subseteq ran'[u]
          /\ \A u \in Version \ {v} : ran'[u] = ran[u]
      BY <1>1, <1>4, <2>3
    <2>5. RunInv(r)'
      <3>1. \A u \in Version : ToRead(r, u)' <=> ToRead(r, u)
        BY <1>1, <2>1, <2>2 DEF ToRead
      <3> QED  BY <3>1, <1>1, <1>2, <1>4, <2>1, <2>2, <2>4 DEF RunInv, Knows
    <2>6. RecordIsOfItsText'
      BY <1>2, <2>4 DEF Inv, RecordIsOfItsText
    <2>7. AppliedIsRecorded'
      <3>1. \A u \in 1 .. v - 1 : recorded[u] /= NULL
        <4>1. \A u \in 1 .. v - 1 : u \in Version /\ u < v
          BY <1>1, VersionsInOrder
        <4> QED  BY <4>1, <1>1 DEF RunInv, Knows
      <3> QED  BY <3>1, <1>2, <1>4, <2>4 DEF Inv, AppliedIsRecorded
    <2>8. RecordedInOrder'
      BY <1>2 DEF Inv, RecordedInOrder
    <2>9. Tables'
      BY <1>1, <1>2, <2>4 DEF Tables
    <2> QED  BY <1>2, <2>1, <2>2, <2>4, <2>5, <2>6, <2>7, <2>8, <2>9, Commits
  <1>5. CASE /\ tables /= NULL /\ ~Files[v].commits
             /\ run' = [run EXCEPT ![r].pc = "record", ![r].pending = tables]
             /\ UNCHANGED <<schema, ran>>
    <2> DEFINE x == [run[r] EXCEPT !.pc = "record", !.pending = tables]
    <2>1. run' = [run EXCEPT ![r] = x]
      BY <1>5
    <2>2. Only(r) /\ run'[r] = x
      BY <2>1, OnlyOne
    <2>3. /\ IsRun(x) /\ x.pc = "record" /\ x.version = v /\ x.pending = tables
          /\ x.sums = run[r].sums /\ x.applied = run[r].applied /\ x.text = run[r].text
      BY <1>1 DEF IsRun, Knows
    <2> HIDE DEF x
    <2>4. RunInv(r)'
      <3>1. v \in Version /\ tables /= NULL /\ ~Files[v].commits
        BY <1>1, <1>5
      <3>2. \A u \in Version : ToRead(r, u)' <=> ToRead(r, u)
        BY <1>1, <2>2, <2>3 DEF ToRead
      <3> QED  BY <3>1, <3>2, <1>2, <1>6, <2>2, <2>3 DEF RunInv, Knows
    <2> QED  BY <1>2, <1>5, <2>2, <2>3, <2>4, ReadOnly
  <1> QED  BY <1>3, <1>4, <1>5 DEF Exec, tables

\* A run that goes on to the next file.
Proceeded(y, w) == [y EXCEPT !.pc = "next", !.version = w, !.pending = NULL]

LEMMA ProceededIsRun ==
    ASSUME NEW y, IsRun(y), NEW w \in Nat \ {0}
    PROVE  /\ IsRun(Proceeded(y, w)) /\ Proceeded(y, w).pc = "next"
           /\ Proceeded(y, w).version = w /\ Proceeded(y, w).pending = NULL
           /\ Proceeded(y, w).sums = y.sums /\ Proceeded(y, w).applied = y.applied
  <1> DEFINE x == Proceeded(y, w)
  <1>1. x = [y EXCEPT !.pc = "next", !.version = w, !.pending = NULL]
    BY DEF Proceeded
  <1> HIDE DEF x
  <1>2. /\ x.pc = "next" /\ x.version = w /\ x.pending = NULL
        /\ x.sums = y.sums /\ x.applied = y.applied
    BY <1>1 DEF IsRun
  <1>3. IsRun(x)
    BY <1>1 DEF IsRun, Knows
  <1> QED  BY <1>2, <1>3 DEF x

LEMMA RecordInv == ASSUME Inv, NEW r \in Runner, Record(r) PROVE Inv'
  <1> DEFINE v == run[r].version
  <1>1. IsRun(run[r]) /\ RunInv(r) /\ Tables /\ run[r].pc = "record"
    BY DEF Inv, Record
  <1>2. UNCHANGED <<disk, slipped>>
    BY DEF Record
  <1>3. /\ run[r].sums \in [Version -> Text]
        /\ \A u \in Version : ToRead(r, u) => disk[u] = run[r].sums[u] \/ u \in slipped
        /\ run[r].applied \in [Version -> Text \cup {NULL}]
        /\ \A u \in Version : run[r].applied[u] /= NULL => recorded[u] /= NULL
        /\ \A u \in Version : u < v => recorded[u] /= NULL
        /\ v \in Version /\ run[r].text \in Text
        /\ run[r].text = run[r].sums[v] \/ v \in slipped
        /\ run[r].text \in ran[v] \/ run[r].pending /= NULL
    BY <1>1 DEF RunInv, Knows
  <1>4. CASE Failed(r) /\ UNCHANGED <<recorded, schema, ran>>
    <2>1. run' = [run EXCEPT ![r] = Left("failed", run[r].disturbed)]
      BY <1>4 DEF Failed, End, Left
    <2> QED  BY <2>1, <1>2, <1>4, EndInv DEF Ended
  <1>5. CASE /\ Proceed(r)
             /\ recorded' = [recorded EXCEPT ![v] = run[r].sums[v]]
             /\ IF run[r].pending = NULL THEN UNCHANGED <<schema, ran>>
                ELSE ran' = [ran EXCEPT ![v] = @ \cup {run[r].text}]
    <2> DEFINE x == Proceeded(run[r], v + 1)
    <2>1. run' = [run EXCEPT ![r] = x]
      BY <1>5 DEF Proceed, Proceeded
    <2>2. Only(r) /\ run'[r] = x
      BY <2>1, OnlyOne
    <2>3. v \in Nat \ {0}
      BY <1>1 DEF IsRun
    <2>4. /\ IsRun(x) /\ x.pc = "next" /\ x.version = v + 1 /\ x.pending = NULL
          /\ x.sums = run[r].sums /\ x.applied = run[r].applied
      BY <1>1, <2>3, ProceededIsRun
    <2> HIDE DEF x
    <2>5. NULL \notin Text
      BY NullAssumption DEF Text
    <2>6. /\ recorded' \in [Version -> Text \cup {NULL}]
          /\ recorded'[v] = run[r].sums[v] /\ recorded'[v] /= NULL
          /\ \A u \in Version \ {v} : recorded'[u] = recorded[u]
      BY <1>1, <1>3, <1>5, <2>5 DEF Tables
    <2>7. /\ ran' \in [Version -> SUBSET Text]
          /\ run[r].text \in ran'[v]
          /\ \A u \in Version : ran[u] \subseteq ran'[u]
          /\ \A u \in Version \ {v} : ran'[u] = ran[u]
      BY <1>1, <1>3, <1>5 DEF Tables
    <2>8. \A u \in Version : u < v + 1 => recorded'[u] /= NULL
      <3>1. \A u \in Version : u < v + 1 => u < v \/ u = v
        BY <2>3, VersionsInOrder
      <3> QED  BY <3>1, <1>3, <2>6
    <2>9. RunInv(r)'
      <3>1. \A u \in Version : recorded[u] /= NULL => recorded'[u] /= NULL
        BY <2>6
      <3>2. /\ run'[r].pc = "next" /\ run'[r].version = v + 1 /\ run'[r].pending = NULL
            /\ run'[r].sums = run[r].sums /\ run'[r].applied = run[r].applied
            /\ disk' = disk /\ slipped' = slipped
        BY <1>2, <2>2, <2>4
      <3>3. \A u \in Version : run[r].applied[u] /= NULL => recorded'[u] /= NULL
        BY <3>1, <1>3
      <3>4. \A u \in Version : ToRead(r, u)' => ToRead(r, u)
        BY <1>1, <2>3, <3>2, VersionsInOrder DEF ToRead
      <3> QED  BY <3>2, <3>3, <3>4, <1>3, <2>8 DEF RunInv, Knows
    <2>10. RecordIsOfItsText'
      BY <1>2, <1>3, <2>6, <2>7 DEF Inv, RecordIsOfItsText
    <2>11. AppliedIsRecorded'
      <3>1. \A u \in Version : recorded[u] /= NULL => recorded'[u] /= NULL
        BY <2>6
      <3>2. \A u \in Version : recorded'[u] = NULL => recorded[u] = NULL /\ ran'[u] = ran[u]
        BY <2>6, <2>7
      <3>3. \A w \in Version : \A u \in 1 .. w - 1 : u \in Version
        BY VersionsInOrder
      <3> QED  BY <3>1, <3>2, <3>3 DEF Inv, AppliedIsRecorded
    <2>12. RecordedInOrder'
      <3>1. \A u \in 1 .. v - 1 : u \in Version /\ u < v + 1
        BY <1>3, <2>3, VersionsInOrder
      <3>2. \A u \in 1 .. v - 1 : recorded'[u] /= NULL
        BY <3>1, <2>8
      <3> QED  BY <3>2, <2>6, VersionsInOrder DEF Inv, RecordedInOrder
    <2>13. Tables'
      BY <1>1, <1>2, <2>6, <2>7 DEF Tables
    <2> QED  BY <1>2, <2>2, <2>4, <2>6, <2>7, <2>9, <2>10, <2>11, <2>12, <2>13, Commits
  <1> QED  BY <1>4, <1>5 DEF Record

\* An edited file is one of those that slipped in if a run has still to read it.
LEMMA EditInv == ASSUME Inv, NEW v \in Version, Edit(v) PROVE Inv'
  <1>1. UNCHANGED <<schema, recorded, run, ran>> /\ disk' = [disk EXCEPT ![v] = "edited"]
    BY DEF Edit
  <1>2. slipped \subseteq slipped' /\ slipped' \subseteq Version
    BY DEF Edit, Inv, Tables
  <1>3. Tables'
    BY <1>1, <1>2 DEF Inv, Tables, Text
  <1>4. ASSUME NEW s \in Runner PROVE IsRun(run'[s]) /\ RunInv(s)'
    <2>1. ToRead(s, v) => v \in slipped'
      BY DEF Edit
    <2>2. \A u \in Version \ {v} : disk'[u] = disk[u]
      BY <1>1 DEF Inv, Tables
    <2>3. run'[s] = run[s] /\ Grows(s)
      BY <1>1, <1>2, <2>1, <2>2 DEF Grows
    <2> QED  BY <2>3, OthersKnow DEF Inv
  <1>5. RecordIsOfItsText' /\ AppliedIsRecorded' /\ RecordedInOrder'
    BY <1>1, <1>2 DEF Inv, RecordIsOfItsText, AppliedIsRecorded, RecordedInOrder
  <1> QED  BY <1>1, <1>3, <1>4, <1>5 DEF Inv

LEMMA StutterInv == ASSUME Inv, UNCHANGED vars PROVE Inv'
  <1>1. ASSUME NEW s \in Runner PROVE IsRun(run'[s]) /\ RunInv(s)'
    <2>1. run'[s] = run[s] /\ Grows(s)
      BY DEF vars, Grows
    <2> QED  BY <2>1, OthersKnow DEF Inv
  <1> QED  BY <1>1 DEF vars, Inv, Tables, RecordIsOfItsText, AppliedIsRecorded, RecordedInOrder

LEMMA NextInv == Inv /\ [Next]_vars => Inv'
  BY StartInv, DiscoverInv, ListInv, NextFileInv, ExecInv, RecordInv, EditInv, StutterInv
     DEF Next
-----------------------------------------------------------------------------
(* Theorems.                                                               *)

\* The invariant holds for any files, runs and edits.
THEOREM Invariance == Spec => []Inv
  BY InitInv, NextInv, PTL DEF Spec

\* Texts, records and runs keep their types.
THEOREM TypeCorrect == Spec => []TypeOK
  <1>1. Inv => TypeOK
    BY DEF Inv, Tables, IsRun, RunInv, Knows, TypeOK
  <1> QED  BY <1>1, Invariance, PTL

\* A record in schema_migrations vouches for the text that ran, unless the
\* file was edited after a run took its checksum and before it read its text.
THEOREM RecordIsOfItsTextHolds == Spec => []RecordIsOfItsText
  <1>1. Inv => RecordIsOfItsText
    BY DEF Inv
  <1> QED  BY <1>1, Invariance, PTL

\* What is applied without a record belongs to a file that commits by itself,
\* wherever the run died.
THEOREM AppliedIsRecordedHolds == Spec => []AppliedIsRecorded
  <1>1. Inv => AppliedIsRecorded
    BY DEF Inv
  <1> QED  BY <1>1, Invariance, PTL

\* Migrate records the versions in the order of their numbers, with any number
\* of runs at once.
THEOREM RecordedInOrderHolds == Spec => []RecordedInOrder
  <1>1. Inv => RecordedInOrder
    BY DEF Inv
  <1> QED  BY <1>1, Invariance, PTL

-----------------------------------------------------------------------------
(* The schema only grows.                                                  *)

Schema == [Table -> (SUBSET Column) \cup {NULL}]

\* No table of a is missing in b, and no column of it.
Grown(a, b) ==
    \A t \in Table : a[t] /= NULL => b[t] /= NULL /\ a[t] \subseteq b[t]

\* An open transaction grew the schema it found, which is still the present
\* one: there is no second open transaction.
SchemaInv ==
    /\ schema \in Schema
    /\ \A r \in Runner : run[r].pending /= NULL =>
           /\ run[r].pending \in Schema
           /\ Grown(schema, run[r].pending)
           /\ \A s \in Runner \ {r} : run[s].pending = NULL

\* A set of numbers has a least member.
LEMMA LeastMember ==
    ASSUME NEW S \in SUBSET Nat, S /= {}
    PROVE  \E n \in S : \A k \in S : n <= k
  <1> DEFINE R == OpToRel(<, Nat)
  <1>1. IsWellFoundedOn(R, Nat)
    BY NatLessThanWellFounded
  <1>2. PICK n \in S : \A k \in S : <<k, n>> \notin R
    BY <1>1, WFMin
  <1>3. \A k \in S : ~(k < n)
    BY <1>2 DEF OpToRel
  <1> QED  BY <1>3

\* A statement that works adds a table, columns or nothing.
LEMMA DoGrows ==
    ASSUME NEW tables \in Schema, NEW s \in Statement, Do(tables, s) /= NULL
    PROVE  Do(tables, s) \in Schema /\ Grown(tables, Do(tables, s))
  <1>1. tables /= NULL /\ Works(tables, s) /\ Do(tables, s) = After(tables, s)
    BY DEF Do
  <1>2. /\ s.op \in {"create", "create_if_missing", "add_columns", "index"}
        /\ s.table \in Table /\ s.columns \in SUBSET Column /\ s.columns /= NULL
    <2>1. /\ s.op \in {"create", "create_if_missing", "add_columns", "index"}
          /\ s.table \in Table /\ s.columns \in SUBSET Column
      BY DEF Statement
    <2>2. s.columns /= NULL
      BY <2>1, NullAssumption, Zenon
    <2> QED  BY <2>1, <2>2
  <1>3. CASE s.op = "add_columns"
    <2>1. tables[s.table] \in SUBSET Column
      BY <1>1, <1>2, <1>3 DEF Works, Schema
    <2>2. tables[s.table] \cup s.columns \in SUBSET Column
      BY <1>2, <2>1
    <2>3. tables[s.table] \cup s.columns /= NULL
      BY <2>2, NullAssumption
    <2>4. After(tables, s) = [tables EXCEPT ![s.table] = tables[s.table] \cup s.columns]
      BY <1>3 DEF After
    <2> QED  BY <1>1, <1>2, <2>2, <2>3, <2>4 DEF Schema, Grown
  <1>4. CASE s.op = "index"
    BY <1>1, <1>4 DEF After, Grown
  <1>5. CASE s.op \in {"create", "create_if_missing"}
    <2>1. After(tables, s) =
              [tables EXCEPT ![s.table] =
                  IF tables[s.table] = NULL THEN s.columns ELSE tables[s.table]]
      BY <1>5 DEF After
    <2> QED  BY <1>1, <1>2, <2>1 DEF Schema, Grown
  <1> QED  BY <1>2, <1>3, <1>4, <1>5

\* A file is executed statement by statement: the recursive definition of its
\* stages describes a function.
LEMMA StagesExist ==
    ASSUME NEW body \in Seq(Statement)
    PROVE  Stages(body) = [n \in 0 .. Len(body) |->
               IF n = 0 THEN schema ELSE Do(Stages(body)[n - 1], body[n])]
  <1> DEFINE IsStages(f, m) ==
                 f = [n \in 0 .. m |->
                         IF n = 0 THEN schema ELSE Do(f[n - 1], body[n])]
             Bad == {m \in 0 .. Len(body) : ~ \E f : IsStages(f, m)}
  <1>1. Len(body) \in Nat
    OBVIOUS
  <1>2. Bad = {}
    <2> SUFFICES ASSUME Bad /= {} PROVE FALSE
      OBVIOUS
    <2>1. PICK m \in Bad : \A k \in Bad : m <= k
      <3>1. Bad \in SUBSET Nat
        BY <1>1
      <3> HIDE DEF Bad
      <3> QED  BY <3>1, LeastMember
    <2>2. m \in Nat /\ m <= Len(body)
      BY <1>1, <2>1
    <2>3. CASE m = 0
      <3> DEFINE g == [n \in 0 .. 0 |-> schema]
      <3>1. g = [n \in 0 .. 0 |-> IF n = 0 THEN schema ELSE Do(g[n - 1], body[n])]
        OBVIOUS
      <3> HIDE DEF g
      <3>2. IsStages(g, m)
        BY <2>3, <3>1
      <3>3. ~ \E f : IsStages(f, m)
        BY <2>1
      <3> HIDE DEF IsStages
      <3> QED  BY <3>2, <3>3
    <2>4. CASE m > 0
      <3>1. m - 1 \in 0 .. Len(body) /\ m - 1 \notin Bad
        <4> HIDE DEF Bad
        <4> QED  BY <1>1, <2>1, <2>2, <2>4
      <3>2. PICK f : IsStages(f, m - 1)
        <4> HIDE DEF IsStages
        <4> QED  BY <3>1
      <3> DEFINE g == [n \in 0 .. m |->
                          IF n < m THEN f[n] ELSE Do(f[m - 1], body[m])]
      <3>3. \A n \in 0 .. (m - 1) :
                f[n] = IF n = 0 THEN schema ELSE Do(f[n - 1], body[n])
        BY <3>2
      <3>4. \A n \in 0 .. m : g[n] = IF n = 0 THEN schema ELSE Do(g[n - 1], body[n])
        <4>1. ASSUME NEW n \in 0 .. m, n < m
              PROVE  g[n] = IF n = 0 THEN schema ELSE Do(g[n - 1], body[n])
          <5>1. g[n] = f[n] /\ (n /= 0 => g[n - 1] = f[n - 1])
            BY <2>2, <4>1
          <5>2. f[n] = IF n = 0 THEN schema ELSE Do(f[n - 1], body[n])
            BY <2>2, <3>3, <4>1
          <5> QED  BY <5>1, <5>2
        <4>2. g[m] = Do(g[m - 1], body[m])
          BY <2>2, <2>4
        <4> HIDE DEF g
        <4> QED  BY <2>2, <2>4, <4>1, <4>2
      <3>5. g = [n \in 0 .. m |-> g[n]]
        OBVIOUS
      <3> HIDE DEF g
      <3>6. IsStages(g, m)
        BY <3>4, <3>5
      <3> QED  BY <2>1, <3>6
    <2> QED  BY <2>2, <2>3, <2>4
  <1>3. \E f : IsStages(f, Len(body))
    BY <1>1, <1>2
  <1>4. Stages(body) = CHOOSE f : IsStages(f, Len(body))
    BY DEF Stages
  <1> HIDE DEF IsStages
  <1>5. IsStages(Stages(body), Len(body))
    BY <1>3, <1>4
  <1> QED  BY <1>5 DEF IsStages

\* A file whose statements all work takes nothing away from the schema.
LEMMA ExecuteGrows ==
    ASSUME NEW body \in Seq(Statement), schema \in Schema, Execute(body) /= NULL
    PROVE  Execute(body) \in Schema /\ Grown(schema, Execute(body))
  <1>1. PICK f : f = Stages(body)
    OBVIOUS
  <1>2. /\ Len(body) \in Nat
        /\ f[0] = schema
        /\ \A n \in 1 .. Len(body) : f[n] = Do(f[n - 1], body[n])
    BY <1>1, StagesExist
  <1> DEFINE Fine(n) == f[n] \in Schema /\ Grown(schema, f[n])
             Bad == {n \in 0 .. Len(body) : f[n] /= NULL /\ ~Fine(n)}
  <1>3. Bad = {}
    <2> SUFFICES ASSUME Bad /= {} PROVE FALSE
      OBVIOUS
    <2>1. PICK n \in Bad : \A k \in Bad : n <= k
      <3>1. Bad \in SUBSET Nat
        BY <1>2
      <3> HIDE DEF Bad
      <3> QED  BY <3>1, LeastMember
    <2>2. Fine(0)
      BY <1>2 DEF Grown
    <2>3. n \in 1 .. Len(body) /\ f[n] /= NULL /\ ~Fine(n)
      BY <1>2, <2>1, <2>2
    <2>4. f[n] = Do(f[n - 1], body[n]) /\ f[n - 1] /= NULL
      BY <1>2, <2>3 DEF Do
    <2>5. n - 1 \in 0 .. Len(body) /\ ~(n <= n - 1)
      BY <1>2, <2>3
    <2>6. Fine(n - 1)
      BY <2>1, <2>4, <2>5
    <2>7. f[n] \in Schema /\ Grown(f[n - 1], f[n])
      <3>1. body[n] \in Statement
        BY <2>3
      <3> QED  BY <2>3, <2>4, <2>6, <3>1, DoGrows
    <2>8. Grown(schema, f[n])
      BY <2>6, <2>7 DEF Grown
    <2> QED  BY <2>3, <2>7, <2>8
  <1>4. Execute(body) = f[Len(body)] /\ Len(body) \in 0 .. Len(body)
    BY <1>1, <1>2 DEF Execute
  <1> QED  BY <1>3, <1>4

\* What a run does to its open transaction.
LEMMA PendingOf ==
    ASSUME Inv, NEW r \in Runner, NEW x, run' = [run EXCEPT ![r] = x]
    PROVE  /\ run'[r] = x
           /\ \A s \in Runner \ {r} : run'[s].pending = run[s].pending
  BY DEF Inv

\* A step that leaves the schema alone and opens no transaction.
LEMMA QuietStep ==
    ASSUME Inv, SchemaInv, schema' = schema,
           \A r \in Runner : run'[r].pending \in {run[r].pending, NULL}
    PROVE  SchemaInv'
  BY DEF SchemaInv

\* How a step of one run changes the schema and its open transaction.
LEMMA RunStep ==
    ASSUME Inv, NEW r \in Runner,
           \/ Start(r) \/ Discover(r) \/ ListApplied(r) \/ NextFile(r) \/ Die(r)
    PROVE  /\ schema' = schema
           /\ \A s \in Runner : run'[s].pending \in {run[s].pending, NULL}
  <1>1. schema' = schema
    BY DEF Start, Discover, ListApplied, NextFile, Die
  <1>2. \/ \E how, disturbed : run' = [run EXCEPT ![r] = Left(how, disturbed)]
        \/ \E x : run' = [run EXCEPT ![r] = x] /\ x.pending = run[r].pending
    <2>1. IsRun(run[r])
      BY DEF Inv
    <2>2. CASE Start(r) \/ Die(r)
      BY <2>2 DEF Start, Die, End, Left
    <2>3. CASE Discover(r)
      <3> DEFINE x == [run[r] EXCEPT !.pc = "list", !.sums = disk]
      <3>1. run' = [run EXCEPT ![r] = x]
        BY <2>3 DEF Discover
      <3>2. x.pending = run[r].pending
        BY <2>1 DEF IsRun
      <3> HIDE DEF x
      <3> QED  BY <3>1, <3>2
    <2>4. CASE ListApplied(r)
      <3> DEFINE x == [run[r] EXCEPT !.pc = "next", !.applied = recorded]
      <3>1. run' = [run EXCEPT ![r] = x]
        BY <2>4 DEF ListApplied
      <3>2. x.pending = run[r].pending
        BY <2>1 DEF IsRun
      <3> HIDE DEF x
      <3> QED  BY <3>1, <3>2
    <2>5. CASE NextFile(r)
      <3> DEFINE v == run[r].version
                 x == [run[r] EXCEPT !.version = v + 1]
                 y == [run[r] EXCEPT !.pc = "exec", !.text = disk[v]]
      <3>1. \/ \E how, disturbed : run' = [run EXCEPT ![r] = Left(how, disturbed)]
            \/ run' = [run EXCEPT ![r] = x]
            \/ run' = [run EXCEPT ![r] = y]
        BY <2>5 DEF NextFile, End, Left
      <3>2. x.pending = run[r].pending /\ y.pending = run[r].pending
        BY <2>1 DEF IsRun
      <3> HIDE DEF x, y
      <3> QED  BY <3>1, <3>2
    <2> QED  BY <2>2, <2>3, <2>4, <2>5
  <1>3. ASSUME NEW how, NEW disturbed PROVE Left(how, disturbed).pending = NULL
    <2>1. Left(how, disturbed) = [Idle EXCEPT !.pc = how, !.disturbed = disturbed]
      BY DEF Left
    <2>2. Left(how, disturbed) =
              [pc |-> how, version |-> 1, sums |-> NULL, applied |-> NULL,
               text |-> NULL, pending |-> NULL, disturbed |-> disturbed]
      BY <2>1, LeftFields
    <2> QED  BY <2>2
  <1>4. PICK x : run' = [run EXCEPT ![r] = x] /\ x.pending \in {run[r].pending, NULL}
    BY <1>2, <1>3
  <1> QED  BY <1>1, <1>4, PendingOf

\* Executing a file commits a schema that has grown, or keeps it in the only
\* open transaction.
LEMMA ExecSchema ==
    ASSUME Inv, SchemaInv, NEW r \in Runner, Exec(r)
    PROVE  SchemaInv' /\ schema' \in Schema /\ Grown(schema, schema')
  <1> DEFINE v == run[r].version
  <1>1. IsRun(run[r]) /\ v \in Version /\ \A s \in Runner : run[s].pending = NULL
    BY DEF Exec, Inv, RunInv, Unlocked
  <1>2. PICK tables : tables = Execute(Files[v].body)
    OBVIOUS
  <1>3. tables /= NULL => tables \in Schema /\ Grown(schema, tables)
    <2>1. Files[v].body \in Seq(Statement)
      <3>1. \A u \in DOMAIN Files :
                Files[u] \in [commits : BOOLEAN, body : Seq(Statement)]
        <4>1. ASSUME NEW S, NEW files \in Seq(S)
              PROVE  \A u \in DOMAIN files : files[u] \in S
          OBVIOUS
        <4> QED  BY <4>1, FilesAssumption
      <3> QED  BY <1>1, <3>1 DEF Version
    <2> QED  BY <1>2, <2>1, ExecuteGrows DEF SchemaInv
  <1>4. schema \in Schema /\ Grown(schema, schema)
    BY DEF SchemaInv, Grown
  <1>5. CASE Failed(r) /\ schema' = schema
    <2>1. run' = [run EXCEPT ![r] = Left("failed", run[r].disturbed)]
      BY <1>5 DEF Failed, End, Left
    <2>2. Left("failed", run[r].disturbed).pending = NULL
      BY LeftIsRun DEF Ended
    <2>3. \A s \in Runner : run'[s].pending = NULL
      BY <1>1, <2>1, <2>2, PendingOf
    <2> QED  BY <1>4, <1>5, <2>3 DEF SchemaInv
  <1>6. CASE /\ tables /= NULL /\ schema' = tables
             /\ run' = [run EXCEPT ![r].pc = "record"]
    <2> DEFINE x == [run[r] EXCEPT !.pc = "record"]
    <2>1. run' = [run EXCEPT ![r] = x] /\ x.pending = run[r].pending
      BY <1>1, <1>6 DEF IsRun
    <2> HIDE DEF x
    <2>2. \A s \in Runner : run'[s].pending = NULL
      BY <1>1, <2>1, PendingOf
    <2> QED  BY <1>3, <1>6, <2>2 DEF SchemaInv
  <1>7. CASE /\ tables /= NULL /\ schema' = schema
             /\ run' = [run EXCEPT ![r].pc = "record", ![r].pending = tables]
    <2> DEFINE x == [run[r] EXCEPT !.pc = "record", !.pending = tables]
    <2>1. run' = [run EXCEPT ![r] = x]
      BY <1>7
    <2>2. x.pending = tables
      BY <1>1 DEF IsRun
    <2> HIDE DEF x
    <2>3. run'[r].pending = tables /\ \A s \in Runner \ {r} : run'[s].pending = NULL
      BY <1>1, <2>1, <2>2, PendingOf
    <2> QED  BY <1>3, <1>4, <1>7, <2>3 DEF SchemaInv
  <1> QED  BY <1>2, <1>5, <1>6, <1>7 DEF Exec

\* The commit of a record makes the schema of its own transaction the present
\* one.
LEMMA RecordSchema ==
    ASSUME Inv, SchemaInv, NEW r \in Runner, Record(r)
    PROVE  SchemaInv' /\ schema' \in Schema /\ Grown(schema, schema')
  <1> DEFINE v == run[r].version
             x == [run[r] EXCEPT !.pc = "next", !.version = @ + 1, !.pending = NULL]
  <1>1. IsRun(run[r]) /\ schema \in Schema /\ Grown(schema, schema)
    BY DEF Inv, SchemaInv, Grown
  <1>2. CASE Failed(r) /\ schema' = schema
    <2>1. run' = [run EXCEPT ![r] = Left("failed", run[r].disturbed)]
      BY <1>2 DEF Failed, End, Left
    <2>2. Left("failed", run[r].disturbed).pending = NULL
      BY LeftIsRun DEF Ended
    <2>3. \A s \in Runner : run'[s].pending \in {run[s].pending, NULL}
      BY <2>1, <2>2, PendingOf
    <2> QED  BY <1>1, <1>2, <2>3, QuietStep
  <1>3. CASE /\ Proceed(r)
             /\ IF run[r].pending = NULL THEN schema' = schema
                ELSE schema' = run[r].pending
    <2>1. run' = [run EXCEPT ![r] = x]
      BY <1>3 DEF Proceed
    <2>2. x.pending = NULL
      BY <1>1 DEF IsRun
    <2> HIDE DEF x
    <2>3. run'[r].pending = NULL
          /\ \A s \in Runner \ {r} : run'[s].pending = run[s].pending
      BY <2>1, <2>2, PendingOf
    <2>4. CASE run[r].pending = NULL
      BY <1>1, <1>3, <2>3, <2>4, QuietStep
    <2>5. CASE run[r].pending /= NULL
      <3>1. /\ run[r].pending \in Schema /\ Grown(schema, run[r].pending)
            /\ \A s \in Runner \ {r} : run[s].pending = NULL
        BY <2>5 DEF SchemaInv
      <3>2. \A s \in Runner : run'[s].pending = NULL
        BY <2>3, <3>1
      <3> QED  BY <1>3, <2>5, <3>1, <3>2 DEF SchemaInv
    <2> QED  BY <2>4, <2>5
  <1>4. \/ Failed(r) /\ schema' = schema
        \/ /\ Proceed(r)
           /\ IF run[r].pending = NULL THEN schema' = schema
              ELSE schema' = run[r].pending
    BY DEF Record
  <1> QED  BY <1>2, <1>3, <1>4

\* Every step leaves the schema as it is or grows it.
LEMMA SchemaStep ==
    ASSUME Inv, SchemaInv, [Next]_vars
    PROVE  SchemaInv' /\ Grown(schema, schema')
  <1>1. Grown(schema, schema)
    BY DEF Grown
  <1>2. CASE \E r \in Runner : Start(r) \/ Discover(r) \/ ListApplied(r)
                                  \/ NextFile(r) \/ Die(r)
    BY <1>1, <1>2, RunStep, QuietStep
  <1>3. CASE \E r \in Runner : Exec(r)
    BY <1>3, ExecSchema
  <1>4. CASE \E r \in Runner : Record(r)
    BY <1>4, RecordSchema
  <1>5. CASE (\E v \in Version : Edit(v)) \/ UNCHANGED vars
    BY <1>1, <1>5, QuietStep DEF Edit, vars
  <1> QED  BY <1>2, <1>3, <1>4, <1>5 DEF Next

\* No step touches a record.
LEMMA RecordsStep ==
    ASSUME Inv, [Next]_vars, NEW v \in Version, recorded[v] /= NULL
    PROVE  recorded'[v] = recorded[v]
  <1>1. CASE \E r \in Runner : Record(r)
    <2>1. PICK r \in Runner : Record(r)
      BY <1>1
    <2>2. \/ recorded' = recorded
          \/ /\ recorded[run[r].version] = NULL
             /\ recorded' = [recorded EXCEPT ![run[r].version] =
                                 run[r].sums[run[r].version]]
      BY <2>1 DEF Record
    <2> QED  BY <2>2 DEF Inv, Tables
  <1>2. CASE recorded' = recorded
    BY <1>2
  <1> QED  BY <1>1, <1>2
           DEF Next, Start, Discover, ListApplied, NextFile, Exec, Die, Edit, vars

\* A record stays as it is, and however many runs apply files at once, die or
\* fail, no table and no column is ever taken away.
THEOREM RecordsStayHolds == Spec => RecordsStay
  <1> DEFINE Stay == /\ \A v \in Version :
                            recorded[v] /= NULL => recorded'[v] = recorded[v]
                     /\ \A t \in Table : schema[t] /= NULL =>
                            schema'[t] /= NULL /\ schema[t] \subseteq schema'[t]
  <1>1. Init => SchemaInv
    <2> SUFFICES ASSUME Init PROVE SchemaInv
      OBVIOUS
    <2>1. schema \in Schema
      BY DEF Init, Schema
    <2>2. \A r \in Runner : run[r].pending = NULL
      BY DEF Init, Idle
    <2> QED  BY <2>1, <2>2 DEF SchemaInv
  <1>2. Inv /\ SchemaInv /\ [Next]_vars => SchemaInv' /\ [Stay]_vars
    <2> SUFFICES ASSUME Inv, SchemaInv, [Next]_vars PROVE SchemaInv' /\ Stay
      OBVIOUS
    <2>1. SchemaInv' /\ Grown(schema, schema')
      BY SchemaStep
    <2> QED  BY <2>1, RecordsStep DEF Grown
  <1> QED  BY <1>1, <1>2, Invariance, PTL DEF Spec, RecordsStay
=============================================================================
