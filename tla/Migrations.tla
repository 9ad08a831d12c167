------------------------------ MODULE Migrations ------------------------------
(***************************************************************************)
(* The migration runner of internal/database: Migrate applies the files    *)
(* that schema_migrations does not list, each in a transaction, while      *)
(* somebody edits the files, another process migrates as well, and a run   *)
(* may die anywhere.                                                       *)
(*                                                                         *)
(* Files 000006 and 000007 carry a BEGIN and a COMMIT of their own.  The   *)
(* BEGIN does nothing inside the transaction of the runner, the COMMIT     *)
(* ends it: what follows is committed statement by statement.              *)
(***************************************************************************)
EXTENDS Integers, Sequences

CONSTANTS
    Runner,  \* processes started with -migrate
    Table,   \* tables that the files speak of
    Column,  \* columns that tell their versions apart
    Files,   \* the files in the order of their numbers
    NULL     \* no table, no record

Statement == [op : {"create", "create_if_missing", "add_columns", "index"},
              table : Table, columns : SUBSET Column]

ASSUME FilesAssumption == Files \in Seq([commits : BOOLEAN, body : Seq(Statement)])

ASSUME NullAssumption ==
    NULL \notin {"original", "edited"} /\ \A C \in SUBSET Column : NULL /= C

VARIABLES
    disk,      \* the text of each file
    schema,    \* columns of each table that is committed
    recorded,  \* schema_migrations: the checksum of each version
    run,       \* the runs
    ran,       \* history: the texts of each file that have been committed
    slipped    \* history: the files edited after a run took their checksum
               \* and before it read their text

vars == <<disk, schema, recorded, run, ran, slipped>>

Version == DOMAIN Files

Text == {"original", "edited"}

Idle == [pc |-> "idle", version |-> 1, sums |-> NULL, applied |-> NULL,
         text |-> NULL, pending |-> NULL, disturbed |-> FALSE]

Init ==
    /\ disk = [v \in Version |-> "original"]
    /\ schema = [t \in Table |-> NULL]
    /\ recorded = [v \in Version |-> NULL]
    /\ run = [r \in Runner |-> Idle]
    /\ ran = [v \in Version |-> {}]
    /\ slipped = {}

Ended == {"idle", "done", "drift", "failed"}

Alone(r) == \A s \in Runner \ {r} : run[s].pc \in Ended

-----------------------------------------------------------------------------
(* Statements.                                                             *)

Works(tables, s) ==
    CASE s.op = "create" -> tables[s.table] = NULL
      [] s.op = "create_if_missing" -> TRUE
      [] s.op = "add_columns" -> tables[s.table] /= NULL
      [] OTHER -> tables[s.table] /= NULL /\ s.columns \subseteq tables[s.table]

After(tables, s) ==
    CASE s.op = "add_columns" -> [tables EXCEPT ![s.table] = @ \cup s.columns]
      [] s.op = "index" -> tables
      [] OTHER -> [tables EXCEPT ![s.table] = IF @ = NULL THEN s.columns ELSE @]

\* One statement more: NULL once one of them has failed.
Do(tables, s) ==
    IF tables = NULL \/ ~Works(tables, s) THEN NULL ELSE After(tables, s)

\* The schema after the first n of these statements, for every n.
Stages(body) ==
    LET stage[n \in 0 .. Len(body)] ==
            IF n = 0 THEN schema ELSE Do(stage[n - 1], body[n])
    IN stage

Execute(body) == Stages(body)[Len(body)]

\* A transaction that has changed the schema keeps others from changing it.
Unlocked == \A r \in Runner : run[r].pending = NULL

-----------------------------------------------------------------------------
(* Runs.                                                                   *)

\* The run ends; the process takes what it has read with it.
End(r, how, disturbed) == run' = [run EXCEPT ![r] = [Idle EXCEPT !.pc = how, !.disturbed = disturbed]]

Failed(r) == End(r, "failed", run[r].disturbed)

Start(r) ==
    /\ run[r].pc \in Ended
    /\ run' = [run EXCEPT ![r] = [Idle EXCEPT !.pc = "discover", !.disturbed = ~Alone(r)]]
    /\ UNCHANGED <<disk, schema, recorded, ran, slipped>>

\* The bookkeeping table is there, and the checksums of the files are taken.
Discover(r) ==
    /\ run[r].pc = "discover"
    /\ run' = [run EXCEPT ![r].pc = "list", ![r].sums = disk]
    /\ UNCHANGED <<disk, schema, recorded, ran, slipped>>

ListApplied(r) ==
    /\ run[r].pc = "list"
    /\ run' = [run EXCEPT ![r].pc = "next", ![r].applied = recorded]
    /\ UNCHANGED <<disk, schema, recorded, ran, slipped>>

\* (Mutant) What is recorded is taken as it is, and the rest comes first.
NextFileAnyOrder(r) ==
    LET v == run[r].version
    IN  /\ run[r].pc = "next"
        /\ IF v \notin Version THEN End(r, "done", run[r].disturbed)
           ELSE \/ run' = [run EXCEPT ![r].version = v + 1]
                \/ /\ run[r].applied[v] = NULL
                   /\ run' = [run EXCEPT ![r].pc = "exec", ![r].text = disk[v]]
        /\ UNCHANGED <<disk, schema, recorded, ran, slipped>>

\* The next file is skipped, stops the run, or is read once more to be applied.
NextFile(r) ==
    LET v == run[r].version
    IN  /\ run[r].pc = "next"
        /\ \/ v \notin Version /\ End(r, "done", run[r].disturbed)
           \/ /\ v \in Version
              /\ run[r].applied[v] = run[r].sums[v]
              /\ run' = [run EXCEPT ![r].version = v + 1]
           \/ /\ v \in Version
              /\ run[r].applied[v] \notin {NULL, run[r].sums[v]}
              /\ End(r, "drift", run[r].disturbed)
           \/ /\ v \in Version
              /\ run[r].applied[v] = NULL
              /\ run' = [run EXCEPT ![r].pc = "exec", ![r].text = disk[v]]
        /\ UNCHANGED <<disk, schema, recorded, ran, slipped>>

\* (Mutant) The text is committed before its version is recorded.
ExecCommits(r) ==
    LET v == run[r].version
        tables == Execute(Files[v].body)
    IN  /\ run[r].pc = "exec"
        /\ Unlocked
        /\ IF tables = NULL THEN Failed(r) /\ UNCHANGED <<schema, ran>>
           ELSE /\ schema' = tables
                /\ ran' = [ran EXCEPT ![v] = @ \cup {run[r].text}]
                /\ run' = [run EXCEPT ![r].pc = "record"]
        /\ UNCHANGED <<disk, recorded, slipped>>

\* tx.Exec sends the whole file, and a statement that fails ends it.
Exec(r) ==
    LET v == run[r].version
        tables == Execute(Files[v].body)
    IN  /\ run[r].pc = "exec"
        /\ Unlocked
        /\ \/ tables = NULL /\ Failed(r) /\ UNCHANGED <<schema, ran>>
           \/ /\ tables /= NULL
              /\ Files[v].commits
              /\ schema' = tables
              /\ ran' = [ran EXCEPT ![v] = @ \cup {run[r].text}]
              /\ run' = [run EXCEPT ![r].pc = "record"]
           \/ /\ tables /= NULL
              /\ ~Files[v].commits
              /\ run' = [run EXCEPT ![r].pc = "record", ![r].pending = tables]
              /\ UNCHANGED <<schema, ran>>
        /\ UNCHANGED <<disk, recorded, slipped>>

Proceed(r) == run' = [run EXCEPT ![r].pc = "next", ![r].version = @ + 1, ![r].pending = NULL]

\* (Mutant) The record of another run is overwritten.
RecordUpsert(r) ==
    LET v == run[r].version
    IN  /\ run[r].pc = "record"
        /\ Proceed(r)
        /\ recorded' = [recorded EXCEPT ![v] = run[r].sums[v]]
        /\ IF run[r].pending = NULL THEN UNCHANGED <<schema, ran>>
           ELSE /\ schema' = run[r].pending
                /\ ran' = [ran EXCEPT ![v] = @ \cup {run[r].text}]
        /\ UNCHANGED <<disk, slipped>>

\* (Mutant) The checksum is taken when the version is recorded.
RecordHashesNow(r) ==
    LET v == run[r].version
    IN  /\ run[r].pc = "record"
        /\ \/ recorded[v] /= NULL /\ Failed(r) /\ UNCHANGED <<recorded, schema, ran>>
           \/ /\ recorded[v] = NULL
              /\ Proceed(r)
              /\ recorded' = [recorded EXCEPT ![v] = disk[v]]
              /\ IF run[r].pending = NULL THEN UNCHANGED <<schema, ran>>
                 ELSE /\ schema' = run[r].pending
                      /\ ran' = [ran EXCEPT ![v] = @ \cup {run[r].text}]
        /\ UNCHANGED <<disk, slipped>>

\* The version is inserted with the checksum taken at the start, and the
\* transaction, if there still is one, is committed.
Record(r) ==
    LET v == run[r].version
    IN  /\ run[r].pc = "record"
        /\ \/ recorded[v] /= NULL /\ Failed(r) /\ UNCHANGED <<recorded, schema, ran>>
           \/ /\ recorded[v] = NULL
              /\ Proceed(r)
              /\ recorded' = [recorded EXCEPT ![v] = run[r].sums[v]]
              /\ IF run[r].pending = NULL THEN UNCHANGED <<schema, ran>>
                 ELSE /\ schema' = run[r].pending
                      /\ ran' = [ran EXCEPT ![v] = @ \cup {run[r].text}]
        /\ UNCHANGED <<disk, slipped>>

\* The process dies, or the database goes away: an open transaction is undone.
Die(r) ==
    /\ run[r].pc \notin Ended
    /\ End(r, "failed", TRUE)
    /\ UNCHANGED <<disk, schema, recorded, ran, slipped>>

\* The run knows the checksum of the file and has not read its text yet.
ToRead(r, v) ==
    \/ run[r].pc \in {"list", "next"} /\ run[r].version <= v
    \/ run[r].pc \in {"exec", "record"} /\ run[r].version < v

\* Somebody changes the text of a file.
Edit(v) ==
    /\ disk[v] = "original"
    /\ disk' = [disk EXCEPT ![v] = "edited"]
    /\ slipped' = IF \E r \in Runner : ToRead(r, v) THEN slipped \cup {v}
                  ELSE slipped
    /\ UNCHANGED <<schema, recorded, run, ran>>

Next ==
    \/ \E v \in Version : Edit(v)
    \/ \E r \in Runner :
           \/ Start(r)
           \/ Discover(r)
           \/ ListApplied(r)
           \/ NextFile(r)
           \/ Exec(r)
           \/ Record(r)
           \/ Die(r)

Spec == Init /\ [][Next]_vars

-----------------------------------------------------------------------------
(* Properties.                                                             *)

\* Texts, records and runs keep their types.
TypeOK ==
    /\ disk \in [Version -> Text]
    /\ recorded \in [Version -> Text \cup {NULL}]
    /\ ran \in [Version -> SUBSET Text]
    /\ slipped \subseteq Version
    /\ \A r \in Runner :
           /\ run[r].pc \in Ended \cup {"discover", "list", "next", "exec", "record"}
           /\ run[r].pc \in {"exec", "record"} => run[r].version \in Version

\* A version that is recorded has been applied with the text whose checksum
\* the record holds, unless the file was edited between the reading of its
\* checksum and that of its text.
RecordIsOfItsText ==
    \A v \in Version :
        recorded[v] /= NULL =>
            /\ ran[v] /= {}
            /\ recorded[v] \in ran[v] \/ v \in slipped

\* "Run the migration in a transaction so a partial failure does not leave the
\* schema in an unknown state" (internal/database/migrations.go:190): what a
\* file did is there without its record only for files that commit by
\* themselves, and every earlier file is recorded then.
AppliedIsRecorded ==
    \A v \in Version :
        (ran[v] /= {} /\ recorded[v] = NULL) =>
            /\ Files[v].commits
            /\ \A u \in 1 .. v - 1 : recorded[u] /= NULL

\* No version is recorded before the ones in front of it, whatever dies.
RecordedInOrder ==
    \A v \in Version : recorded[v] /= NULL => \A u \in 1 .. v - 1 : recorded[u] /= NULL

\* A record is never changed or taken back, and what two runs apply at once
\* takes no column away.
RecordsStay ==
    [][/\ \A v \in Version : recorded[v] /= NULL => recorded'[v] = recorded[v]
       /\ \A t \in Table : schema[t] /= NULL =>
              schema'[t] /= NULL /\ schema[t] \subseteq schema'[t]]_vars

\* docs/RUNBOOK_PHASE_007.md:12: the run that applies 000007 is expected to
\* succeed.  A run that nobody disturbs does not fail.
UndisturbedRunsSucceed ==
    \A r \in Runner : run[r].pc = "failed" => run[r].disturbed
=============================================================================
