---------------------------- MODULE StoreSchema ----------------------------
(***************************************************************************)
(* SchedulerStore._migrate: what commands do to one state database when    *)
(* they open it, several at a time, while some are killed and those that   *)
(* have it open take and give up leases.                                   *)
(*                                                                         *)
(* The version is read once, before the transaction, and executescript     *)
(* commits that transaction before its first statement.  So every          *)
(* statement of a script is a transaction of its own, and between any two  *)
(* of them other processes work or the process dies.                       *)
(***************************************************************************)
EXTENDS Integers, Sequences, SequencesExt

CONSTANTS
  Process,     \* the commands on this database
  Lease,       \* the leases they may take
  Versions,    \* the schema versions the database may have at first
  QuietUpgrade \* is the database written only when nobody migrates it?

SchemaVersion == 4

ASSUME StoreAssumption == Versions \subseteq 0..SchemaVersion /\ QuietUpgrade \in BOOLEAN

VARIABLES
  version,  \* PRAGMA user_version
  objects,  \* the tables, indexes and added columns that are there
  rows,     \* rows[t]: the leases in the table t
  held,     \* the leases that were taken and not given up
  process   \* process[p]: where it is; the script and statement it is about to execute

vars == <<version, objects, rows, held, process>>

-----------------------------------------------------------------------------
(* The scripts, as sequences of statements.                                *)

Create(o)    == [do |-> "create", what |-> o]
IfMissing(o) == [do |-> "if_missing", what |-> o]
Sets(v)      == [do |-> "version", what |-> v]
Copy         == [do |-> "copy", what |-> "leases_v4"]
DropTable    == [do |-> "drop", what |-> "leases"]
Rename       == [do |-> "rename", what |-> "leases_v4"]

Creates(os) == [i \in DOMAIN os |-> Create(os[i])]

First == Creates(<<"batches", "projects", "tasks", "stages", "stages_queue", "stage_dependencies",
                   "attempts", "leases", "artifacts", "edit_reviews", "api_buckets", "events",
                   "events_batch", "gc_journal">>) \o <<Sets(1)>>

\* Mutant of Second: the tables are created where they are missing.
SecondRepeatable == <<IfMissing("artifact_commits"), IfMissing("artifact_commits_stage"),
                      IfMissing("api_bucket_owners"), Sets(2)>>
Second == Creates(<<"artifact_commits", "artifact_commits_stage", "api_bucket_owners">>) \o <<Sets(2)>>

\* Mutant of Third: the version is set before the tables are there.
ThirdEarly ==
  Creates(<<"attempts.generation_group_id", "attempts.generation_index">>) \o <<Sets(3)>> \o
  Creates(<<"stages.aggregate_started_at", "stages.aggregate_finished_at">>) \o
  <<IfMissing("image_edit_generations"), IfMissing("image_edit_generations_stage")>>
\* ALTER TABLE ADD COLUMN fails where the column is there, as CREATE TABLE does.
Third ==
  Creates(<<"attempts.generation_group_id", "attempts.generation_index",
            "stages.aggregate_started_at", "stages.aggregate_finished_at">>) \o
  <<IfMissing("image_edit_generations"), IfMissing("image_edit_generations_stage"), Sets(3)>>

\* Mutant of Fourth: the old table goes before its rows are copied.
FourthDropsFirst == <<Create("leases_v4"), DropTable, Copy, Rename, Create("leases_stage"), Sets(4)>>
Fourth == <<Create("leases_v4"), Copy, DropTable, Rename, Create("leases_stage"), Sets(4)>>

\* _migrate: the script that leads from version v to the next.
Script(v) == CASE v = 0 -> First [] v = 1 -> Second [] v = 2 -> Third [] v = 3 -> Fourth

\* What a finished script leaves behind.
Made(v) == {st.what : st \in {x \in ToSet(Script(v)) : x.do \in {"create", "if_missing"}}} \ {"leases_v4"}
Promised(v) == UNION {Made(u) : u \in 0..(v - 1)}

-----------------------------------------------------------------------------

Closed == [at |-> "closed", script |-> 0, next |-> 1]
Opened == [Closed EXCEPT !.at = "opened"]

Init ==
  /\ version \in Versions
  /\ objects = Promised(version)
  /\ held \in SUBSET (IF version = 0 THEN {} ELSE Lease)
  /\ rows = [leases |-> held, leases_v4 |-> {}]
  /\ process = [p \in Process |-> Closed]

Now(p, where) == process' = [process EXCEPT ![p] = where]
Migrates(p) == process[p].at = "migrating"

\* Connecting and reading the version.
Opens(p) ==
  /\ process[p] = Closed
  /\ Now(p, IF version = SchemaVersion THEN Opened
            ELSE [at |-> "migrating", script |-> version, next |-> 1])
  /\ UNCHANGED <<version, objects, rows, held>>

Statement(p) == Script(process[p].script)[process[p].next]

\* What makes the statement fail.
Fails(st) ==
  \/ st.do = "create" /\ st.what \in objects
  \/ st.do = "create" /\ st.what = "leases_stage" /\ "leases" \notin objects
  \/ st.do \in {"copy", "drop"} /\ "leases" \notin objects
  \/ st.do \in {"copy", "rename"} /\ "leases_v4" \notin objects
  \/ st.do = "copy" /\ rows.leases \cap rows.leases_v4 # {}
  \/ st.do = "rename" /\ "leases" \in objects

\* The next statement of the script, or the first of the next script.
After(p) ==
  IF process[p].next < Len(Script(process[p].script)) THEN [process[p] EXCEPT !.next = @ + 1]
  ELSE IF process[p].script + 1 = SchemaVersion THEN Opened
  ELSE [process[p] EXCEPT !.script = @ + 1, !.next = 1]

\* An index goes with its table.
Executes(p) ==
  /\ Migrates(p) /\ ~Fails(Statement(p))
  /\ Now(p, After(p))
  /\ LET st == Statement(p)
     IN  /\ version' = IF st.do = "version" THEN st.what ELSE version
         /\ objects' = CASE st.do \in {"create", "if_missing"} -> objects \cup {st.what}
                         [] st.do = "drop"   -> objects \ {"leases", "leases_stage"}
                         [] st.do = "rename" -> (objects \ {"leases_v4"}) \cup {"leases"}
                         [] OTHER            -> objects
         /\ rows' = CASE st.do = "copy"   -> [rows EXCEPT !.leases_v4 = @ \cup rows.leases]
                      [] st.do = "drop"   -> [rows EXCEPT !.leases = {}]
                      [] st.do = "rename" -> [leases |-> rows.leases_v4, leases_v4 |-> {}]
                      [] OTHER            -> rows
  /\ UNCHANGED held

\* The exception leaves _migrate, and the command ends.
Raises(p) ==
  /\ Migrates(p) /\ Fails(Statement(p))
  /\ Now(p, [Closed EXCEPT !.at = "failed"])
  /\ UNCHANGED <<version, objects, rows, held>>

\* A command ends, is killed or, where it has failed, is given again.
Ends(p) ==
  /\ process[p] # Closed
  /\ Now(p, Closed)
  /\ UNCHANGED <<version, objects, rows, held>>

Writes(p) == process[p] = Opened /\ (QuietUpgrade => \A q \in Process : ~Migrates(q))

Takes(p, l) ==
  /\ Writes(p) /\ "leases" \in objects /\ l \notin held
  /\ held' = held \cup {l}
  /\ rows' = [rows EXCEPT !.leases = @ \cup {l}]
  /\ UNCHANGED <<version, objects, process>>

Releases(p, l) ==
  /\ Writes(p) /\ "leases" \in objects /\ l \in rows.leases
  /\ held' = held \ {l}
  /\ rows' = [rows EXCEPT !.leases = @ \ {l}]
  /\ UNCHANGED <<version, objects, process>>

Next ==
  \E p \in Process :
    \/ Opens(p) \/ Executes(p) \/ Raises(p) \/ Ends(p)
    \/ \E l \in Lease : Takes(p, l) \/ Releases(p, l)

Spec == Init /\ [][Next]_vars

-----------------------------------------------------------------------------

\* Types; and the version never promises a table, an index or a column that is
\* not there, whoever was killed in whichever script: apart from the leases,
\* whose table a second migration may be exchanging.
SchemaSound ==
  /\ version \in 0..SchemaVersion
  /\ \A p \in Process :
       /\ process[p].at \in {"closed", "migrating", "opened", "failed"}
       /\ Migrates(p) => process[p].next \in 1..Len(Script(process[p].script))
  /\ \A t \in DOMAIN rows : rows[t] \subseteq Lease /\ (rows[t] # {} => t \in objects)
  /\ Promised(version) \ {"leases", "leases_stage"} \subseteq objects

\* The version never falls: a process that read it before others migrated fails
\* at the first statement that was executed already, before it sets its own.
VersionRises == [][version' >= version]_vars

\* A lease stays until it is given up, and does not come back: whatever is
\* killed between two statements, the rows are in one of the tables.
LeasesKept == held = IF "leases" \in objects THEN rows.leases ELSE rows.leases_v4

\* "Multiple CLI processes may briefly open a new state database together": none
\* of them fails.
OpensTogether == \A p \in Process : process[p].at # "failed"
=============================================================================
