-------------------------- MODULE StoreSchemaProofs --------------------------
(***************************************************************************)
(* What holds of a state database for every set of commands that open it,  *)
(* every set of leases and every version it may start from.                *)
(***************************************************************************)
EXTENDS StoreSchema, SequenceTheorems, TLAPS

-----------------------------------------------------------------------------
(* The scripts.                                                            *)

\* The objects that come and go: the table of leases, its index, and the table
\* the fourth script copies it to.
Moving == {"leases", "leases_stage", "leases_v4"}

\* The object that the first statement of a script creates, and that is there
\* from then on; but leases_v4 gets another name.
FirstObject(v) ==
  CASE v = 0 -> "batches" [] v = 1 -> "artifact_commits" [] v = 2 -> "attempts.generation_group_id"
    [] v = 3 -> "leases_v4"

Making(st) == st.do \in {"create", "if_missing"}

\* A script that creates objects one by one, and what follows.
LEMMA CreatesFirst ==
  ASSUME NEW S, NEW os \in Seq(S), NEW R, NEW rest \in Seq(R)
  PROVE  /\ DOMAIN (Creates(os) \o rest) = 1..(Len(os) + Len(rest))
         /\ Len(Creates(os) \o rest) = Len(os) + Len(rest)
         /\ \A i \in 1..Len(os) : (Creates(os) \o rest)[i] = Create(os[i]) /\ os[i] \in S
         /\ \A i \in 1..Len(rest) : (Creates(os) \o rest)[Len(os) + i] = rest[i]
<1> DEFINE A == {Create(o) : o \in S} \cup R
<1>1. PICK c : c = Creates(os)
  OBVIOUS
<1>2. c \in Seq(A) /\ Len(c) = Len(os) /\ \A i \in 1..Len(os) : c[i] = Create(os[i]) /\ os[i] \in S
  BY <1>1 DEF Creates
<1>3. rest \in Seq(A) /\ Len(rest) \in Nat /\ Len(os) \in Nat
  OBVIOUS
<1> HIDE DEF A
<1>4. /\ c \o rest \in Seq(A) /\ Len(c \o rest) = Len(c) + Len(rest)
      /\ \A i \in 1..(Len(c) + Len(rest)) : (c \o rest)[i] = IF i <= Len(c) THEN c[i] ELSE rest[i - Len(c)]
  BY <1>2, <1>3, ConcatProperties
<1>5. DOMAIN (c \o rest) = 1..(Len(os) + Len(rest))
  BY <1>2, <1>4
<1> QED BY <1>1, <1>2, <1>3, <1>4, <1>5

LEMMA FirstScript ==
  /\ Len(First) = 15 /\ DOMAIN First = 1..15
  /\ First[15] = Sets(1) /\ First[1] = Create("batches") /\ First[8] = Create("leases")
  /\ \A k \in 1..14 : First[k].do = "create" /\ First[k].what \notin {"leases_stage", "leases_v4"}
<1> DEFINE os == <<"batches", "projects", "tasks", "stages", "stages_queue", "stage_dependencies",
                   "attempts", "leases", "artifacts", "edit_reviews", "api_buckets", "events",
                   "events_batch", "gc_journal">>
           Objects == {"batches", "projects", "tasks", "stages", "stages_queue", "stage_dependencies",
                       "attempts", "leases", "artifacts", "edit_reviews", "api_buckets", "events",
                       "events_batch", "gc_journal"}
           rest == <<Sets(1)>>
<1>1. os \in Seq(Objects) /\ Len(os) = 14 /\ os[1] = "batches" /\ os[8] = "leases"
  OBVIOUS
<1>2. Objects \cap {"leases_stage", "leases_v4"} = {}
  OBVIOUS
<1>3. rest \in Seq({Sets(1)}) /\ Len(rest) = 1 /\ rest[1] = Sets(1)
  OBVIOUS
<1>4. First = Creates(os) \o rest
  BY DEF First
<1> HIDE DEF os, Objects, rest
<1>5. /\ Len(First) = 15 /\ DOMAIN First = 1..15 /\ First[15] = Sets(1)
      /\ \A k \in 1..14 : First[k] = Create(os[k]) /\ os[k] \in Objects
  <2>1. os \in Seq(Objects) /\ rest \in Seq({Sets(1)})
    BY <1>1, <1>3
  <2>2. /\ DOMAIN (Creates(os) \o rest) = 1..(Len(os) + Len(rest))
        /\ Len(Creates(os) \o rest) = Len(os) + Len(rest)
    BY <2>1, CreatesFirst
  <2>3. \A i \in 1..Len(os) : (Creates(os) \o rest)[i] = Create(os[i]) /\ os[i] \in Objects
    BY <2>1, CreatesFirst
  <2>4. \A i \in 1..Len(rest) : (Creates(os) \o rest)[Len(os) + i] = rest[i]
    BY <2>1, CreatesFirst
  <2>5. Len(First) = 15 /\ DOMAIN First = 1..15
    BY <1>1, <1>3, <1>4, <2>2
  <2>6. First[15] = Sets(1)
    <3>1. 1 \in 1..Len(rest) /\ Len(os) + 1 = 15
      BY <1>1, <1>3
    <3>2. (Creates(os) \o rest)[Len(os) + 1] = rest[1]
      BY <2>4, <3>1
    <3> QED BY <1>3, <1>4, <3>1, <3>2
  <2>7. \A k \in 1..14 : First[k] = Create(os[k]) /\ os[k] \in Objects
    BY <1>1, <1>4, <2>3
  <2> QED BY <2>5, <2>6, <2>7
<1> QED BY <1>1, <1>2, <1>5 DEF Create, Making

LEMMA SecondScript ==
  /\ Len(Second) = 4 /\ DOMAIN Second = 1..4
  /\ Second[4] = Sets(2) /\ Second[1] = Create("artifact_commits")
  /\ \A k \in 1..3 : Making(Second[k]) /\ Second[k].what \notin Moving
<1> DEFINE os == <<"artifact_commits", "artifact_commits_stage", "api_bucket_owners">>
           Objects == {"artifact_commits", "artifact_commits_stage", "api_bucket_owners"}
           rest == <<Sets(2)>>
<1>1. os \in Seq(Objects) /\ Len(os) = 3 /\ os[1] = "artifact_commits"
  OBVIOUS
<1>2. Objects \cap Moving = {}
  BY DEF Moving
<1>3. rest \in Seq({Sets(2)}) /\ Len(rest) = 1 /\ rest[1] = Sets(2)
  OBVIOUS
<1>4. Second = Creates(os) \o rest
  BY DEF Second
<1> HIDE DEF os, Objects, rest
<1>5. /\ Len(Second) = 4 /\ DOMAIN Second = 1..4 /\ Second[4] = Sets(2)
      /\ \A k \in 1..3 : Second[k] = Create(os[k]) /\ os[k] \in Objects
  <2>1. os \in Seq(Objects) /\ rest \in Seq({Sets(2)})
    BY <1>1, <1>3
  <2>2. /\ DOMAIN (Creates(os) \o rest) = 1..(Len(os) + Len(rest))
        /\ Len(Creates(os) \o rest) = Len(os) + Len(rest)
    BY <2>1, CreatesFirst
  <2>3. \A i \in 1..Len(os) : (Creates(os) \o rest)[i] = Create(os[i]) /\ os[i] \in Objects
    BY <2>1, CreatesFirst
  <2>4. \A i \in 1..Len(rest) : (Creates(os) \o rest)[Len(os) + i] = rest[i]
    BY <2>1, CreatesFirst
  <2> QED BY <1>1, <1>3, <1>4, <2>2, <2>3, <2>4
<1> QED BY <1>1, <1>2, <1>5 DEF Create, Making

LEMMA ThirdScript ==
  /\ Len(Third) = 7 /\ DOMAIN Third = 1..7
  /\ Third[7] = Sets(3) /\ Third[1] = Create("attempts.generation_group_id")
  /\ \A k \in 1..6 : Making(Third[k]) /\ Third[k].what \notin Moving
<1> DEFINE os == <<"attempts.generation_group_id", "attempts.generation_index",
                   "stages.aggregate_started_at", "stages.aggregate_finished_at">>
           Objects == {"attempts.generation_group_id", "attempts.generation_index",
                       "stages.aggregate_started_at", "stages.aggregate_finished_at"}
           x == IfMissing("image_edit_generations")
           y == IfMissing("image_edit_generations_stage")
           rest == <<x, y, Sets(3)>>
<1>1. os \in Seq(Objects) /\ Len(os) = 4 /\ os[1] = "attempts.generation_group_id"
  OBVIOUS
<1>2. Objects \cap Moving = {}
  BY DEF Moving
<1>3. rest \in Seq({x, y, Sets(3)}) /\ Len(rest) = 3 /\ rest[1] = x /\ rest[2] = y /\ rest[3] = Sets(3)
  OBVIOUS
<1>4. Third = Creates(os) \o rest
  BY DEF Third
<1>8. \A z \in {x, y} : Making(z) /\ z.what \notin Moving
  BY DEF Making, IfMissing, Moving
<1> HIDE DEF os, Objects, rest, x, y
<1>5. /\ Len(Third) = 7 /\ DOMAIN Third = 1..7
      /\ \A k \in 1..4 : Third[k] = Create(os[k]) /\ os[k] \in Objects
      /\ Third[5] = x /\ Third[6] = y /\ Third[7] = Sets(3)
  <2>1. os \in Seq(Objects) /\ rest \in Seq({x, y, Sets(3)})
    BY <1>1, <1>3
  <2>2. /\ DOMAIN (Creates(os) \o rest) = 1..(Len(os) + Len(rest))
        /\ Len(Creates(os) \o rest) = Len(os) + Len(rest)
    BY <2>1, CreatesFirst
  <2>3. \A i \in 1..Len(os) : (Creates(os) \o rest)[i] = Create(os[i]) /\ os[i] \in Objects
    BY <2>1, CreatesFirst
  <2>4. \A i \in 1..Len(rest) : (Creates(os) \o rest)[Len(os) + i] = rest[i]
    BY <2>1, CreatesFirst
  <2>5. Len(Third) = 7 /\ DOMAIN Third = 1..7
    BY <1>1, <1>3, <1>4, <2>2
  <2>6. \A k \in 1..4 : Third[k] = Create(os[k]) /\ os[k] \in Objects
    BY <1>1, <1>4, <2>3
  <2>7. Third[5] = x /\ Third[6] = y /\ Third[7] = Sets(3)
    <3>1. \A i \in 1..3 : Third[4 + i] = rest[i]
      BY <1>1, <1>3, <1>4, <2>4
    <3>2. Third[4 + 1] = rest[1] /\ Third[4 + 2] = rest[2] /\ Third[4 + 3] = rest[3]
      BY <3>1
    <3> QED BY <1>3, <3>2
  <2> QED BY <2>5, <2>6, <2>7
<1>6. \A k \in 1..6 : k \in 1..4 \/ k = 5 \/ k = 6
  OBVIOUS
<1>7. \A k \in 1..4 : Making(Third[k]) /\ Third[k].what \notin Moving
  BY <1>2, <1>5 DEF Create, Making
<1> QED BY <1>1, <1>5, <1>6, <1>7, <1>8

LEMMA FourthScript ==
  /\ Len(Fourth) = 6 /\ DOMAIN Fourth = 1..6
  /\ Fourth[1] = Create("leases_v4") /\ Fourth[2] = Copy /\ Fourth[3] = DropTable
  /\ Fourth[4] = Rename /\ Fourth[5] = Create("leases_stage") /\ Fourth[6] = Sets(4)
BY DEF Fourth

\* What the proofs below need of the scripts.
LEMMA ScriptFacts ==
  ASSUME NEW v \in 0..3
  PROVE  /\ Len(Script(v)) \in Nat /\ Len(Script(v)) >= 4 /\ DOMAIN Script(v) = 1..Len(Script(v))
         /\ Script(v)[1] = Create(FirstObject(v))
         /\ Script(v)[Len(Script(v))] = Sets(v + 1)
         /\ v < 3 => \A k \in 1..(Len(Script(v)) - 1) :
                       /\ Making(Script(v)[k])
                       /\ Script(v)[k].what \notin {"leases_stage", "leases_v4"}
                       /\ Script(v)[k].what = "leases" => v = 0 /\ Script(v)[k].do = "create"
<1>1. CASE v = 0
  <2>1. Script(v) = First /\ FirstObject(v) = "batches"
    BY <1>1 DEF Script, FirstObject
  <2>2. Len(First) \in Nat /\ Len(First) >= 4 /\ DOMAIN First = 1..Len(First)
    BY FirstScript
  <2>3. First[1] = Create("batches") /\ First[Len(First)] = Sets(v + 1)
    BY <1>1, FirstScript
  <2>4. \A k \in 1..(Len(First) - 1) :
          /\ Making(First[k]) /\ First[k].what \notin {"leases_stage", "leases_v4"}
          /\ First[k].what = "leases" => v = 0 /\ First[k].do = "create"
    BY <1>1, FirstScript DEF Making
  <2> QED BY <2>1, <2>2, <2>3, <2>4
<1>2. CASE v = 1
  <2>1. Script(v) = Second /\ FirstObject(v) = "artifact_commits"
    BY <1>2 DEF Script, FirstObject
  <2>2. Len(Second) \in Nat /\ Len(Second) >= 4 /\ DOMAIN Second = 1..Len(Second)
    BY SecondScript
  <2>3. Second[1] = Create("artifact_commits") /\ Second[Len(Second)] = Sets(v + 1)
    BY <1>2, SecondScript
  <2>4. \A k \in 1..(Len(Second) - 1) :
          /\ Making(Second[k]) /\ Second[k].what \notin {"leases_stage", "leases_v4"}
          /\ Second[k].what = "leases" => v = 0 /\ Second[k].do = "create"
    BY <1>2, SecondScript DEF Moving
  <2> QED BY <2>1, <2>2, <2>3, <2>4
<1>3. CASE v = 2
  <2>1. Script(v) = Third /\ FirstObject(v) = "attempts.generation_group_id"
    BY <1>3 DEF Script, FirstObject
  <2>2. Len(Third) \in Nat /\ Len(Third) >= 4 /\ DOMAIN Third = 1..Len(Third)
    BY ThirdScript
  <2>3. Third[1] = Create("attempts.generation_group_id") /\ Third[Len(Third)] = Sets(v + 1)
    BY <1>3, ThirdScript
  <2>4. \A k \in 1..(Len(Third) - 1) :
          /\ Making(Third[k]) /\ Third[k].what \notin {"leases_stage", "leases_v4"}
          /\ Third[k].what = "leases" => v = 0 /\ Third[k].do = "create"
    BY <1>3, ThirdScript DEF Moving
  <2> QED BY <2>1, <2>2, <2>3, <2>4
<1>4. CASE v = 3
  <2>1. Script(v) = Fourth /\ FirstObject(v) = "leases_v4"
    BY <1>4 DEF Script, FirstObject
  <2>2. Len(Fourth) \in Nat /\ Len(Fourth) >= 4 /\ DOMAIN Fourth = 1..Len(Fourth)
    BY FourthScript
  <2>3. Fourth[1] = Create("leases_v4") /\ Fourth[Len(Fourth)] = Sets(v + 1)
    BY <1>4, FourthScript
  <2> QED BY <1>4, <2>1, <2>2, <2>3
<1> QED BY <1>1, <1>2, <1>3, <1>4

\* A finished script has executed the statement for each object it promises.
LEMMA MadeFacts ==
  ASSUME NEW v \in 0..3, NEW o \in Made(v)
  PROVE  \E k \in 1..(Len(Script(v)) - 1) : Making(Script(v)[k]) /\ Script(v)[k].what = o
<1>1. PICK k \in DOMAIN Script(v) : Making(Script(v)[k]) /\ Script(v)[k].what = o
  BY DEF Made, ToSet, Making
<1>2. ~Making(Sets(v + 1))
  BY DEF Making, Sets
<1>3. k # Len(Script(v))
  BY <1>1, <1>2, ScriptFacts
<1>4. DOMAIN Script(v) = 1..Len(Script(v)) /\ Len(Script(v)) \in Nat
  BY ScriptFacts
<1> QED BY <1>1, <1>3, <1>4

LEMMA FirstObjectMade ==
  ASSUME NEW v \in 0..2
  PROVE  FirstObject(v) \in Made(v) /\ FirstObject(v) \notin Moving
<1>1. v \in 0..3 /\ 1 \in DOMAIN Script(v)
  BY ScriptFacts
<1>2. Script(v)[1] = Create(FirstObject(v)) /\ FirstObject(v) \notin Moving
  BY <1>1, ScriptFacts DEF FirstObject, Moving
<1> QED BY <1>1, <1>2 DEF Made, ToSet, Create, Moving

\* The fourth script promises the index of the leases alone.
LEMMA FourthMade == Made(3) \subseteq {"leases_stage"}
<1> SUFFICES ASSUME NEW o \in Made(3) PROVE o = "leases_stage"
  OBVIOUS
<1>1. PICK k \in 1..5 : Making(Fourth[k]) /\ Fourth[k].what = o
  <2>1. Script(3) = Fourth
    BY DEF Script
  <2>2. PICK k \in 1..(Len(Script(3)) - 1) : Making(Script(3)[k]) /\ Script(3)[k].what = o
    <3>1. 3 \in 0..3
      OBVIOUS
    <3> QED BY <3>1, MadeFacts, Zenon
  <2>3. Len(Script(3)) = 6
    BY <2>1, FourthScript
  <2>4. k \in 1..(6 - 1)
    BY <2>3
  <2>5. k \in 1..5
    BY <2>4
  <2> QED BY <2>1, <2>2, <2>5
<1>2. o # "leases_v4"
  BY DEF Made
<1>3. k = 1 \/ k = 2 \/ k = 3 \/ k = 4 \/ k = 5
  OBVIOUS
<1> QED BY <1>1, <1>2, <1>3, FourthScript DEF Making, Create, Copy, DropTable, Rename

-----------------------------------------------------------------------------
(* The invariant.                                                          *)

Typed ==
  /\ version \in 0..SchemaVersion /\ held \subseteq Lease
  /\ rows \in [{"leases", "leases_v4"} -> SUBSET Lease]
  /\ \A t \in {"leases", "leases_v4"} : rows[t] # {} => t \in objects
  /\ process \in [Process -> [at : {"closed", "migrating", "opened", "failed"},
                              script : 0..3, next : Nat \ {0}]]

\* p is between two statements of script v.
Within(p, v) == Migrates(p) /\ process[p].script = v /\ process[p].next > 1

\* A process never runs a script the version has not reached; and one that is
\* past the first statement of one of the first three scripts runs it alone, at
\* the version the script starts from, and finds what it made.
ScriptInv ==
  /\ \A p \in Process :
       Migrates(p) => version >= process[p].script /\ process[p].next <= Len(Script(process[p].script))
  /\ \A p \in Process, v \in 0..2 : Within(p, v) =>
       /\ version = v
       /\ \A k \in 1..(process[p].next - 1) :
            Script(v)[k].what \notin Moving => Script(v)[k].what \in objects
       /\ \A q \in Process : Within(q, v) => q = p
  /\ Promised(version) \ Moving \subseteq objects

\* p is about to copy the leases, to drop their table or to rename the copy.
Exchanges(p) == Migrates(p) /\ process[p].script = 3 /\ process[p].next \in 2..4

\* One process at a time exchanges the table of leases, at version 3 at least,
\* and until it drops the table the copy is empty or complete.
ExchangeInv ==
  /\ version < 3 => "leases_v4" \notin objects
  /\ LeasesKept
  /\ \A p \in Process : Exchanges(p) =>
       /\ "leases_v4" \in objects
       /\ process[p].next = 2 => rows.leases_v4 = {}
       /\ process[p].next = 3 => rows.leases_v4 = rows.leases
       /\ \A q \in Process : Exchanges(q) => q = p

-----------------------------------------------------------------------------
(* What a statement does.                                                  *)

\* A statement of the first three scripts that makes an object.
LEMMA MakingStep ==
  ASSUME Typed, ScriptInv, NEW p \in Process, Executes(p),
         NEW v \in 0..2, process[p].script = v, process[p].next < Len(Script(v)),
         NEW o, o = Script(v)[process[p].next].what
  PROVE  /\ version' = version /\ rows' = rows /\ held' = held /\ objects' = objects \cup {o}
         /\ process' = [process EXCEPT ![p] = [process[p] EXCEPT !.next = @ + 1]]
         /\ o \notin {"leases_stage", "leases_v4"}
         /\ o = "leases" => v = 0 /\ o \notin objects
         /\ process[p].next = 1 => o = FirstObject(v) /\ o \notin objects
<1> DEFINE st == Statement(p)
<1>0. process[p].next \in Nat \ {0} /\ v \in 0..3
  BY DEF Typed
<1>l. Len(Script(v)) \in Nat
  BY <1>0, ScriptFacts
<1>1. st = Script(v)[process[p].next] /\ process[p].next \in 1..(Len(Script(v)) - 1) /\ v \in 0..3
  BY <1>0, <1>l DEF Statement
<1>2. v < 3 /\ Len(Script(v)) \in Nat
  BY <1>1, ScriptFacts
<1>3. \A k \in 1..(Len(Script(v)) - 1) :
        /\ Making(Script(v)[k])
        /\ Script(v)[k].what \notin {"leases_stage", "leases_v4"}
        /\ Script(v)[k].what = "leases" => v = 0 /\ Script(v)[k].do = "create"
  BY <1>1, <1>2, ScriptFacts
<1> HIDE DEF st
<1>4. /\ Making(st) /\ st.what = o
      /\ o \notin {"leases_stage", "leases_v4"} /\ (o = "leases" => v = 0 /\ st.do = "create")
  BY <1>1, <1>3
<1> USE DEF st
<1>5. st.do # "version" /\ st.do # "drop" /\ st.do # "copy" /\ st.do # "rename"
  BY <1>4 DEF Making
<1>6. version' = version /\ rows' = rows /\ held' = held /\ objects' = objects \cup {o}
  BY <1>4, <1>5, Zenon DEF Executes, Making
<1>7. process' = [process EXCEPT ![p] = [process[p] EXCEPT !.next = @ + 1]]
  BY DEF Executes, Now, After
<1>8. st.do = "create" => o \notin objects
  BY <1>4 DEF Executes, Fails
<1>9. process[p].next = 1 => st = Create(FirstObject(v))
  BY <1>1, ScriptFacts
<1>10. process[p].next = 1 => o = FirstObject(v) /\ st.do = "create"
  BY <1>4, <1>9 DEF Create
<1> QED BY <1>4, <1>6, <1>7, <1>8, <1>10

\* The last statement of a script.
LEMMA SettingStep ==
  ASSUME Typed, ScriptInv, NEW p \in Process, Executes(p),
         NEW v \in 0..3, process[p].script = v, process[p].next = Len(Script(v))
  PROVE  /\ version' = v + 1 /\ rows' = rows /\ held' = held /\ objects' = objects
         /\ process' = [process EXCEPT ![p] = IF v = 3 THEN Opened
                                             ELSE [process[p] EXCEPT !.script = v + 1, !.next = 1]]
<1> DEFINE st == Statement(p)
<1>1. st = Sets(v + 1)
  BY ScriptFacts DEF Statement
<1>2. st.do = "version" /\ st.what = v + 1
  BY <1>1 DEF Sets
<1>3. version' = v + 1
  BY <1>2, Zenon DEF Executes
<1>4. rows' = rows /\ held' = held /\ objects' = objects
  BY <1>2, Zenon DEF Executes
<1>5. ~(process[p].next < Len(Script(process[p].script)))
  BY ScriptFacts
<1>6. (v + 1 = SchemaVersion) <=> (v = 3)
  BY DEF SchemaVersion
<1>7. process' = [process EXCEPT ![p] = After(p)]
  BY DEF Executes, Now
<1>8. After(p) = IF v = 3 THEN Opened ELSE [process[p] EXCEPT !.script = v + 1, !.next = 1]
  BY <1>5, <1>6 DEF After
<1> QED BY <1>3, <1>4, <1>7, <1>8

\* The other statements of the fourth script.
LEMMA ExchangingStep ==
  ASSUME Typed, ScriptInv, NEW p \in Process, Executes(p),
         process[p].script = 3, process[p].next < 6
  PROVE  /\ version' = version /\ held' = held
         /\ process' = [process EXCEPT ![p] = [process[p] EXCEPT !.next = @ + 1]]
         /\ process[p].next \in 1..5
         /\ process[p].next = 1 => /\ "leases_v4" \notin objects
                                   /\ objects' = objects \cup {"leases_v4"} /\ rows' = rows
         /\ process[p].next = 2 => /\ {"leases", "leases_v4"} \subseteq objects /\ objects' = objects
                                   /\ rows' = [rows EXCEPT !.leases_v4 = @ \cup rows.leases]
         /\ process[p].next = 3 => /\ "leases" \in objects
                                   /\ objects' = objects \ {"leases", "leases_stage"}
                                   /\ rows' = [rows EXCEPT !.leases = {}]
         /\ process[p].next = 4 => /\ "leases" \notin objects
                                   /\ objects' = (objects \ {"leases_v4"}) \cup {"leases"}
                                   /\ rows' = [leases |-> rows.leases_v4, leases_v4 |-> {}]
         /\ process[p].next = 5 => /\ objects' = objects \cup {"leases_stage"} /\ rows' = rows
<1> DEFINE st == Statement(p)
<1>1. Script(3) = Fourth
  BY DEF Script
<1>2. process[p].next \in 1..5 /\ st = Fourth[process[p].next]
  BY <1>1 DEF Typed, Statement
<1>3. process' = [process EXCEPT ![p] = [process[p] EXCEPT !.next = @ + 1]]
  BY <1>1, FourthScript DEF Executes, Now, After
<1>4. process[p].next = 1 => st = Create("leases_v4")
  BY <1>2, FourthScript
<1>5. process[p].next = 2 => st = Copy
  BY <1>2, FourthScript
<1>6. process[p].next = 3 => st = DropTable
  BY <1>2, FourthScript
<1>7. process[p].next = 4 => st = Rename
  BY <1>2, FourthScript
<1>8. process[p].next = 5 => st = Create("leases_stage")
  BY <1>2, FourthScript
<1>9. st.do # "version"
  BY <1>2, <1>4, <1>5, <1>6, <1>7, <1>8 DEF Create, Copy, DropTable, Rename
<1>10. version' = version /\ held' = held
  BY <1>9, Zenon DEF Executes
<1>11. ASSUME process[p].next = 1
       PROVE  "leases_v4" \notin objects /\ objects' = objects \cup {"leases_v4"} /\ rows' = rows
  <2>1. st.do = "create" /\ st.what = "leases_v4"
    BY <1>4, <1>11 DEF Create
  <2> QED BY <2>1 DEF Executes, Fails
<1>12. ASSUME process[p].next = 2
       PROVE  {"leases", "leases_v4"} \subseteq objects /\ objects' = objects
              /\ rows' = [rows EXCEPT !.leases_v4 = @ \cup rows.leases]
  <2>1. st.do = "copy"
    BY <1>5, <1>12 DEF Copy
  <2> QED BY <2>1 DEF Executes, Fails
<1>13. ASSUME process[p].next = 3
       PROVE  "leases" \in objects /\ objects' = objects \ {"leases", "leases_stage"}
              /\ rows' = [rows EXCEPT !.leases = {}]
  <2>1. st.do = "drop"
    BY <1>6, <1>13 DEF DropTable
  <2> QED BY <2>1 DEF Executes, Fails
<1>14. ASSUME process[p].next = 4
       PROVE  "leases" \notin objects /\ objects' = (objects \ {"leases_v4"}) \cup {"leases"}
              /\ rows' = [leases |-> rows.leases_v4, leases_v4 |-> {}]
  <2>1. st.do = "rename"
    BY <1>7, <1>14 DEF Rename
  <2> QED BY <2>1 DEF Executes, Fails
<1>15. ASSUME process[p].next = 5
       PROVE  objects' = objects \cup {"leases_stage"} /\ rows' = rows
  <2>1. st.do = "create" /\ st.what = "leases_stage"
    BY <1>8, <1>15 DEF Create
  <2> QED BY <2>1 DEF Executes, Fails
<1> QED BY <1>2, <1>3, <1>10, <1>11, <1>12, <1>13, <1>14, <1>15

\* Each statement is one of these.
LEMMA StepCases ==
  ASSUME Typed, ScriptInv, NEW p \in Process, Executes(p)
  PROVE  \/ process[p].script \in 0..2 /\ process[p].next < Len(Script(process[p].script))
         \/ process[p].next = Len(Script(process[p].script))
         \/ process[p].script = 3 /\ process[p].next < 6
<1> DEFINE v == process[p].script
<1>1. v \in 0..3 /\ process[p].next \in Nat /\ process[p].next <= Len(Script(v))
  BY DEF Typed, ScriptInv, Executes
<1>2. Len(Script(v)) \in Nat
  BY <1>1, ScriptFacts
<1>3. Len(Script(3)) = 6
  BY FourthScript DEF Script
<1> HIDE DEF v
<1>4. v = 3 => process[p].next <= 6 /\ Len(Script(v)) = 6
  BY <1>1, <1>3
<1>5. \/ v \in 0..2 /\ process[p].next < Len(Script(v))
      \/ process[p].next = Len(Script(v))
      \/ v = 3 /\ process[p].next < 6
  <2>1. v = 3 \/ v \in 0..2
    BY <1>1
  <2>2. PICK n, len : n = process[p].next /\ len = Len(Script(v))
    OBVIOUS
  <2>3. n \in Nat /\ len \in Nat /\ n <= len /\ (v = 3 => len = 6)
    BY <1>1, <1>2, <1>4, <2>2
  <2>4. n = len \/ n < len
    BY <2>3
  <2> QED BY <2>1, <2>2, <2>3, <2>4
<1> QED BY <1>5 DEF v

-----------------------------------------------------------------------------
(* The invariant holds from the start, and every step keeps it.            *)

LEMMA AtFirst == Init => Typed /\ ScriptInv /\ ExchangeInv
<1> SUFFICES ASSUME Init PROVE Typed /\ ScriptInv /\ ExchangeInv
  OBVIOUS
<1>1. \A p \in Process : process[p] = Closed /\ ~Migrates(p)
  BY DEF Init, Migrates, Closed
<1>2. \A v \in 0..4 : "leases_v4" \notin Promised(v)
  BY DEF Promised, Made
<1>3. version \in 0..4
  BY StoreAssumption DEF Init, SchemaVersion
<1>4. version # 0 => "leases" \in objects
  <2>1. Script(0) = First
    BY DEF Script
  <2>2. Create("leases").do = "create" /\ Create("leases").what = "leases"
    BY DEF Create
  <2>3. Create("leases") \in ToSet(Script(0))
    BY <2>1, FirstScript DEF ToSet
  <2>4. "leases" \in Made(0)
    BY <2>2, <2>3 DEF Made
  <2>5. version # 0 => 0 \in 0..(version - 1)
    BY <1>3
  <2> QED BY <2>4, <2>5 DEF Init, Promised
<1>5. version = 0 => held = {}
  BY DEF Init
<1>6. Typed
  <2>1. process \in [Process -> [at : {"closed", "migrating", "opened", "failed"},
                                script : 0..3, next : Nat \ {0}]]
    BY DEF Init, Closed
  <2>2. held \subseteq Lease
    BY DEF Init
  <2>3. rows = [leases |-> held, leases_v4 |-> {}]
    BY DEF Init
  <2>4. rows \in [{"leases", "leases_v4"} -> SUBSET Lease]
    BY <2>2, <2>3
  <2>5. \A t \in {"leases", "leases_v4"} : rows[t] # {} => t \in objects
    BY <1>4, <1>5, <2>3
  <2> QED BY <1>3, <2>1, <2>2, <2>4, <2>5 DEF Typed, SchemaVersion
<1>7. ScriptInv
  <2>1. Promised(version) \ Moving \subseteq objects
    BY DEF Init
  <2> QED BY <1>1, <2>1 DEF ScriptInv, Within
<1>8. ExchangeInv
  <2>1. "leases_v4" \notin objects
    BY <1>2, <1>3 DEF Init
  <2>2. LeasesKept
    BY <1>4, <1>5 DEF Init, LeasesKept
  <2> QED BY <1>1, <2>1, <2>2 DEF ExchangeInv, Exchanges
<1> QED BY <1>6, <1>7, <1>8

LEMMA ExecutesTyped ==
  ASSUME Typed, ScriptInv, NEW p \in Process, Executes(p)
  PROVE  Typed'
<1> DEFINE v == process[p].script
<1>1. CASE v \in 0..2 /\ process[p].next < Len(Script(v))
  <2>1. PICK o : o = Script(v)[process[p].next].what
    OBVIOUS
  <2>2. /\ version' = version /\ rows' = rows /\ held' = held /\ objects' = objects \cup {o}
        /\ process' = [process EXCEPT ![p] = [process[p] EXCEPT !.next = @ + 1]]
    BY <1>1, <2>1, MakingStep
  <2> QED BY <2>2 DEF Typed
<1>2. CASE process[p].next = Len(Script(v))
  <2>1. /\ version' = v + 1 /\ rows' = rows /\ held' = held /\ objects' = objects /\ v \in 0..3
        /\ process' = [process EXCEPT ![p] = IF v = 3 THEN Opened
                                            ELSE [process[p] EXCEPT !.script = v + 1, !.next = 1]]
    BY <1>2, SettingStep DEF Typed
  <2>2. process' \in [Process -> [at : {"closed", "migrating", "opened", "failed"},
                                 script : 0..3, next : Nat \ {0}]]
    <3> DEFINE Records == [at : {"closed", "migrating", "opened", "failed"}, script : 0..3, next : Nat \ {0}]
    <3>1. \A r \in Records, x \in 0..3 : [r EXCEPT !.script = x, !.next = 1] \in Records
      <4> SUFFICES ASSUME NEW r \in Records, NEW x \in 0..3
                   PROVE  [r EXCEPT !.script = x, !.next = 1] \in Records
        OBVIOUS
      <4>1. [r EXCEPT !.script = x] \in Records
        OBVIOUS
      <4>2. 1 \in Nat \ {0}
        OBVIOUS
      <4> QED BY <4>1, <4>2
    <3>2. Opened \in Records /\ process \in [Process -> Records]
      BY DEF Opened, Closed, Typed
    <3>3. v # 3 => v + 1 \in 0..3
      BY <2>1
    <3> HIDE DEF Records, v
    <3>4. process' \in [Process -> Records]
      BY <2>1, <3>1, <3>2, <3>3
    <3> QED BY <3>4 DEF Records
  <2> QED BY <2>1, <2>2 DEF Typed, SchemaVersion
<1>3. CASE v = 3 /\ process[p].next < 6
  <2>1. /\ version' = version /\ held' = held /\ process[p].next \in 1..5
        /\ process' = [process EXCEPT ![p] = [process[p] EXCEPT !.next = @ + 1]]
    BY <1>3, ExchangingStep
  <2>2. /\ rows' \in [{"leases", "leases_v4"} -> SUBSET Lease]
        /\ \A t \in {"leases", "leases_v4"} : rows'[t] # {} => t \in objects'
    <3>1. CASE process[p].next = 1
      BY <1>3, <3>1, ExchangingStep DEF Typed
    <3>2. CASE process[p].next = 2
      BY <1>3, <3>2, ExchangingStep DEF Typed
    <3>3. CASE process[p].next = 3
      BY <1>3, <3>3, ExchangingStep DEF Typed
    <3>4. CASE process[p].next = 4
      BY <1>3, <3>4, ExchangingStep DEF Typed
    <3>5. CASE process[p].next = 5
      BY <1>3, <3>5, ExchangingStep DEF Typed
    <3>6. process[p].next = 1 \/ process[p].next = 2 \/ process[p].next = 3
          \/ process[p].next = 4 \/ process[p].next = 5
      BY <2>1
    <3> QED BY <3>1, <3>2, <3>3, <3>4, <3>5, <3>6
  <2> QED BY <2>1, <2>2 DEF Typed
<1> QED BY <1>1, <1>2, <1>3, StepCases

\* A statement of the first three scripts is executed at the version its script
\* starts from, and by one process.
LEMMA AloneAtVersion ==
  ASSUME Typed, ScriptInv, NEW p \in Process, Executes(p),
         NEW v \in 0..2, process[p].script = v, process[p].next <= Len(Script(v))
  PROVE  /\ version = v
         /\ \A q \in Process : Within(q, v) => q = p
<1>1. CASE process[p].next > 1
  BY <1>1 DEF ScriptInv, Within, Executes
<1>2. CASE process[p].next = 1
  <2>1. FirstObject(v) \notin objects
    <3>1. Len(Script(v)) \in Nat /\ Len(Script(v)) >= 4
      BY ScriptFacts
    <3>2. process[p].next < Len(Script(v))
      BY <1>2, <3>1
    <3>3. PICK o : o = Script(v)[process[p].next].what
      OBVIOUS
    <3> QED BY <1>2, <3>2, <3>3, MakingStep
  <2>2. FirstObject(v) \in Made(v) /\ FirstObject(v) \notin Moving
    BY FirstObjectMade
  <2>3. version \in 0..4 /\ version >= v
    BY DEF Typed, ScriptInv, Executes, SchemaVersion
  <2>4. version = v
    <3>1. SUFFICES ASSUME version > v PROVE FALSE
      BY <2>3
    <3>2. v \in 0..(version - 1)
      BY <2>3, <3>1
    <3>3. FirstObject(v) \in Promised(version)
      BY <2>2, <3>2 DEF Promised
    <3> QED BY <2>1, <2>2, <3>3 DEF ScriptInv
  <2>5. \A q \in Process : ~Within(q, v)
    <3> SUFFICES ASSUME NEW q \in Process, Within(q, v) PROVE FALSE
      OBVIOUS
    <3>1. 1 \in 1..(process[q].next - 1)
      BY DEF Within, Typed
    <3>2. Script(v)[1] = Create(FirstObject(v))
      BY ScriptFacts
    <3>3. Script(v)[1].what = FirstObject(v)
      BY <3>2 DEF Create
    <3> QED BY <2>1, <2>2, <3>1, <3>3 DEF ScriptInv
  <2> QED BY <2>4, <2>5
<1> QED BY <1>1, <1>2 DEF Typed

LEMMA MakingKeepsScripts ==
  ASSUME Typed, ScriptInv, NEW p \in Process, Executes(p), Typed',
         NEW v \in 0..2, process[p].script = v, process[p].next < Len(Script(v))
  PROVE  ScriptInv'
<1>1. PICK o : o = Script(v)[process[p].next].what
  OBVIOUS
<1>2. /\ version' = version /\ objects' = objects \cup {o}
      /\ process' = [process EXCEPT ![p] = [process[p] EXCEPT !.next = @ + 1]]
  BY <1>1, MakingStep
<1>3. Len(Script(v)) \in Nat /\ v \in 0..3
  BY ScriptFacts
<1>4. version = v /\ \A q \in Process : Within(q, v) => q = p
  BY <1>3, AloneAtVersion DEF Typed
<1>5. /\ process'[p].script = v /\ process'[p].next = process[p].next + 1 /\ Migrates(p)'
      /\ \A q \in Process : q # p => process'[q] = process[q]
  BY <1>2 DEF Typed, Migrates, Executes
<1>6. process[p].next \in Nat \ {0}
  BY DEF Typed
<1>7. ASSUME NEW q \in Process, Migrates(q)'
      PROVE  version' >= process'[q].script /\ process'[q].next <= Len(Script(process'[q].script))
  <2>1. CASE q = p
    BY <1>2, <1>3, <1>4, <1>5, <1>6, <2>1
  <2>2. CASE q # p
    BY <1>2, <1>5, <1>7, <2>2 DEF ScriptInv, Migrates
  <2> QED BY <2>1, <2>2
<1>8. ASSUME NEW q \in Process, NEW u \in 0..2, Within(q, u)'
      PROVE  /\ version' = u
             /\ \A k \in 1..(process'[q].next - 1) :
                  Script(u)[k].what \notin Moving => Script(u)[k].what \in objects'
             /\ \A r \in Process : Within(r, u)' => r = q
  <2>1. u = v /\ q = p
    BY <1>2, <1>4, <1>5, <1>8 DEF ScriptInv, Within, Migrates
  <2>2. ASSUME NEW k \in 1..(process'[p].next - 1), Script(v)[k].what \notin Moving
        PROVE  Script(v)[k].what \in objects'
    <3>1. CASE k = process[p].next
      BY <1>1, <1>2, <3>1
    <3>2. CASE k # process[p].next
      <4>1. k \in 1..(process[p].next - 1) /\ process[p].next > 1
        BY <1>5, <1>6, <3>2
      <4>2. Within(p, v)
        BY <4>1 DEF Within, Executes
      <4> QED BY <1>2, <2>2, <4>1, <4>2 DEF ScriptInv
    <3> QED BY <3>1, <3>2
  <2>3. ASSUME NEW r \in Process, Within(r, v)' PROVE r = p
    BY <1>4, <1>5, <2>3 DEF Within, Migrates
  <2> QED BY <1>2, <1>4, <2>1, <2>2, <2>3
<1>9. Promised(version') \ Moving \subseteq objects'
  BY <1>2 DEF ScriptInv
<1> QED BY <1>7, <1>8, <1>9 DEF ScriptInv

LEMMA SettingKeepsScripts ==
  ASSUME Typed, ScriptInv, NEW p \in Process, Executes(p), Typed',
         NEW v \in 0..3, process[p].script = v, process[p].next = Len(Script(v))
  PROVE  ScriptInv' /\ version' >= version
<1>1. /\ version' = v + 1 /\ objects' = objects
      /\ process' = [process EXCEPT ![p] = IF v = 3 THEN Opened
                                          ELSE [process[p] EXCEPT !.script = v + 1, !.next = 1]]
  BY SettingStep
<1>2. Len(Script(v)) \in Nat /\ Len(Script(v)) >= 4
  BY ScriptFacts
<1>3. version \in 0..4 /\ version >= v
  BY DEF Typed, ScriptInv, Executes, SchemaVersion
<1>4. ASSUME v < 3
      PROVE  version = v /\ Within(p, v) /\ \A q \in Process : Within(q, v) => q = p
  <2>1. v \in 0..2 /\ process[p].next <= Len(Script(v))
    BY <1>2, <1>4
  <2>2. version = v /\ \A q \in Process : Within(q, v) => q = p
    BY <2>1, AloneAtVersion
  <2>3. process[p].next > 1 /\ Migrates(p)
    BY <1>2 DEF Executes
  <2> QED BY <2>2, <2>3 DEF Within
<1>5. version' >= version
  BY <1>1, <1>3, <1>4
<1>6. /\ v = 3 => ~Migrates(p)'
      /\ v < 3 => process'[p].script = v + 1 /\ process'[p].next = 1
      /\ \A q \in Process : q # p => process'[q] = process[q]
  BY <1>1 DEF Typed, Migrates, Opened, Closed
<1>7. ASSUME NEW q \in Process, Migrates(q)'
      PROVE  version' >= process'[q].script /\ process'[q].next <= Len(Script(process'[q].script))
  <2>1. CASE q = p
    <3>1. v < 3 /\ v + 1 \in 0..3
      BY <1>6, <1>7, <2>1
    <3>2. Len(Script(v + 1)) \in Nat /\ Len(Script(v + 1)) >= 4
      BY <3>1, ScriptFacts
    <3> QED BY <1>1, <1>6, <2>1, <3>1, <3>2
  <2>2. CASE q # p
    <3>1. process'[q] = process[q] /\ Migrates(q) /\ process[q].script \in 0..3
      BY <1>6, <1>7, <2>2 DEF Migrates, Typed
    <3>2. version >= process[q].script /\ process[q].next <= Len(Script(process[q].script))
      BY <3>1 DEF ScriptInv
    <3>3. version' >= process[q].script
      BY <1>1, <1>3, <1>5, <3>1, <3>2
    <3> QED BY <3>1, <3>2, <3>3
  <2> QED BY <2>1, <2>2
<1>8. \A q \in Process, u \in 0..2 : ~Within(q, u)'
  <2> SUFFICES ASSUME NEW q \in Process, NEW u \in 0..2, Within(q, u)' PROVE FALSE
    OBVIOUS
  <2>1. q # p
    BY <1>6 DEF Within
  <2>2. Within(q, u)
    BY <1>6, <2>1 DEF Within, Migrates
  <2>3. version = u
    BY <2>2 DEF ScriptInv
  <2> QED BY <1>3, <1>4, <2>1, <2>2, <2>3
<1>9. Promised(version') \ Moving \subseteq objects'
  <2> SUFFICES ASSUME NEW o \in Promised(v + 1), o \notin Moving PROVE o \in objects
    BY <1>1
  <2>1. PICK u \in 0..v : o \in Made(u)
    BY DEF Promised
  <2>2. CASE u < v
    <3>1. u \in 0..(version - 1)
      BY <1>3, <2>2
    <3> QED BY <2>1, <3>1 DEF Promised, ScriptInv
  <2>3. CASE u = v /\ v = 3
    BY <2>1, <2>3, FourthMade DEF Moving
  <2>4. CASE u = v /\ v < 3
    <3>1. PICK k \in 1..(Len(Script(v)) - 1) : Script(v)[k].what = o
      BY <2>1, <2>4, MadeFacts
    <3> QED BY <1>4, <2>4, <3>1 DEF ScriptInv
  <2> QED BY <2>2, <2>3, <2>4
<1> QED BY <1>5, <1>7, <1>8, <1>9 DEF ScriptInv

LEMMA ExchangingKeepsScripts ==
  ASSUME Typed, ScriptInv, NEW p \in Process, Executes(p), Typed',
         process[p].script = 3, process[p].next < 6
  PROVE  ScriptInv'
<1>1. /\ version' = version /\ process[p].next \in 1..5
      /\ process' = [process EXCEPT ![p] = [process[p] EXCEPT !.next = @ + 1]]
  BY ExchangingStep
<1>2. objects \ Moving \subseteq objects'
  <2>1. process[p].next = 1 \/ process[p].next = 2 \/ process[p].next = 3
        \/ process[p].next = 4 \/ process[p].next = 5
    BY <1>1
  <2>2. \/ objects' = objects \cup {"leases_v4"} \/ objects' = objects
        \/ objects' = objects \ {"leases", "leases_stage"}
        \/ objects' = (objects \ {"leases_v4"}) \cup {"leases"}
        \/ objects' = objects \cup {"leases_stage"}
    BY <2>1, ExchangingStep
  <2> QED BY <2>2 DEF Moving
<1>3. /\ process'[p].script = 3 /\ process'[p].next <= 6
      /\ \A q \in Process : q # p => process'[q] = process[q]
  BY <1>1 DEF Typed
<1>4. Migrates(p) /\ Len(Script(3)) = 6
  BY FourthScript DEF Executes, Script
<1>5. ASSUME NEW q \in Process, Migrates(q)'
      PROVE  version' >= process'[q].script /\ process'[q].next <= Len(Script(process'[q].script))
  <2>1. CASE q = p
    BY <1>1, <1>3, <1>4, <2>1 DEF ScriptInv
  <2>2. CASE q # p
    BY <1>1, <1>3, <1>5, <2>2 DEF ScriptInv, Migrates
  <2> QED BY <2>1, <2>2
<1>6. \A q \in Process, u \in 0..2 :
        Within(q, u)' => Within(q, u) /\ process'[q] = process[q]
  BY <1>3 DEF Within, Migrates
<1>7. Promised(version') \ Moving \subseteq objects'
  BY <1>1, <1>2 DEF ScriptInv
<1> QED BY <1>1, <1>2, <1>5, <1>6, <1>7 DEF ScriptInv

LEMMA ExecutesScripts ==
  ASSUME Typed, ScriptInv, NEW p \in Process, Executes(p)
  PROVE  Typed' /\ ScriptInv' /\ version' >= version
<1>1. Typed'
  BY ExecutesTyped
<1>2. version \in Int /\ process[p].script \in 0..3
  BY DEF Typed, SchemaVersion
<1>3. CASE process[p].script \in 0..2 /\ process[p].next < Len(Script(process[p].script))
  <2>1. PICK v \in 0..2 : v = process[p].script
    BY <1>3
  <2>2. ScriptInv'
    BY <1>1, <1>3, <2>1, MakingKeepsScripts
  <2>3. version' = version
    <3>1. PICK o : o = Script(v)[process[p].next].what
      OBVIOUS
    <3> QED BY <1>3, <2>1, <3>1, MakingStep
  <2> QED BY <1>1, <1>2, <2>2, <2>3
<1>4. CASE process[p].next = Len(Script(process[p].script))
  BY <1>1, <1>2, <1>4, SettingKeepsScripts
<1>5. CASE process[p].script = 3 /\ process[p].next < 6
  <2>1. version' = version
    BY <1>5, ExchangingStep
  <2> QED BY <1>1, <1>2, <1>5, <2>1, ExchangingKeepsScripts
<1> QED BY <1>3, <1>4, <1>5, StepCases

LEMMA MakingKeepsLeases ==
  ASSUME Typed, ScriptInv, ExchangeInv, NEW p \in Process, Executes(p),
         NEW v \in 0..2, process[p].script = v, process[p].next < Len(Script(v))
  PROVE  ExchangeInv'
<1>1. PICK o : o = Script(v)[process[p].next].what
  OBVIOUS
<1>2. /\ version' = version /\ rows' = rows /\ held' = held /\ objects' = objects \cup {o}
      /\ process' = [process EXCEPT ![p] = [process[p] EXCEPT !.next = @ + 1]]
      /\ o # "leases_v4" /\ (o = "leases" => v = 0 /\ o \notin objects)
  BY <1>1, MakingStep
<1>3. version = v
  <2>1. Len(Script(v)) \in Nat
    BY ScriptFacts
  <2>2. process[p].next <= Len(Script(v))
    BY <2>1 DEF Typed
  <2> QED BY <2>2, AloneAtVersion
<1>4. "leases_v4" \notin objects /\ rows.leases_v4 = {}
  BY <1>3 DEF ExchangeInv, Typed
<1>5. \A q \in Process : ~Exchanges(q)'
  <2> SUFFICES ASSUME NEW q \in Process, Exchanges(q)' PROVE FALSE
    OBVIOUS
  <2>1. process'[q].script = process[q].script /\ q # p
    BY <1>2 DEF Typed, Exchanges
  <2>2. Migrates(q) /\ process[q].script = 3
    BY <1>2, <2>1 DEF Exchanges, Migrates
  <2> QED BY <1>3, <2>2 DEF ScriptInv
<1>6. LeasesKept'
  <2>1. CASE o = "leases"
    <3>1. "leases" \notin objects /\ held = {} /\ rows.leases = {}
      BY <1>2, <1>4, <2>1 DEF ExchangeInv, LeasesKept, Typed
    <3> QED BY <1>2, <2>1, <3>1 DEF LeasesKept
  <2>2. CASE o # "leases"
    BY <1>2, <2>2 DEF ExchangeInv, LeasesKept
  <2> QED BY <2>1, <2>2
<1> QED BY <1>2, <1>4, <1>5, <1>6 DEF ExchangeInv

LEMMA SettingKeepsLeases ==
  ASSUME Typed, ScriptInv, ExchangeInv, NEW p \in Process, Executes(p),
         NEW v \in 0..3, process[p].script = v, process[p].next = Len(Script(v))
  PROVE  ExchangeInv'
<1>1. /\ version' = v + 1 /\ rows' = rows /\ held' = held /\ objects' = objects
      /\ process' = [process EXCEPT ![p] = IF v = 3 THEN Opened
                                          ELSE [process[p] EXCEPT !.script = v + 1, !.next = 1]]
  BY SettingStep
<1>2. version' >= version
  <2>1. Typed'
    BY ExecutesTyped
  <2> QED BY <2>1, SettingKeepsScripts
<1>3. \A q \in Process : Exchanges(q)' => Exchanges(q) /\ process'[q] = process[q]
  <2> SUFFICES ASSUME NEW q \in Process, Exchanges(q)' PROVE Exchanges(q) /\ process'[q] = process[q]
    OBVIOUS
  <2>1. q # p
    BY <1>1 DEF Typed, Exchanges, Migrates, Opened, Closed
  <2> QED BY <1>1, <2>1 DEF Exchanges, Migrates
<1>4. version' < 3 => "leases_v4" \notin objects'
  BY <1>1, <1>2 DEF ExchangeInv, Typed, SchemaVersion
<1>5. LeasesKept'
  BY <1>1 DEF ExchangeInv, LeasesKept
<1> QED BY <1>1, <1>3, <1>4, <1>5 DEF ExchangeInv

LEMMA ExchangingKeepsLeases ==
  ASSUME Typed, ScriptInv, ExchangeInv, NEW p \in Process, Executes(p),
         process[p].script = 3, process[p].next < 6
  PROVE  ExchangeInv'
<1>1. /\ version' = version /\ held' = held /\ process[p].next \in 1..5 /\ Migrates(p)
      /\ process' = [process EXCEPT ![p] = [process[p] EXCEPT !.next = @ + 1]]
  BY ExchangingStep DEF Executes
<1>2. /\ Migrates(p)' /\ process'[p].script = 3 /\ process'[p].next = process[p].next + 1
      /\ \A q \in Process : q # p => process'[q] = process[q]
  BY <1>1 DEF Typed, Migrates
<1>3. \A q \in Process : q # p => (Exchanges(q)' <=> Exchanges(q))
  BY <1>2 DEF Exchanges, Migrates
<1>4. version >= 3 /\ version \in Int
  BY <1>1 DEF ScriptInv, Typed, SchemaVersion
<1>5. rows = [leases |-> rows.leases, leases_v4 |-> rows.leases_v4]
  BY DEF Typed
<1>6. CASE process[p].next = 1
  <2>1. "leases_v4" \notin objects /\ objects' = objects \cup {"leases_v4"} /\ rows' = rows
    BY <1>6, ExchangingStep
  <2>2. rows.leases_v4 = {} /\ \A q \in Process : ~Exchanges(q)
    BY <2>1 DEF ExchangeInv, Typed
  <2>3. LeasesKept'
    BY <1>1, <2>1 DEF ExchangeInv, LeasesKept
  <2>4. process'[p].next = 2
    BY <1>2, <1>6
  <2> QED BY <1>1, <1>3, <1>4, <2>1, <2>2, <2>3, <2>4 DEF ExchangeInv
<1>7. CASE process[p].next = 2
  <2>1. /\ {"leases", "leases_v4"} \subseteq objects /\ objects' = objects
        /\ rows' = [rows EXCEPT !.leases_v4 = @ \cup rows.leases]
    BY <1>7, ExchangingStep
  <2>2. Exchanges(p)
    BY <1>1, <1>7 DEF Exchanges
  <2>3. rows.leases_v4 = {} /\ \A q \in Process : Exchanges(q) => q = p
    BY <1>7, <2>2 DEF ExchangeInv
  <2>4. rows'.leases = rows.leases /\ rows'.leases_v4 = rows.leases
    BY <2>1, <2>3 DEF Typed
  <2>5. LeasesKept'
    BY <1>1, <2>1, <2>4 DEF ExchangeInv, LeasesKept
  <2>6. process'[p].next = 3
    BY <1>2, <1>7
  <2> QED BY <1>1, <1>3, <1>4, <2>1, <2>3, <2>4, <2>5, <2>6 DEF ExchangeInv
<1>8. CASE process[p].next = 3
  <2>1. /\ "leases" \in objects /\ objects' = objects \ {"leases", "leases_stage"}
        /\ rows' = [rows EXCEPT !.leases = {}]
    BY <1>8, ExchangingStep
  <2>2. Exchanges(p)
    BY <1>1, <1>8 DEF Exchanges
  <2>3. /\ rows.leases_v4 = rows.leases /\ \A q \in Process : Exchanges(q) => q = p
        /\ "leases_v4" \in objects
    BY <1>8, <2>2 DEF ExchangeInv
  <2>4. rows'.leases_v4 = rows.leases_v4
    BY <2>1 DEF Typed
  <2>5. LeasesKept'
    BY <1>1, <2>1, <2>3, <2>4 DEF ExchangeInv, LeasesKept
  <2>6. process'[p].next = 4
    BY <1>2, <1>8
  <2> QED BY <1>1, <1>3, <1>4, <2>1, <2>3, <2>4, <2>5, <2>6 DEF ExchangeInv
<1>9. CASE process[p].next = 4
  <2>1. /\ "leases" \notin objects /\ objects' = (objects \ {"leases_v4"}) \cup {"leases"}
        /\ rows' = [leases |-> rows.leases_v4, leases_v4 |-> {}]
    BY <1>9, ExchangingStep
  <2>2. Exchanges(p)
    BY <1>1, <1>9 DEF Exchanges
  <2>3. \A q \in Process : Exchanges(q) => q = p
    BY <2>2 DEF ExchangeInv
  <2>4. LeasesKept'
    BY <1>1, <2>1 DEF ExchangeInv, LeasesKept
  <2>5. process'[p].next = 5
    BY <1>2, <1>9
  <2>6. \A q \in Process : ~Exchanges(q)'
    BY <1>3, <2>3, <2>5 DEF Exchanges
  <2> QED BY <1>1, <1>4, <2>4, <2>6 DEF ExchangeInv
<1>10. CASE process[p].next = 5
  <2>1. objects' = objects \cup {"leases_stage"} /\ rows' = rows
    BY <1>10, ExchangingStep
  <2>2. process'[p].next = 6
    BY <1>2, <1>10
  <2>3. ~Exchanges(p)'
    BY <2>2 DEF Exchanges
  <2>4. LeasesKept'
    BY <1>1, <2>1 DEF ExchangeInv, LeasesKept
  <2> QED BY <1>1, <1>2, <1>3, <1>4, <2>1, <2>3, <2>4 DEF ExchangeInv
<1>11. process[p].next = 1 \/ process[p].next = 2 \/ process[p].next = 3
       \/ process[p].next = 4 \/ process[p].next = 5
  BY <1>1
<1> QED BY <1>6, <1>7, <1>8, <1>9, <1>10, <1>11

LEMMA ExecutesLeases ==
  ASSUME Typed, ScriptInv, ExchangeInv, NEW p \in Process, Executes(p)
  PROVE  ExchangeInv'
<1>1. process[p].script \in 0..3
  BY DEF Typed
<1>2. CASE process[p].script \in 0..2 /\ process[p].next < Len(Script(process[p].script))
  <2>1. PICK v \in 0..2 : v = process[p].script
    BY <1>2
  <2> QED BY <1>2, <2>1, MakingKeepsLeases
<1>3. CASE process[p].next = Len(Script(process[p].script))
  BY <1>1, <1>3, SettingKeepsLeases
<1>4. CASE process[p].script = 3 /\ process[p].next < 6
  BY <1>4, ExchangingKeepsLeases
<1> QED BY <1>2, <1>3, <1>4, StepCases

\* Connecting, failing and ending leave the database as it is.
LEMMA ProcessMoves ==
  ASSUME Typed, ScriptInv, NEW p \in Process, Opens(p) \/ Raises(p) \/ Ends(p)
  PROVE  /\ Typed' /\ ScriptInv' /\ version' = version
         /\ ExchangeInv => ExchangeInv'
<1>1. PICK w : /\ process' = [process EXCEPT ![p] = w]
               /\ UNCHANGED <<version, objects, rows, held>>
               /\ \/ w.at # "migrating"
                  \/ w.script = version /\ w.next = 1 /\ version \in 0..3
               /\ w \in [at : {"closed", "migrating", "opened", "failed"}, script : 0..3, next : Nat \ {0}]
  <2>1. CASE Opens(p) /\ version = SchemaVersion
    <3>1. process' = [process EXCEPT ![p] = Opened] /\ UNCHANGED <<version, objects, rows, held>>
      BY <2>1 DEF Opens, Now
    <3>2. Opened.at # "migrating" /\ Opened
            \in [at : {"closed", "migrating", "opened", "failed"}, script : 0..3, next : Nat \ {0}]
      BY DEF Opened, Closed
    <3> QED BY <3>1, <3>2, Zenon
  <2>2. CASE Opens(p) /\ version # SchemaVersion
    <3>1. /\ process' = [process EXCEPT ![p] = [at |-> "migrating", script |-> version, next |-> 1]]
          /\ UNCHANGED <<version, objects, rows, held>>
      BY <2>2 DEF Opens, Now
    <3>2. version \in 0..3
      BY <2>2 DEF Typed, SchemaVersion
    <3> DEFINE w == [at |-> "migrating", script |-> version, next |-> 1]
    <3>3. w.script = version /\ w.next = 1
          /\ w \in [at : {"closed", "migrating", "opened", "failed"}, script : 0..3, next : Nat \ {0}]
      BY <3>2
    <3> HIDE DEF w
    <3>4. process' = [process EXCEPT ![p] = w]
      BY <3>1 DEF w
    <3> QED BY <3>1, <3>2, <3>3, <3>4, Zenon
  <2>3. CASE Raises(p)
    <3>1. process' = [process EXCEPT ![p] = [Closed EXCEPT !.at = "failed"]]
          /\ UNCHANGED <<version, objects, rows, held>>
      BY <2>3 DEF Raises, Now
    <3>2. [Closed EXCEPT !.at = "failed"].at # "migrating" /\ [Closed EXCEPT !.at = "failed"]
            \in [at : {"closed", "migrating", "opened", "failed"}, script : 0..3, next : Nat \ {0}]
      BY DEF Closed
    <3> QED BY <3>1, <3>2, Zenon
  <2>4. CASE Ends(p)
    <3>1. process' = [process EXCEPT ![p] = Closed] /\ UNCHANGED <<version, objects, rows, held>>
      BY <2>4 DEF Ends, Now
    <3>2. Closed.at # "migrating" /\ Closed
            \in [at : {"closed", "migrating", "opened", "failed"}, script : 0..3, next : Nat \ {0}]
      BY DEF Closed
    <3> QED BY <3>1, <3>2, Zenon
  <2> QED BY <2>1, <2>2, <2>3, <2>4
<1>2. Typed'
  BY <1>1 DEF Typed
<1>3. process'[p] = w /\ \A q \in Process : q # p => process'[q] = process[q]
  BY <1>1 DEF Typed
<1>4. \A q \in Process, u \in 0..2 : Within(q, u)' => q # p /\ Within(q, u) /\ process'[q] = process[q]
  BY <1>1, <1>3 DEF Within, Migrates
<1>5. \A q \in Process : Exchanges(q)' => q # p /\ Exchanges(q) /\ process'[q] = process[q]
  BY <1>1, <1>3 DEF Exchanges, Migrates
<1>6. ASSUME NEW q \in Process, Migrates(q)'
      PROVE  version' >= process'[q].script /\ process'[q].next <= Len(Script(process'[q].script))
  <2>1. CASE q = p
    <3>1. process'[q].script = version /\ process'[q].next = 1 /\ version \in 0..3
      BY <1>1, <1>3, <1>6, <2>1 DEF Migrates
    <3>2. Len(Script(version)) \in Nat /\ Len(Script(version)) >= 4
      BY <3>1, ScriptFacts
    <3> QED BY <1>1, <3>1, <3>2
  <2>2. CASE q # p
    BY <1>1, <1>3, <1>6, <2>2 DEF ScriptInv, Migrates
  <2> QED BY <2>1, <2>2
<1>7. ScriptInv'
  BY <1>1, <1>4, <1>6 DEF ScriptInv
<1>8. ExchangeInv => ExchangeInv'
  BY <1>1, <1>5 DEF ExchangeInv, LeasesKept
<1> QED BY <1>1, <1>2, <1>7, <1>8

\* The leases that are taken and given up.
LEMMA LeaseMoves ==
  ASSUME Typed, ScriptInv, NEW p \in Process, NEW l \in Lease, Takes(p, l) \/ Releases(p, l)
  PROVE  /\ Typed' /\ ScriptInv' /\ version' = version
         /\ QuietUpgrade /\ ExchangeInv => ExchangeInv'
<1>1. /\ UNCHANGED <<version, objects, process>> /\ "leases" \in objects /\ Writes(p)
      /\ \/ held' = held \cup {l} /\ rows' = [rows EXCEPT !.leases = @ \cup {l}]
         \/ held' = held \ {l} /\ rows' = [rows EXCEPT !.leases = @ \ {l}]
  BY DEF Takes, Releases
<1>2. Typed'
  BY <1>1 DEF Typed
<1>3. ScriptInv'
  BY <1>1 DEF ScriptInv, Within, Migrates
<1>4. ASSUME QuietUpgrade, ExchangeInv PROVE ExchangeInv'
  <2>1. \A q \in Process : ~Exchanges(q)'
    BY <1>1, <1>4 DEF Writes, Exchanges, Migrates
  <2>2. LeasesKept'
    <3>1. held = rows.leases
      BY <1>1, <1>4 DEF ExchangeInv, LeasesKept
    <3>2. \/ held' = held \cup {l} /\ rows'.leases = rows.leases \cup {l}
          \/ held' = held \ {l} /\ rows'.leases = rows.leases \ {l}
      BY <1>1 DEF Typed
    <3> QED BY <1>1, <3>1, <3>2 DEF LeasesKept
  <2> QED BY <1>1, <1>4, <2>1, <2>2 DEF ExchangeInv
<1> QED BY <1>1, <1>2, <1>3, <1>4

LEMMA EveryStep ==
  ASSUME Typed, ScriptInv, [Next]_vars
  PROVE  /\ Typed' /\ ScriptInv' /\ version' >= version
         /\ QuietUpgrade /\ ExchangeInv => ExchangeInv'
<1>1. version \in Int
  BY DEF Typed, SchemaVersion
<1>2. CASE UNCHANGED vars
  BY <1>1, <1>2 DEF vars, Typed, ScriptInv, Within, Migrates, ExchangeInv, Exchanges, LeasesKept
<1>3. ASSUME NEW p \in Process, Executes(p)
      PROVE  /\ Typed' /\ ScriptInv' /\ version' >= version
             /\ QuietUpgrade /\ ExchangeInv => ExchangeInv'
  BY <1>3, ExecutesScripts, ExecutesLeases
<1>4. ASSUME NEW p \in Process, Opens(p) \/ Raises(p) \/ Ends(p)
      PROVE  /\ Typed' /\ ScriptInv' /\ version' >= version
             /\ QuietUpgrade /\ ExchangeInv => ExchangeInv'
  BY <1>1, <1>4, ProcessMoves
<1>5. ASSUME NEW p \in Process, NEW l \in Lease, Takes(p, l) \/ Releases(p, l)
      PROVE  /\ Typed' /\ ScriptInv' /\ version' >= version
             /\ QuietUpgrade /\ ExchangeInv => ExchangeInv'
  BY <1>1, <1>5, LeaseMoves
<1> QED BY <1>2, <1>3, <1>4, <1>5 DEF Next

-----------------------------------------------------------------------------
(* The theorems.                                                           *)

LEMMA AlwaysScripts == Spec => [](Typed /\ ScriptInv)
<1>1. Init => Typed /\ ScriptInv
  BY AtFirst
<1>2. (Typed /\ ScriptInv) /\ [Next]_vars => (Typed /\ ScriptInv)'
  BY EveryStep
<1> QED BY <1>1, <1>2, PTL DEF Spec

\* Types; and the version a state database has never promises a table, an index
\* or a column that is not there, however many commands open it together and
\* whichever of them are killed in whichever script (_migrate).
THEOREM AlwaysSchemaSound == Spec => []SchemaSound
<1>1. Typed /\ ScriptInv => SchemaSound
  <2> SUFFICES ASSUME Typed, ScriptInv PROVE SchemaSound
    OBVIOUS
  <2>1. \A p \in Process :
          /\ process[p].at \in {"closed", "migrating", "opened", "failed"}
          /\ Migrates(p) => process[p].next \in 1..Len(Script(process[p].script))
    <3> SUFFICES ASSUME NEW p \in Process
                 PROVE  /\ process[p].at \in {"closed", "migrating", "opened", "failed"}
                        /\ Migrates(p) => process[p].next \in 1..Len(Script(process[p].script))
      OBVIOUS
    <3>1. process[p].script \in 0..3 /\ process[p].next \in Nat \ {0}
          /\ process[p].at \in {"closed", "migrating", "opened", "failed"}
      BY DEF Typed
    <3>2. Len(Script(process[p].script)) \in Nat
      BY <3>1, ScriptFacts
    <3> QED BY <3>1, <3>2 DEF ScriptInv
  <2>2. "leases_v4" \notin Promised(version)
    BY DEF Promised, Made
  <2>3. Promised(version) \ {"leases", "leases_stage"} \subseteq objects
    BY <2>2 DEF ScriptInv, Moving
  <2>4. \A t \in DOMAIN rows : rows[t] \subseteq Lease /\ (rows[t] # {} => t \in objects)
    BY DEF Typed
  <2> QED BY <2>1, <2>3, <2>4 DEF SchemaSound, Typed
<1> QED BY <1>1, AlwaysScripts, PTL

\* The version never falls: a command that read it before another one raised it
\* fails at its first statement, before it sets its own.
THEOREM VersionNeverFalls == Spec => VersionRises
<1>1. Typed /\ ScriptInv /\ [Next]_vars => [version' >= version]_vars
  BY EveryStep
<1> QED BY <1>1, AlwaysScripts, PTL DEF Spec, VersionRises

\* Where nothing is written while a command migrates, no lease is lost and none
\* comes back, wherever commands are killed in the exchange of the table.
THEOREM NoLeaseLost == QuietUpgrade /\ Spec => []LeasesKept
<1> SUFFICES ASSUME QuietUpgrade PROVE Spec => []LeasesKept
  OBVIOUS
<1> DEFINE Inv == Typed /\ ScriptInv /\ ExchangeInv
<1>1. Init => Inv
  BY AtFirst
<1>2. Inv /\ [Next]_vars => Inv'
  BY EveryStep
<1>3. Inv => LeasesKept
  BY DEF ExchangeInv
<1> HIDE DEF Inv
<1> QED BY <1>1, <1>2, <1>3, PTL DEF Spec

=============================================================================
