---------------------------- MODULE StageProofs ----------------------------
(***************************************************************************)
(* What holds of the stages of one task: of the processes of a Unity stage *)
(* on the local host (LocalAttempt), and of the files that pass from stage *)
(* to stage, from Unity's export to Unity's import (StageInputs, the last  *)
(* part of the module).                                                    *)
(*                                                                         *)
(* A Unity stage, for every number of attempts and on either platform: who *)
(* has the lease and what is executing.                                    *)
(*                                                                         *)
(* The files, for every set of pictures, every number of retries and       *)
(* whatever the tools leave out: a file that goes by the name a stage asks *)
(* for is the file that is meant (SceneName to InputName), so what a plan  *)
(* takes depends on nothing but what the stages before it have committed;  *)
(* the inductive invariant InputsInv says what that is (HandedInv).        *)
(***************************************************************************)
EXTENDS LocalAttempt, StageInputs, FiniteSetTheorems, WellFoundedInduction, TLAPS

-----------------------------------------------------------------------------
(* Types, and the numbering of the attempts.                               *)

LeaseType   == [of : 0..MaxAttempts, expired : BOOLEAN, revoked : BOOLEAN, known : BOOLEAN]
WorkerType  == [pc : {"off", "guard", "spawn", "bind", "mark", "poll", "result", "submit"},
                code : {"-", "ok", "invalid_input", "worker_crash", "stalled", "compile_or_contract"},
                clean : BOOLEAN]
JanitorType == [pc : {"idle", "clean", "settle"}, of : 0..MaxAttempts, known : BOOLEAN, clean : BOOLEAN,
                recovers : BOOLEAN]
RowType     == {"none", "open", "over", "succeeded"}
TreeType    == {"none", "wrapper", "up", "left", "gone"}
StateType   == {"ready", "leased", "running", "recovering"} \cup Terminal

GcType      == [pc : {"idle", "read", "listed"}, active : SUBSET Attempt, found : SUBSET Attempt]

Typed ==
  /\ platform \in Platforms
  /\ state \in StateType
  /\ lease \in LeaseType
  /\ row \in [Attempt -> RowType]
  /\ tree \in [Attempt -> TreeType]
  /\ job \in [Attempt -> BOOLEAN]
  /\ worker \in [Attempt -> WorkerType]
  /\ janitor \in JanitorType
  /\ gc \in GcType

\* The attempts are numbered in the order of their leases.
Numbered(n) == n \in 0..MaxAttempts /\ \A a \in Attempt : row[a] # "none" <=> a <= n

LEMMA NextAttempt == ASSUME NEW n, Numbered(n) PROVE Next1 = n + 1
<1>1. n \in Nat /\ MaxAttempts \in Nat
  BY LocalAssumption DEF Numbered
<1>2. {a \in Attempt : row[a] # "none"} = 1..n
  BY <1>1 DEF Numbered, Attempt
<1>3. Cardinality(1..n) = n
  BY <1>1, FS_Interval
<1> QED BY <1>2, <1>3 DEF Next1

\* Only a lease adds an attempt.
LEMMA Renumbered ==
  ASSUME NEW n, Numbered(n), MaxAttempts \in Nat, \A a \in Attempt : row'[a] # "none" <=> row[a] # "none"
  PROVE  Numbered(n)' /\ Next1' = Next1
<1>1. Numbered(n)'
  BY DEF Numbered
<1>2. Next1' = n + 1
  <2>1. {a \in Attempt : row'[a] # "none"} = {a \in Attempt : row[a] # "none"}
    OBVIOUS
  <2> QED BY <2>1, NextAttempt DEF Next1
<1> QED BY <1>1, <1>2, NextAttempt

-----------------------------------------------------------------------------
(* The lease and the janitor, whatever the deployment.                     *)

\* The lease belongs to the newest attempt.  While it is not revoked the stage is
\* executing; while a janitor works on it it is, and nothing but a recovery of an
\* expired lease leads back to a stage that is not settled.
LeaseInv ==
  /\ Numbered(Next1 - 1)
  /\ lease.of = 0 => lease = NoLease
  /\ lease.of # 0 => lease.of = Next1 - 1
  /\ state = "ready" => lease.of = 0
  /\ state \in {"leased", "running", "recovering"} => lease.of # 0
  /\ lease.of # 0 /\ ~lease.revoked => state \in {"leased", "running"}
  /\ janitor.pc = "idle" => janitor = Idle
  /\ janitor.pc # "idle" =>
       /\ lease.of = janitor.of /\ lease.of # 0 /\ lease.revoked /\ janitor.known = lease.known
       /\ janitor.recovers => lease.expired /\ state \notin Terminal
       /\ ~janitor.recovers => state \in Terminal

\* Nothing runs of an attempt that has not been leased; only Windows has jobs
\* apart from the wrapper.
UnleasedInv ==
  \A a \in Attempt :
    /\ a >= Next1 => worker[a] = Off /\ tree[a] = "none"
    /\ job[a] \/ worker[a].pc = "bind" => platform = "windows"
    /\ tree[a] = "wrapper" => platform = "wsl"

\* What the worker of an attempt knows of its processes ...
WorkerKnows(a) ==
  /\ worker[a].pc \in {"guard", "spawn"} => tree[a] = "none"
  /\ worker[a].pc = "result" => ~RootAlive(a)
  /\ worker[a].pc \in {"mark", "poll"} /\ platform = "windows" => job[a]
  /\ worker[a].pc \in {"guard", "spawn", "bind", "mark"} => ~(lease.of = a /\ lease.known)
  /\ worker[a].pc = "submit" /\ worker[a].code = "ok" => worker[a].clean
  /\ worker[a].pc = "submit" /\ worker[a].clean /\ Held(a) => ~RootAlive(a)

\* ... and a janitor of those of a lease.
JanitorKnows == janitor.pc = "settle" /\ janitor.clean /\ janitor.known => ~RootAlive(janitor.of)

ProcessInv == JanitorKnows /\ \A a \in Attempt : WorkerKnows(a)

\* What is still starting belongs to the newest attempt, under its lease or after
\* the stage was settled for good; and beside an open Unity no other is started.
StartInv ==
  /\ \A a \in Attempt : Starting(a) => a = Next1 - 1 /\ (state \in Terminal \/ lease.of = a)
  /\ \A a \in Attempt : lease.of = a /\ lease.expired => ~Starting(a)
  /\ \A a, b \in Attempt : tree[a] = "up" /\ (At(b, "spawn") \/ tree[b] \in {"wrapper", "up"}) => a = b

\* A step of the worker or of the processes of one attempt.
Works(a) ==
  \/ Guards(a) \/ Spawns(a) \/ Binds(a) \/ Marks(a) \/ MarkThrows(a) \/ HeartbeatThrows(a) \/ Exits(a)
  \/ TimesOut(a) \/ ReadsResult(a) \/ Submits(a) \/ WorkerDies(a)
  \/ WrapperStarts(a) \/ UnityExits(a) \/ RestExits(a)

LEMMA Initially == Init => Typed /\ LeaseInv /\ UnleasedInv /\ ProcessInv /\ StartInv
<1> SUFFICES ASSUME Init PROVE Typed /\ LeaseInv /\ UnleasedInv /\ ProcessInv /\ StartInv
  OBVIOUS
<1> USE DEF Init, NoLease, Off, Idle
<1>1. Numbered(0) /\ Next1 = 1
  <2>1. Numbered(0)
    BY LocalAssumption DEF Numbered, Attempt
  <2> QED BY <2>1, NextAttempt
<1>2. Typed
  BY LocalAssumption DEF Typed, LeaseType, WorkerType, JanitorType, RowType, TreeType, StateType, GcType, NoGc
<1>3. LeaseInv /\ UnleasedInv
  BY <1>1 DEF LeaseInv, UnleasedInv
<1>4. ProcessInv /\ StartInv
  BY <1>1 DEF ProcessInv, WorkerKnows, JanitorKnows, StartInv, Starting, RootAlive, Held, At
<1> QED BY <1>2, <1>3, <1>4

\* A step of one worker leaves the others where they are.
LEMMA WorkerMoves ==
  ASSUME worker \in [Attempt -> WorkerType], NEW a \in Attempt
  PROVE  /\ \A pc \in {"guard", "spawn", "bind", "mark", "poll", "result"} : Goes(a, pc) =>
              /\ worker' \in [Attempt -> WorkerType]
              /\ worker'[a].pc = pc
              /\ \A b \in Attempt : b # a => worker'[b] = worker[b]
         /\ Leaves(a) =>
              /\ worker' \in [Attempt -> WorkerType]
              /\ worker'[a] = Off /\ worker'[a].pc = "off"
              /\ \A b \in Attempt : b # a => worker'[b] = worker[b]
         /\ \A code \in {"ok", "invalid_input", "worker_crash", "stalled", "compile_or_contract"}, clean \in BOOLEAN :
              Ends(a, code, clean) =>
              /\ worker' \in [Attempt -> WorkerType]
              /\ worker'[a].pc = "submit" /\ worker'[a].code = code /\ worker'[a].clean = clean
              /\ \A b \in Attempt : b # a => worker'[b] = worker[b]
<1>1. \A pc \in {"guard", "spawn", "bind", "mark", "poll", "result"} :
        [worker[a] EXCEPT !.pc = pc] \in WorkerType /\ [worker[a] EXCEPT !.pc = pc].pc = pc
  BY DEF WorkerType
<1>2. Off \in WorkerType /\ Off.pc = "off"
  BY DEF Off, WorkerType
<1>3. \A code \in {"ok", "invalid_input", "worker_crash", "stalled", "compile_or_contract"}, clean \in BOOLEAN :
        [pc |-> "submit", code |-> code, clean |-> clean] \in WorkerType
  BY DEF WorkerType
<1>4. ASSUME NEW v \in WorkerType, worker' = [worker EXCEPT ![a] = v]
      PROVE  worker' \in [Attempt -> WorkerType] /\ worker'[a] = v /\ \A b \in Attempt : b # a => worker'[b] = worker[b]
  BY <1>4
<1>5. ASSUME NEW pc \in {"guard", "spawn", "bind", "mark", "poll", "result"}, Goes(a, pc)
      PROVE  worker' = [worker EXCEPT ![a] = [worker[a] EXCEPT !.pc = pc]]
  BY <1>5 DEF Goes
<1>6. ASSUME NEW pc \in {"guard", "spawn", "bind", "mark", "poll", "result"}, Goes(a, pc)
      PROVE  /\ worker' \in [Attempt -> WorkerType] /\ worker'[a].pc = pc
             /\ \A b \in Attempt : b # a => worker'[b] = worker[b]
  BY <1>6, <1>1, <1>4, <1>5
<1>7. ASSUME Leaves(a)
      PROVE  /\ worker' \in [Attempt -> WorkerType] /\ worker'[a] = Off
             /\ \A b \in Attempt : b # a => worker'[b] = worker[b]
  BY <1>7, <1>2, <1>4 DEF Leaves
<1>8. ASSUME NEW code \in {"ok", "invalid_input", "worker_crash", "stalled", "compile_or_contract"}, NEW clean \in BOOLEAN,
             Ends(a, code, clean)
      PROVE  /\ worker' \in [Attempt -> WorkerType]
             /\ worker'[a].pc = "submit" /\ worker'[a].code = code /\ worker'[a].clean = clean
             /\ \A b \in Attempt : b # a => worker'[b] = worker[b]
  BY <1>8, <1>3, <1>4 DEF Ends
<1> QED BY <1>2, <1>6, <1>7, <1>8

BaseInv == Typed /\ LeaseInv /\ UnleasedInv

\* The facts that the steps below share.
LEMMA BaseFacts ==
  ASSUME BaseInv
  PROVE  /\ MaxAttempts \in Nat /\ Next1 \in Nat /\ Next1 >= 1
         /\ \A a \in Attempt : worker[a].pc # "off" \/ tree[a] # "none" => a < Next1
         /\ lease.of # 0 => lease.of \in Attempt /\ lease.of = Next1 - 1
         /\ Idle.pc = "idle" /\ Off.pc = "off" /\ NoLease.of = 0
         /\ \A a \in Attempt : row[a] # "none" <=> a < Next1
<1>1. Next1 - 1 \in 0..MaxAttempts /\ MaxAttempts \in Nat /\ Next1 \in Nat /\ Next1 >= 1
  <2>1. PICK n : n = Next1 - 1
    OBVIOUS
  <2>2. Numbered(n)
    BY <2>1 DEF BaseInv, LeaseInv
  <2> QED BY <2>2, NextAttempt, LocalAssumption DEF Numbered
<1> QED BY <1>1 DEF BaseInv, LeaseInv, Typed, UnleasedInv, LeaseType, Numbered, Attempt, Off, Idle, NoLease

\* While no attempt is added the numbers stay.
LEMMA SameNumbers ==
  ASSUME BaseInv, \A a \in Attempt : row'[a] # "none" <=> row[a] # "none"
  PROVE  Next1' = Next1 /\ Numbered(Next1 - 1)'
<1>1. PICK n : n = Next1 - 1
  OBVIOUS
<1>2. Numbered(n) /\ MaxAttempts \in Nat
  BY <1>1, BaseFacts DEF BaseInv, LeaseInv
<1>3. Numbered(n)' /\ Next1' = Next1
  BY <1>2, Renumbered
<1> QED BY <1>1, <1>3, BaseFacts

LEMMA TypedNext == ASSUME BaseInv, [Next]_vars PROVE Typed'
<1> USE DEF Typed
<1>t. Typed
  BY DEF BaseInv
<1>l. NoLease \in LeaseType /\ Idle \in JanitorType /\ MaxAttempts \in Nat
  BY LocalAssumption DEF NoLease, LeaseType, Idle, JanitorType
<1>j. \A a \in Attempt : JobCloses(a) => job' \in [Attempt -> BOOLEAN] /\ tree' \in [Attempt -> TreeType]
  BY <1>t DEF JobCloses, TreeType
<1>a. \A clean \in BOOLEAN : LeaseAfter(clean) \in LeaseType
  BY <1>t, <1>l DEF LeaseAfter, LeaseType
<1>1. CASE Leases
  <2>1. Next1 \in Attempt /\ Next1 \in 0..MaxAttempts
    BY <1>1, <1>l DEF Leases, Attempt
  <2>2. [NoLease EXCEPT !.of = Next1] \in LeaseType
    BY <2>1 DEF NoLease, LeaseType
  <2> QED BY <1>1, <1>t, <2>1, <2>2, WorkerMoves DEF Leases, RowType, StateType
<1>2. CASE LeaseExpires
  BY <1>2, <1>t DEF LeaseExpires, LeaseType
<1>3. ASSUME NEW a \in Attempt, Guards(a) \/ Spawns(a) \/ Binds(a) PROVE Typed'
  BY <1>3, <1>t, WorkerMoves DEF Guards, Spawns, Binds, TreeType
<1>4. ASSUME NEW a \in Attempt, Marks(a) PROVE Typed'
  BY <1>4, <1>t, WorkerMoves DEF Marks, LeaseType, StateType
<1>5. ASSUME NEW a \in Attempt, MarkThrows(a) \/ HeartbeatThrows(a) \/ Exits(a) \/ WorkerDies(a) PROVE Typed'
  BY <1>5, <1>t, <1>j, WorkerMoves DEF MarkThrows, HeartbeatThrows, Throws, Exits, WorkerDies
<1>6. ASSUME NEW a \in Attempt, TimesOut(a) \/ ReadsResult(a) PROVE Typed'
  BY <1>6, <1>t, WorkerMoves DEF TimesOut, ReadsResult, TreeType
<1>7. ASSUME NEW a \in Attempt, Submits(a) PROVE Typed'
  <2>1. worker' \in [Attempt -> WorkerType] /\ worker[a].clean \in BOOLEAN
    BY <1>7, <1>t, WorkerMoves DEF Submits, WorkerType
  <2>2. state' \in StateType
    BY <1>7, <1>t DEF Submits, Failed, StateType, Terminal
  <2>3. lease' \in LeaseType /\ row' \in [Attempt -> RowType]
    BY <1>7, <1>t, <1>l, <1>a, <2>1 DEF Submits, RowType
  <2> QED BY <1>7, <1>t, <2>1, <2>2, <2>3 DEF Submits
<1>8. ASSUME NEW a \in Attempt, WrapperStarts(a) \/ UnityExits(a) \/ RestExits(a) PROVE Typed'
  BY <1>8, <1>t DEF WrapperStarts, UnityExits, RestExits, TreeType
<1>9. CASE Recovers \/ Cancels
  <2>1. ASSUME NEW recovers \in BOOLEAN, Revokes(recovers) PROVE lease' \in LeaseType /\ janitor' \in JanitorType
    <3>1. lease.of \in 0..MaxAttempts /\ lease.known \in BOOLEAN /\ [lease EXCEPT !.revoked = TRUE] \in LeaseType
      BY <1>t DEF LeaseType
    <3>2. [pc |-> "clean", of |-> lease.of, known |-> lease.known, clean |-> TRUE, recovers |-> recovers] \in JanitorType
      BY <3>1 DEF JanitorType
    <3> QED BY <2>1, <3>1, <3>2 DEF Revokes
  <2> QED BY <1>9, <1>t, <2>1 DEF Recovers, Cancels, StateType, Terminal
<1>10. CASE Cleans
  <2>1. janitor' \in JanitorType
    BY <1>10, <1>t DEF Cleans, JanitorType, NotOurs
  <2>2. tree' \in [Attempt -> TreeType]
    BY <1>10, <1>t DEF Cleans, TreeType
  <2> QED BY <1>10, <1>t, <2>1, <2>2 DEF Cleans
<1>11. CASE Settles
  <2>1. janitor.clean \in BOOLEAN /\ janitor.of \in 0..MaxAttempts
    BY <1>t DEF JanitorType
  <2>2. Settled \in StateType
    BY <1>t DEF Settled, StateType, Terminal
  <2> QED BY <1>11, <1>t, <1>l, <1>a, <2>1, <2>2 DEF Settles, RowType
<1>12. CASE JanitorDies
  BY <1>12, <1>t, <1>l DEF JanitorDies
<1>13. CASE GcReads \/ GcLists \/ GcDeletes
  <2>1. Active \in SUBSET Attempt
    BY <1>t, <1>l DEF Active, LeaseType, Attempt
  <2>2. NoGc \in GcType
    BY DEF NoGc, GcType
  <2>3. gc' \in GcType
    <3>1. CASE GcReads
      BY <3>1, <2>1, <2>2 DEF GcReads, GcType
    <3>2. CASE GcLists
      <4>1. PICK f \in SUBSET Attempt : gc' = [gc EXCEPT !.pc = "listed", !.found = f]
        BY <3>2 DEF GcLists
      <4>2. gc \in GcType
        BY <1>t
      <4> QED BY <4>1, <4>2 DEF GcType
    <3> QED BY <1>13, <3>1, <3>2, <2>2 DEF GcDeletes
  <2> QED BY <1>13, <1>t, <2>3 DEF GcReads, GcLists, GcDeletes
<1>14. CASE UNCHANGED vars
  BY <1>14, <1>t DEF vars
<1> QED
  BY <1>1, <1>2, <1>3, <1>4, <1>5, <1>6, <1>7, <1>8, <1>9, <1>10, <1>11, <1>12, <1>13, <1>14 DEF Next

LEMMA LeaseInvNext == ASSUME BaseInv, [Next]_vars PROVE LeaseInv'
<1> USE DEF LeaseInv
<1>t. Typed /\ LeaseInv
  BY DEF BaseInv
\* The steps that touch neither the lease nor what the janitor does.
<1>q. ASSUME UNCHANGED <<state, lease, row, janitor>> PROVE LeaseInv'
  BY <1>q, <1>t, SameNumbers
<1>1. CASE Leases
  <2>1. PICK n : n = Next1
    OBVIOUS
  <2>2. CASE UNCHANGED <<state, lease, row>>
    BY <1>1, <2>2, <1>q DEF Leases
  <2>3. CASE row' = [row EXCEPT ![Next1] = "open"] /\ lease' = [NoLease EXCEPT !.of = Next1] /\ state' = "leased"
    <3>1. Numbered(n)' /\ n \in Attempt
      BY <1>1, <2>1, <2>3, BaseFacts, <1>t DEF Leases, Numbered, Attempt, Typed
    <3>2. Next1' = n + 1
      <4>1. {a \in Attempt : row'[a] # "none"} = 1..n
        BY <3>1, <2>1, BaseFacts DEF Numbered, Attempt
      <4>2. Cardinality(1..n) = n
        BY <3>1, FS_Interval, BaseFacts DEF Attempt
      <4> QED BY <4>1, <4>2 DEF Next1
    <3>3. lease'.of = n /\ lease'.revoked = FALSE /\ n # 0 /\ janitor = Idle /\ janitor' = janitor
      BY <1>1, <1>t, <2>1, <2>3, <3>1, BaseFacts DEF Leases, NoLease, Attempt
    <3> QED BY <2>3, <3>1, <3>2, <3>3, BaseFacts
  <2> QED BY <1>1, <2>2, <2>3 DEF Leases
<1>2. CASE LeaseExpires
  <2>1. UNCHANGED <<state, row, janitor>> /\ lease'.of = lease.of /\ lease'.revoked = lease.revoked
        /\ lease'.known = lease.known /\ lease'.expired = TRUE /\ lease.of # 0
    BY <1>2, <1>t DEF LeaseExpires, Typed, LeaseType
  <2> QED BY <2>1, <1>t, SameNumbers
<1>3. ASSUME NEW a \in Attempt, Guards(a) \/ Spawns(a) \/ Binds(a) \/ MarkThrows(a) \/ HeartbeatThrows(a) \/ Exits(a)
             \/ TimesOut(a) \/ ReadsResult(a) \/ WorkerDies(a) \/ WrapperStarts(a) \/ UnityExits(a) \/ RestExits(a)
      PROVE  LeaseInv'
  BY <1>3, <1>q DEF Guards, Spawns, Binds, MarkThrows, HeartbeatThrows, Throws, Exits, TimesOut, ReadsResult, WorkerDies,
     WrapperStarts, UnityExits, RestExits
<1>4. ASSUME NEW a \in Attempt, Marks(a) PROVE LeaseInv'
  <2>1. /\ UNCHANGED <<row, janitor>> /\ lease'.of = lease.of /\ lease'.revoked = lease.revoked /\ lease'.expired = lease.expired
        /\ lease.of = a /\ ~lease.revoked /\ state' = "running"
    BY <1>4, <1>t DEF Marks, Held, Typed, LeaseType
  <2>2. a # 0 /\ janitor.pc = "idle"
    BY <2>1, <1>t, BaseFacts DEF Attempt
  <2> QED BY <2>1, <2>2, <1>t, SameNumbers
<1>5. ASSUME NEW a \in Attempt, Submits(a) PROVE LeaseInv'
  <2>1. CASE UNCHANGED <<state, lease, row>>
    BY <1>5, <2>1, <1>q DEF Submits
  <2>2. CASE Held(a) /\ ~UNCHANGED <<state, lease, row>>
    <3>1. janitor.pc = "idle" /\ janitor' = janitor /\ lease.of = a /\ a # 0 /\ row[a] # "none"
      BY <1>5, <2>2, <1>t, BaseFacts DEF Submits, Held, Attempt
    <3>2. Next1' = Next1 /\ Numbered(Next1 - 1)'
      BY <1>5, <3>1, <1>t, SameNumbers DEF Submits, Typed
    <3>3. CASE state' = "succeeded" /\ lease' = NoLease
      BY <3>1, <3>2, <3>3, <1>t, BaseFacts
    <3>4. CASE state' = Failed(a, worker[a].code, worker[a].clean) /\ lease' = LeaseAfter(worker[a].clean)
      <4>1. CASE worker[a].clean
        BY <3>1, <3>2, <3>4, <4>1, <1>t, BaseFacts DEF Failed, LeaseAfter
      <4>2. CASE ~worker[a].clean
        <5>1. lease'.of = lease.of /\ lease'.revoked = TRUE /\ state' = "recovering"
          BY <3>4, <4>2, <1>t DEF Failed, LeaseAfter, Typed, LeaseType
        <5> QED BY <3>1, <3>2, <5>1, <1>t
      <4> QED BY <4>1, <4>2
    <3> QED BY <1>5, <2>2, <3>3, <3>4 DEF Submits
  <2> QED BY <1>5, <2>1, <2>2 DEF Submits
<1>6. CASE Recovers \/ Cancels
  <2>1. UNCHANGED row /\ janitor = Idle
    BY <1>6 DEF Recovers, Cancels
  <2>2. CASE UNCHANGED <<lease, janitor>> /\ state' = "canceled" /\ lease.of = 0
    BY <2>1, <2>2, <1>t, SameNumbers, BaseFacts
  <2>3. ASSUME NEW recovers \in BOOLEAN, Revokes(recovers), lease.of # 0,
               recovers => UNCHANGED state /\ lease.expired /\ ~lease.revoked, ~recovers => state' = "canceled"
        PROVE  LeaseInv'
    <3>1. /\ lease'.of = lease.of /\ lease'.revoked = TRUE /\ lease'.known = lease.known /\ lease'.expired = lease.expired
          /\ janitor'.pc = "clean" /\ janitor'.of = lease.of /\ janitor'.known = lease.known /\ janitor'.recovers = recovers
      BY <2>3, <1>t DEF Revokes, Typed, LeaseType
    <3>2. recovers => state \notin Terminal
      BY <2>3, <1>t DEF Terminal
    <3>3. "canceled" \in Terminal
      BY DEF Terminal
    <3> QED BY <2>1, <2>3, <3>1, <3>2, <3>3, <1>t, SameNumbers
  <2> QED BY <1>6, <2>1, <2>2, <2>3 DEF Recovers, Cancels
<1>7. CASE Cleans
  <2>1. /\ UNCHANGED <<state, lease, row>> /\ janitor.pc = "clean" /\ janitor'.pc = "settle"
        /\ janitor'.of = janitor.of /\ janitor'.known = janitor.known /\ janitor'.recovers = janitor.recovers
    BY <1>7, <1>t DEF Cleans, Typed, JanitorType
  <2> QED BY <2>1, <1>t, SameNumbers
<1>8. CASE Settles
  <2>1. /\ janitor.pc = "settle" /\ janitor' = Idle /\ lease.of = janitor.of /\ lease.of # 0 /\ lease.of \in Attempt
        /\ row' = [row EXCEPT ![lease.of] = "over"] /\ row[lease.of] # "none"
    BY <1>8, <1>t, BaseFacts DEF Settles
  <2>2. Next1' = Next1 /\ Numbered(Next1 - 1)'
    BY <2>1, <1>t, SameNumbers DEF Typed
  <2>3. state' = Settled /\ lease' = LeaseAfter(janitor.clean)
    BY <1>8, <2>1 DEF Settles
  <2>4. CASE janitor.clean
    <3>1. lease' = NoLease /\ state' \notin {"leased", "running", "recovering"}
      BY <2>1, <2>3, <2>4, <1>t DEF LeaseAfter, Settled, Terminal
    <3> QED BY <2>1, <2>2, <3>1, BaseFacts
  <2>5. CASE ~janitor.clean
    <3>1. lease'.of = lease.of /\ lease'.revoked = TRUE /\ state' = "failed_terminal"
      BY <2>3, <2>5, <1>t DEF LeaseAfter, Settled, Typed, LeaseType
    <3> QED BY <2>1, <2>2, <3>1, <1>t, BaseFacts
  <2> QED BY <2>4, <2>5
<1>9. CASE JanitorDies
  BY <1>9, <1>t, SameNumbers, BaseFacts DEF JanitorDies
<1>10. CASE GcReads \/ GcLists \/ GcDeletes \/ UNCHANGED vars
  BY <1>10, <1>q DEF GcReads, GcLists, GcDeletes, vars
<1> QED BY <1>1, <1>2, <1>3, <1>4, <1>5, <1>6, <1>7, <1>8, <1>9, <1>10 DEF Next

\* A step other than a lease leaves the numbers of the attempts.
LEMMA OtherSteps == ASSUME BaseInv, [Next]_vars, ~Leases PROVE Next1' = Next1 /\ UNCHANGED platform
<1>1. ASSUME \A a \in Attempt : row'[a] # "none" <=> row[a] # "none" PROVE Next1' = Next1
  BY <1>1, SameNumbers
<1>2. CASE UNCHANGED <<row, platform>>
  BY <1>1, <1>2
<1>3. ASSUME NEW a \in Attempt, Submits(a) PROVE Next1' = Next1 /\ UNCHANGED platform
  <2>1. Held(a) => row[a] # "none"
    BY BaseFacts DEF Held, Attempt
  <2> QED BY <1>1, <1>3, <2>1 DEF Submits, BaseInv, Typed
<1>4. CASE Settles
  <2>1. lease.of = janitor.of => lease.of \in Attempt /\ row[janitor.of] # "none"
    BY <1>4, BaseFacts DEF Settles, BaseInv, LeaseInv
  <2> QED BY <1>1, <1>4, <2>1 DEF Settles, BaseInv, Typed
<1>5. LeaseExpires \/ Recovers \/ Cancels \/ Cleans \/ JanitorDies \/ GcReads \/ GcLists \/ GcDeletes \/ UNCHANGED vars
        => UNCHANGED <<row, platform>>
  BY DEF LeaseExpires, Recovers, Cancels, Cleans, JanitorDies, GcReads, GcLists, GcDeletes, vars
<1>6. \A a \in Attempt : Works(a) /\ ~Submits(a) => UNCHANGED <<row, platform>>
  BY DEF Works, Guards, Spawns, Binds, Marks, MarkThrows, HeartbeatThrows, Throws, Exits, TimesOut, ReadsResult, WorkerDies,
     WrapperStarts, UnityExits, RestExits
<1> QED BY <1>2, <1>3, <1>4, <1>5, <1>6 DEF Next, Works

\* Only the worker of an attempt, its processes and a janitor change what is
\* executing of it.
LEMMA OneAttempt ==
  ASSUME BaseInv, NEW a \in Attempt, Works(a)
  PROVE  /\ \A b \in Attempt : b # a => worker'[b] = worker[b] /\ tree'[b] = tree[b] /\ job'[b] = job[b]
         /\ a < Next1
<1>t. worker \in [Attempt -> WorkerType] /\ tree \in [Attempt -> TreeType] /\ job \in [Attempt -> BOOLEAN]
  BY DEF BaseInv, Typed
<1>1. worker[a].pc # "off" \/ tree[a] # "none"
  BY DEF Works, Guards, Spawns, Binds, Marks, MarkThrows, HeartbeatThrows, Exits, TimesOut, ReadsResult, Submits, WorkerDies,
     WrapperStarts, UnityExits, RestExits, At
<1>2. \A b \in Attempt : b # a => worker'[b] = worker[b]
  BY <1>t DEF Works, Guards, Spawns, Binds, Marks, MarkThrows, HeartbeatThrows, Throws, Exits, TimesOut, ReadsResult, Submits,
     WorkerDies, WrapperStarts, UnityExits, RestExits, Goes, Leaves, Ends
<1>3. \A b \in Attempt : b # a => tree'[b] = tree[b] /\ job'[b] = job[b]
  BY <1>t DEF Works, Guards, Spawns, Binds, Marks, MarkThrows, HeartbeatThrows, Throws, Exits, TimesOut, ReadsResult, Submits,
     WorkerDies, WrapperStarts, UnityExits, RestExits, JobCloses
<1> QED BY <1>1, <1>2, <1>3, BaseFacts

LEMMA UnleasedInvNext == ASSUME BaseInv, [Next]_vars PROVE UnleasedInv'
<1> USE DEF UnleasedInv
<1>f. worker \in [Attempt -> WorkerType] /\ tree \in [Attempt -> TreeType] /\ job \in [Attempt -> BOOLEAN] /\ UnleasedInv
  BY DEF BaseInv, Typed
<1>1. CASE Leases
  <2>1. UNCHANGED <<platform, tree, job>>
    BY <1>1 DEF Leases
  <2>2. (Next1' = Next1 /\ UNCHANGED worker) \/ (Next1' = Next1 + 1 /\ Goes(Next1, "guard") /\ Next1 \in Attempt)
    <3>1. CASE UNCHANGED <<row, worker>>
      BY <3>1, SameNumbers
    <3>2. CASE row' = [row EXCEPT ![Next1] = "open"] /\ Goes(Next1, "guard") /\ Next1 \in Attempt
      <4>1. PICK n : n = Next1
        OBVIOUS
      <4>2. Numbered(n)'
        BY <4>1, <3>2, BaseFacts DEF Numbered, Attempt, BaseInv, Typed
      <4>3. {b \in Attempt : row'[b] # "none"} = 1..n
        BY <4>2, <4>1, BaseFacts DEF Numbered, Attempt
      <4>4. Cardinality(1..n) = n
        BY <4>1, FS_Interval, BaseFacts
      <4> QED BY <3>2, <4>1, <4>3, <4>4 DEF Next1
    <3> QED BY <1>1, <3>1, <3>2 DEF Leases
  <2>3. Goes(Next1, "guard") /\ Next1 \in Attempt =>
          worker'[Next1].pc = "guard" /\ \A b \in Attempt : b # Next1 => worker'[b] = worker[b]
    BY <1>f, WorkerMoves
  <2> QED BY <1>f, <2>1, <2>2, <2>3, BaseFacts DEF Attempt
<1>2. ASSUME ~Leases, UNCHANGED <<worker, tree, job>> PROVE UnleasedInv'
  BY <1>2, <1>f, OtherSteps
<1>3. ASSUME NEW a \in Attempt, Works(a), ~Leases PROVE UnleasedInv'
  <2>1. (tree'[a] = "wrapper" => platform = "wsl") /\ (worker'[a].pc = "bind" => platform = "windows")
    <3>1. worker'[a].pc = "bind" => worker[a].pc = "bind" \/ platform = "windows"
      BY <1>3, <1>f, WorkerMoves DEF Works, Guards, Spawns, Binds, Marks, MarkThrows, HeartbeatThrows, Throws, Exits,
         TimesOut, ReadsResult, Submits, WorkerDies, WrapperStarts, UnityExits, RestExits, Off
    <3>2. tree'[a] = "wrapper" => tree[a] = "wrapper" \/ platform = "wsl"
      BY <1>3, <1>f DEF Works, Guards, Spawns, Binds, Marks, MarkThrows, HeartbeatThrows, Throws, Exits, TimesOut,
         ReadsResult, Submits, WorkerDies, WrapperStarts, UnityExits, RestExits, JobCloses
    <3> QED BY <3>1, <3>2, <1>f
  <2>2. job'[a] => platform = "windows"
    BY <1>3, <1>f DEF Works, Guards, Spawns, Binds, Marks, MarkThrows, HeartbeatThrows, Throws, Exits, TimesOut, ReadsResult,
       Submits, WorkerDies, WrapperStarts, UnityExits, RestExits, JobCloses, At
  <2>3. a < Next1 /\ Next1' = Next1 /\ UNCHANGED platform
    BY <1>3, OneAttempt, OtherSteps
  <2>4. \A b \in Attempt : b # a => worker'[b] = worker[b] /\ tree'[b] = tree[b] /\ job'[b] = job[b]
    BY <1>3, OneAttempt
  <2>5. \A b \in Attempt : b >= Next1 => b # a
    BY <2>3, BaseFacts DEF Attempt
  <2> QED BY <1>f, <2>1, <2>2, <2>3, <2>4, <2>5
<1>4. CASE Cleans /\ ~Leases
  <2>1. UNCHANGED <<worker, job>> /\ \A b \in Attempt : tree'[b] = tree[b] \/ (tree'[b] = "gone" /\ b = janitor.of)
    BY <1>4, <1>f DEF Cleans
  <2>2. janitor.of < Next1
    <3>1. janitor.pc = "clean" /\ LeaseInv
      BY <1>4 DEF Cleans, BaseInv
    <3>2. lease.of = janitor.of /\ lease.of # 0
      BY <3>1 DEF LeaseInv
    <3> QED BY <3>2, BaseFacts
  <2>3. Next1' = Next1 /\ UNCHANGED platform
    BY <1>4, OtherSteps
  <2> QED BY <1>f, <2>1, <2>2, <2>3, BaseFacts DEF Attempt
<1>5. LeaseExpires \/ Recovers \/ Cancels \/ Settles \/ JanitorDies \/ GcReads \/ GcLists \/ GcDeletes \/ UNCHANGED vars
        => UNCHANGED <<worker, tree, job>>
  BY DEF LeaseExpires, Recovers, Cancels, Settles, JanitorDies, GcReads, GcLists, GcDeletes, vars
<1> QED BY <1>1, <1>2, <1>3, <1>4, <1>5 DEF Next, Works

LEMMA BaseInvNext == ASSUME BaseInv, [Next]_vars PROVE BaseInv'
  BY TypedNext, LeaseInvNext, UnleasedInvNext DEF BaseInv

LEMMA BaseInvariant == Spec => []BaseInv
<1>1. Init => BaseInv
  BY Initially DEF BaseInv
<1>2. BaseInv /\ [Next]_vars => BaseInv'
  BY BaseInvNext
<1> QED BY <1>1, <1>2, PTL DEF Spec

\* The variables have their types; a stage that is executing has the lease of its
\* newest attempt, and nothing runs of an attempt that was never leased.
THEOREM TypeCorrect == Spec => []TypeOK
<1>1. BaseInv => TypeOK
  BY BaseFacts DEF BaseInv, Typed, LeaseInv, UnleasedInv, TypeOK, LeaseType, RowType, TreeType, StateType, GcType
<1> QED BY BaseInvariant, <1>1, PTL

-----------------------------------------------------------------------------
(* A lease is released when its process is gone.                           *)

\* A lease that does not hold any more never holds again, and only mark_running
\* makes a process known.
LEMMA LeaseOnce ==
  ASSUME BaseInv, [Next]_vars, NEW a \in Attempt
  PROVE  /\ a < Next1 /\ Held(a)' => Held(a)
         /\ a < Next1 /\ lease'.of = a => lease.of = a /\ (lease.expired => lease'.expired)
         /\ lease'.of = a /\ lease'.known => (lease.of = a /\ lease.known) \/ Marks(a)
<1>t. Typed /\ a # 0
  BY DEF BaseInv, Attempt
<1> USE DEF Held
<1>1. CASE Leases
  <2>1. UNCHANGED lease \/ (lease'.of = Next1 /\ ~lease'.known)
    BY <1>1, <1>t DEF Leases, NoLease
  <2> QED BY <2>1, BaseFacts
<1>2. CASE LeaseExpires \/ Recovers \/ Cancels
  BY <1>2, <1>t DEF LeaseExpires, Recovers, Cancels, Revokes, Typed, LeaseType
<1>3. ASSUME NEW b \in Attempt, Marks(b) \/ Submits(b)
      PROVE  /\ Held(a)' => Held(a)
             /\ lease'.of = a => lease.of = a /\ (lease.expired => lease'.expired)
             /\ lease'.of = a /\ lease'.known => (lease.of = a /\ lease.known) \/ Marks(a)
  BY <1>3, <1>t DEF Marks, Submits, LeaseAfter, NoLease, Typed, LeaseType
<1>4. CASE Settles
  BY <1>4, <1>t DEF Settles, LeaseAfter, NoLease, Typed, LeaseType
<1>5. Cleans \/ JanitorDies \/ GcReads \/ GcLists \/ GcDeletes \/ UNCHANGED vars => UNCHANGED lease
  BY DEF Cleans, JanitorDies, GcReads, GcLists, GcDeletes, vars
<1>6. \A b \in Attempt : Works(b) /\ ~Submits(b) /\ ~Marks(b) => UNCHANGED lease
  BY DEF Works, Guards, Spawns, Binds, MarkThrows, HeartbeatThrows, Throws, Exits, TimesOut, ReadsResult, WorkerDies,
     WrapperStarts, UnityExits, RestExits
<1> QED BY <1>1, <1>2, <1>3, <1>4, <1>5, <1>6 DEF Next, Works

\* Only its own worker starts the process of an attempt.
LEMMA RootOnce ==
  ASSUME BaseInv, [Next]_vars, NEW a \in Attempt, RootAlive(a)'
  PROVE  RootAlive(a) \/ (At(a, "spawn") /\ Spawns(a))
<1>t. tree \in [Attempt -> TreeType]
  BY DEF BaseInv, Typed
<1> USE DEF RootAlive
<1>1. ASSUME NEW b \in Attempt, Works(b), b # a PROVE RootAlive(a)
  BY <1>1, OneAttempt
<1>2. ASSUME Works(a), ~Spawns(a) PROVE RootAlive(a)
  BY <1>2, <1>t DEF Works, Guards, Binds, Marks, MarkThrows, HeartbeatThrows, Throws, Exits,
     TimesOut, ReadsResult, Submits, WorkerDies, WrapperStarts, UnityExits, RestExits, JobCloses
<1>3. CASE Cleans
  BY <1>3, <1>t DEF Cleans
<1>4. Leases \/ LeaseExpires \/ Recovers \/ Cancels \/ Settles \/ JanitorDies \/ GcReads \/ GcLists \/ GcDeletes \/ UNCHANGED vars
        => UNCHANGED tree
  BY DEF Leases, LeaseExpires, Recovers, Cancels, Settles, JanitorDies, GcReads, GcLists, GcDeletes, vars
<1>5. Spawns(a) => At(a, "spawn")
  BY DEF Spawns
<1> QED BY <1>1, <1>2, <1>3, <1>4, <1>5 DEF Next, Works

LEMMA ProcessInvNext ==
  ASSUME StoreFaults \subseteq {"windows"}, BaseInv, ProcessInv, [Next]_vars
  PROVE  ProcessInv'
<1>t. Typed /\ UNCHANGED platform /\ lease.of \in 0..MaxAttempts
  <2>1. ~Leases => UNCHANGED platform
    BY OtherSteps
  <2> QED BY <2>1 DEF BaseInv, Typed, Leases, LeaseType
<1>k. \A a \in Attempt : WorkerKnows(a) /\ (worker[a].pc # "off" => a < Next1)
  BY BaseFacts DEF ProcessInv
\* The worker of an attempt that is left alone, and its processes too, still knows them.
<1>q. ASSUME NEW a \in Attempt, worker'[a] = worker[a], job'[a] = job[a], ~Works(a), tree'[a] \in {tree[a], "gone"},
             worker[a].pc \in {"guard", "spawn"} => tree'[a] = tree[a]
      PROVE  WorkerKnows(a)'
  <2>1. RootAlive(a)' => RootAlive(a)
    BY <1>q, RootOnce DEF Works
  <2>2. /\ worker[a].pc # "off" /\ Held(a)' => Held(a)
        /\ lease'.of = a /\ lease'.known => lease.of = a /\ lease.known
    BY <1>q, <1>k, LeaseOnce DEF Works
  <2> QED BY <1>q, <1>k, <1>t, <2>1, <2>2 DEF WorkerKnows
<1>1. ASSUME NEW a \in Attempt, Works(a) PROVE WorkerKnows(a)'
  <2> USE DEF WorkerKnows, RootAlive, Held, At
  <2>f. /\ worker \in [Attempt -> WorkerType] /\ tree \in [Attempt -> TreeType] /\ job \in [Attempt -> BOOLEAN]
        /\ WorkerKnows(a)
    BY <1>t, <1>k DEF Typed
  <2>1. CASE Guards(a)
    BY <2>1, <2>f, WorkerMoves DEF Guards
  <2>2. CASE Spawns(a)
    BY <2>2, <2>f, <1>t, WorkerMoves DEF Spawns
  <2>3. CASE Binds(a)
    BY <2>3, <2>f, <1>t, WorkerMoves DEF Binds
  <2>4. CASE Marks(a)
    BY <2>4, <2>f, <1>t, WorkerMoves DEF Marks
  <2>5. CASE MarkThrows(a) \/ HeartbeatThrows(a)
    <3>1. /\ worker'[a].pc = "submit" /\ worker'[a].code = "worker_crash" /\ worker'[a].clean
          /\ worker[a].pc \in {"mark", "poll"} /\ JobCloses(a) /\ UNCHANGED lease
          /\ ~Held(a) \/ platform = "windows"
      BY <2>5, <2>f, WorkerMoves DEF MarkThrows, HeartbeatThrows, Throws, Faulty
    <3>2. Held(a)' => job[a]
      BY <3>1, <2>f
    <3>3. job[a] => tree'[a] \in {"gone", "none"}
      BY <3>1, <2>f DEF JobCloses, Alive, TreeType
    <3> QED BY <3>1, <3>2, <3>3
  <2>6. CASE Exits(a)
    BY <2>6, <2>f, WorkerMoves DEF Exits, JobCloses
  <2>7. CASE TimesOut(a)
    <3>1. PICK clean \in BOOLEAN : tree' = [tree EXCEPT ![a] = IF clean THEN "gone" ELSE @] /\ Ends(a, "stalled", clean)
      BY <2>7 DEF TimesOut
    <3>2. worker'[a].pc = "submit" /\ worker'[a].code = "stalled" /\ worker'[a].clean = clean
      BY <3>1, <2>f, WorkerMoves
    <3> QED BY <3>1, <3>2, <2>f
  <2>10. CASE ReadsResult(a)
    <3>1. PICK code \in {"ok", "worker_crash", "compile_or_contract"}, clean \in BOOLEAN :
            Ends(a, code, clean) /\ (code = "ok" => clean)
      BY <2>10 DEF ReadsResult
    <3>2. worker'[a].pc = "submit" /\ worker'[a].code = code /\ worker'[a].clean = clean
      BY <3>1, <2>f, WorkerMoves
    <3> QED BY <2>10, <3>1, <3>2, <2>f DEF ReadsResult
  <2>8. CASE Submits(a) \/ WorkerDies(a)
    <3>1. worker'[a].pc = "off"
      BY <2>8, <2>f, WorkerMoves DEF Submits, WorkerDies
    <3> QED BY <3>1
  <2>9. CASE WrapperStarts(a) \/ UnityExits(a) \/ RestExits(a)
    BY <2>9, <2>f DEF WrapperStarts, UnityExits, RestExits
  <2> QED BY <1>1, <2>1, <2>2, <2>3, <2>4, <2>5, <2>6, <2>7, <2>8, <2>9, <2>10 DEF Works
<1>2. ASSUME NEW a \in Attempt, NEW b \in Attempt, Works(b), ~Works(a) PROVE WorkerKnows(a)'
  BY <1>2, <1>q, OneAttempt
<1>3. ASSUME Leases PROVE \A a \in Attempt : WorkerKnows(a)'
  <2>1. UNCHANGED <<tree, job>> /\ (UNCHANGED <<worker, lease>> \/ (Next1 \in Attempt /\ Goes(Next1, "guard") /\ ~lease'.known))
    BY <1>3, <1>t DEF Leases, NoLease
  <2>2. ASSUME NEW a \in Attempt, worker'[a] = worker[a], ~Works(a) PROVE WorkerKnows(a)'
    BY <2>1, <2>2, <1>q
  <2>3. ASSUME NEW a \in Attempt, a = Next1, Goes(a, "guard"), ~lease'.known PROVE WorkerKnows(a)'
    <3>1. tree'[a] = "none" /\ worker'[a].pc = "guard"
      BY <2>1, <2>3, <1>t, WorkerMoves, BaseFacts DEF BaseInv, UnleasedInv, Typed
    <3> QED BY <2>3, <3>1 DEF WorkerKnows
  <2>4. \A a \in Attempt : Goes(Next1, "guard") /\ Next1 \in Attempt /\ a # Next1 => worker'[a] = worker[a]
    BY <1>t, WorkerMoves DEF Typed
  <2> QED BY <1>1, <2>1, <2>2, <2>3, <2>4
<1>4. ASSUME Cleans PROVE \A a \in Attempt : WorkerKnows(a)'
  <2>1. /\ UNCHANGED <<worker, job>> /\ janitor.pc = "clean"
        /\ \A a \in Attempt : tree'[a] = tree[a] \/ (tree'[a] = "gone" /\ a = janitor.of /\ janitor.known)
    BY <1>4, <1>t DEF Cleans, Typed
  <2>2. janitor.known => lease.of = janitor.of /\ lease.known
    BY <2>1 DEF BaseInv, LeaseInv
  <2>3. ASSUME NEW a \in Attempt, ~Works(a) PROVE WorkerKnows(a)'
    <3>1. worker[a].pc \in {"guard", "spawn"} => tree'[a] = tree[a]
      BY <2>1, <2>2, <1>k DEF WorkerKnows
    <3> QED BY <2>1, <2>3, <3>1, <1>q
  <2> QED BY <1>1, <2>3
<1>5. ASSUME LeaseExpires \/ Recovers \/ Cancels \/ Settles \/ JanitorDies \/ GcReads \/ GcLists \/ GcDeletes \/ UNCHANGED vars
      PROVE  \A a \in Attempt : WorkerKnows(a)'
  <2>1. UNCHANGED <<worker, tree, job>>
    BY <1>5 DEF LeaseExpires, Recovers, Cancels, Settles, JanitorDies, GcReads, GcLists, GcDeletes, vars
  <2> QED BY <2>1, <1>1, <1>q
<1>6. \A a \in Attempt : WorkerKnows(a)'
  BY <1>1, <1>2, <1>3, <1>4, <1>5 DEF Next, Works
<1>7. JanitorKnows'
  <2> USE DEF JanitorKnows
  <2>1. CASE Cleans
    <3>1. janitor.pc = "clean" /\ janitor'.of = janitor.of /\ janitor'.known = janitor.known
      BY <2>1, <1>t DEF Cleans, Typed, JanitorType
    <3>2. janitor.known /\ janitor'.clean => ~RootAlive(janitor.of)'
      <4>1. janitor.of \in Attempt
        BY <3>1, BaseFacts DEF BaseInv, LeaseInv
      <4> QED BY <2>1, <1>t, <4>1 DEF Cleans, NotOurs, Matches, RootAlive, Typed, JanitorType
    <3> QED BY <3>1, <3>2 DEF RootAlive
  <2>2. CASE UNCHANGED janitor
    <3>1. ASSUME janitor.pc = "settle", janitor.clean, janitor.known PROVE ~RootAlive(janitor.of)'
      <4>1. lease.of = janitor.of /\ lease.known /\ janitor.of \in Attempt
        BY <3>1, BaseFacts DEF BaseInv, LeaseInv
      <4>2. ~At(janitor.of, "spawn") /\ ~RootAlive(janitor.of)
        BY <3>1, <4>1, <1>k DEF WorkerKnows, At, ProcessInv
      <4>3. PICK a \in Attempt : a = janitor.of
        BY <4>1
      <4> QED BY <2>2, <4>2, <4>3, RootOnce DEF RootAlive
    <3> QED BY <2>2, <3>1
  <2>3. Recovers \/ Cancels \/ Settles \/ JanitorDies => UNCHANGED janitor \/ janitor'.pc # "settle"
    BY DEF Recovers, Cancels, Revokes, Settles, JanitorDies, Idle
  <2>4. Leases \/ LeaseExpires \/ GcReads \/ GcLists \/ GcDeletes \/ UNCHANGED vars => UNCHANGED janitor
    BY DEF Leases, LeaseExpires, GcReads, GcLists, GcDeletes, vars
  <2>5. \A a \in Attempt : Works(a) => UNCHANGED janitor
    BY DEF Works, Guards, Spawns, Binds, Marks, MarkThrows, HeartbeatThrows, Throws, Exits, TimesOut, ReadsResult, Submits,
       WorkerDies, WrapperStarts, UnityExits, RestExits
  <2> QED BY <2>1, <2>2, <2>3, <2>4, <2>5 DEF Next, Works
<1> QED BY <1>6, <1>7 DEF ProcessInv

\* The two ways a lease goes: its worker hands the attempt in, or a janitor settles it.
LEMMA LeaseGoes ==
  ASSUME BaseInv, [Next]_vars, lease.of # 0, lease'.of # lease.of
  PROVE  \/ Submits(lease.of) /\ Held(lease.of) /\ (worker[lease.of].code = "ok" \/ worker[lease.of].clean)
         \/ Settles /\ janitor.clean /\ janitor.pc = "settle" /\ janitor.of = lease.of
<1>t. Typed /\ LeaseInv
  BY DEF BaseInv
<1>1. ~Leases
  BY <1>t DEF Leases, NoLease
<1>2. LeaseExpires \/ Recovers \/ Cancels => lease'.of = lease.of
  BY <1>t DEF LeaseExpires, Recovers, Cancels, Revokes, Typed, LeaseType
<1>3. ASSUME NEW b \in Attempt, Works(b), ~Submits(b) PROVE lease'.of = lease.of
  BY <1>3, <1>t DEF Works, Guards, Spawns, Binds, Marks, MarkThrows, HeartbeatThrows, Throws, Exits, TimesOut, ReadsResult,
     WorkerDies, WrapperStarts, UnityExits, RestExits, Typed, LeaseType
<1>4. ASSUME NEW b \in Attempt, Submits(b)
      PROVE  b = lease.of /\ Submits(b) /\ Held(b) /\ (worker[b].code = "ok" \/ worker[b].clean)
  <2>1. ~worker[b].clean => LeaseAfter(worker[b].clean).of = lease.of
    BY <1>t DEF LeaseAfter, Typed, LeaseType
  <2>2. Held(b) /\ worker[b].code # "ok" => lease' = LeaseAfter(worker[b].clean)
    BY <1>4 DEF Submits
  <2>3. Held(b)
    BY <1>4 DEF Submits
  <2> QED BY <1>4, <2>1, <2>2, <2>3 DEF Held
<1>5. CASE Settles
  <2>1. ~janitor.clean => LeaseAfter(janitor.clean).of = lease.of
    BY <1>t DEF LeaseAfter, Typed, LeaseType
  <2>2. lease.of = janitor.of /\ lease' = LeaseAfter(janitor.clean)
    BY <1>5, <1>t DEF Settles, LeaseInv
  <2> QED BY <1>5, <2>1, <2>2 DEF Settles
<1>6. Cleans \/ JanitorDies \/ GcReads \/ GcLists \/ GcDeletes \/ UNCHANGED vars => UNCHANGED lease
  BY DEF Cleans, JanitorDies, GcReads, GcLists, GcDeletes, vars
<1> QED BY <1>1, <1>2, <1>3, <1>4, <1>5, <1>6 DEF Next, Works

LEMMA ReleasedDeadNext ==
  ASSUME BaseInv, ProcessInv, [Next]_vars, NEW a \in Attempt, lease.of = a, lease.known, lease'.of # a
  PROVE  ~RootAlive(a)
<1>1. a # 0 /\ WorkerKnows(a)
  BY DEF Attempt, ProcessInv
<1>2. CASE Submits(a) /\ Held(a) /\ (worker[a].code = "ok" \/ worker[a].clean)
  BY <1>1, <1>2 DEF WorkerKnows, Submits, At
<1>3. CASE Settles /\ janitor.clean /\ janitor.pc = "settle" /\ janitor.of = a
  <2>1. janitor.known
    BY <1>3 DEF BaseInv, LeaseInv
  <2> QED BY <1>3, <2>1 DEF ProcessInv, JanitorKnows
<1> QED BY <1>1, <1>2, <1>3, LeaseGoes

LEMMA ProcessInvariant == StoreFaults \subseteq {"windows"} /\ Spec => []ProcessInv
<1> SUFFICES ASSUME StoreFaults \subseteq {"windows"} PROVE Spec => []ProcessInv
  OBVIOUS
<1>1. BaseInv /\ ProcessInv /\ [Next]_vars => ProcessInv'
  BY ProcessInvNext
<1> QED BY Initially, BaseInvariant, <1>1, PTL DEF Spec

\* A lease whose process was recorded is given up, by the worker, by a recovery or
\* by a cancel, only when that process is gone, whoever has died on the way.  Under
\* WSL that needs a database that does not fail while the stage runs.
THEOREM LeaseReleasedDead == StoreFaults \subseteq {"windows"} /\ Spec => ReleasedDead
<1> SUFFICES ASSUME StoreFaults \subseteq {"windows"} PROVE Spec => ReleasedDead
  OBVIOUS
<1>1. BaseInv /\ ProcessInv /\ [Next]_vars
        => [\A a \in Attempt : lease.of = a /\ lease.known /\ lease'.of # a => ~RootAlive(a)]_vars
  BY ReleasedDeadNext
<1> QED BY BaseInvariant, ProcessInvariant, <1>1, PTL DEF Spec, ReleasedDead

-----------------------------------------------------------------------------
(* One Unity has the project open.                                         *)

\* What has started does not start again.
LEMMA StartOnce ==
  ASSUME BaseInv, [Next]_vars, NEW a \in Attempt, a < Next1, Starting(a)'
  PROVE  Starting(a)
<1>t. worker \in [Attempt -> WorkerType] /\ tree \in [Attempt -> TreeType]
  BY DEF BaseInv, Typed
<1> USE DEF Starting
<1>1. ASSUME NEW b \in Attempt, Works(b), b # a PROVE Starting(a)
  BY <1>1, OneAttempt
<1>2. ASSUME Works(a) PROVE Starting(a)
  <2>1. tree'[a] = "wrapper" => tree[a] = "wrapper" \/ worker[a].pc = "spawn"
    BY <1>2, <1>t DEF Works, Guards, Spawns, Binds, Marks, MarkThrows, HeartbeatThrows, Throws, Exits,
       TimesOut, ReadsResult, Submits, WorkerDies, WrapperStarts, UnityExits, RestExits, JobCloses, At
  <2>2. worker'[a].pc \in {"guard", "spawn", "bind", "mark"} => worker[a].pc \in {"guard", "spawn", "bind", "mark"}
    BY <1>2, <1>t, WorkerMoves DEF Works, Guards, Spawns, Binds, Marks, MarkThrows, HeartbeatThrows, Throws, Exits,
       TimesOut, ReadsResult, Submits, WorkerDies, WrapperStarts, UnityExits, RestExits, At
  <2> QED BY <2>1, <2>2
<1>3. CASE Cleans
  BY <1>3, <1>t DEF Cleans
<1>4. CASE Leases
  <2>1. UNCHANGED tree /\ (UNCHANGED worker \/ Goes(Next1, "guard"))
    BY <1>4 DEF Leases
  <2> QED BY <2>1, <1>t, BaseFacts DEF Goes
<1>5. LeaseExpires \/ Recovers \/ Cancels \/ Settles \/ JanitorDies \/ GcReads \/ GcLists \/ GcDeletes \/ UNCHANGED vars
        => UNCHANGED <<tree, worker>>
  BY DEF LeaseExpires, Recovers, Cancels, Settles, JanitorDies, GcReads, GcLists, GcDeletes, vars
<1> QED BY <1>1, <1>2, <1>3, <1>4, <1>5 DEF Next, Works

\* A stage that was settled for good stays so.
LEMMA TerminalStays == ASSUME BaseInv, [Next]_vars, state \in Terminal PROVE state' \in Terminal
<1>t. LeaseInv
  BY DEF BaseInv
<1>1. ~Leases
  BY DEF Leases, Terminal
<1>2. ASSUME NEW a \in Attempt, Works(a) PROVE UNCHANGED state
  <2>1. ~Held(a)
    BY <1>t DEF LeaseInv, Held, Terminal, Attempt
  <2> QED BY <1>2, <2>1 DEF Works, Guards, Spawns, Binds, Marks, MarkThrows, HeartbeatThrows, Throws, Exits,
       TimesOut, ReadsResult, Submits, WorkerDies, WrapperStarts, UnityExits, RestExits
<1>3. CASE Settles
  <2>1. ~janitor.recovers
    BY <1>3, <1>t DEF Settles, LeaseInv
  <2> QED BY <1>3, <2>1 DEF Settles, Settled, Terminal
<1>4. LeaseExpires \/ Recovers \/ Cancels \/ Cleans \/ JanitorDies \/ GcReads \/ GcLists \/ GcDeletes \/ UNCHANGED vars
        => UNCHANGED state
  BY DEF LeaseExpires, Recovers, Cancels, Cleans, JanitorDies, GcReads, GcLists, GcDeletes, vars
<1> QED BY <1>1, <1>2, <1>3, <1>4 DEF Next, Works

\* Only LeaseExpires lets a lease that is held on to expire.
LEMMA ExpiresOnce ==
  ASSUME BaseInv, [Next]_vars, ~Leases, ~LeaseExpires, lease.of # 0, lease'.of = lease.of
  PROVE  lease'.expired = lease.expired
<1>t. Typed
  BY DEF BaseInv
<1>1. Recovers \/ Cancels => lease'.expired = lease.expired
  BY <1>t DEF Recovers, Cancels, Revokes, Typed, LeaseType
<1>2. ASSUME NEW a \in Attempt, Works(a) PROVE lease'.expired = lease.expired
  <2>1. CASE Marks(a)
    BY <2>1, <1>t DEF Marks, Typed, LeaseType
  <2>2. CASE Submits(a)
    <3>1. lease' = lease \/ lease' = NoLease \/ lease' = [lease EXCEPT !.revoked = TRUE]
      BY <2>2 DEF Submits, LeaseAfter
    <3> QED BY <3>1, <1>t DEF NoLease, Typed, LeaseType
  <2> QED BY <1>2, <2>1, <2>2 DEF Works, Guards, Spawns, Binds, MarkThrows, HeartbeatThrows, Throws, Exits, TimesOut,
     ReadsResult, WorkerDies, WrapperStarts, UnityExits, RestExits
<1>3. Settles => lease'.expired = lease.expired
  BY <1>t DEF Settles, LeaseAfter, NoLease, Typed, LeaseType
<1>4. Cleans \/ JanitorDies \/ GcReads \/ GcLists \/ GcDeletes \/ UNCHANGED vars => UNCHANGED lease
  BY DEF Cleans, JanitorDies, GcReads, GcLists, GcDeletes, vars
<1> QED BY <1>1, <1>2, <1>3, <1>4 DEF Next, Works

\* What opens Unity, and what may still open it.
LEMMA UpOnce ==
  ASSUME BaseInv, [Next]_vars, NEW a \in Attempt
  PROVE  /\ (tree[a] = "up")' => tree[a] = "up" \/ (Works(a) /\ (At(a, "spawn") \/ tree[a] = "wrapper"))
         /\ (At(a, "spawn") \/ RootAlive(a))' => At(a, "spawn") \/ RootAlive(a) \/ (Guards(a) /\ ~UnityOpen)
<1>t. worker \in [Attempt -> WorkerType] /\ tree \in [Attempt -> TreeType]
  BY DEF BaseInv, Typed
<1>1. RootAlive(a)' => RootAlive(a) \/ (At(a, "spawn") /\ Works(a))
  BY RootOnce DEF Works
<1>2. At(a, "spawn")' => At(a, "spawn") \/ (Guards(a) /\ ~UnityOpen)
  <2> USE DEF At
  <2>1. ASSUME NEW b \in Attempt, Works(b), b # a PROVE worker'[a] = worker[a]
    BY <2>1, OneAttempt
  <2>2. ASSUME Works(a), At(a, "spawn")' PROVE At(a, "spawn") \/ (Guards(a) /\ ~UnityOpen)
    <3>1. Guards(a) => ~UnityOpen
      BY <2>2, <1>t, WorkerMoves DEF Guards
    <3> QED BY <2>2, <1>t, <3>1, WorkerMoves DEF Works, Spawns, Binds, Marks, MarkThrows, HeartbeatThrows, Throws, Exits,
       TimesOut, ReadsResult, Submits, WorkerDies, WrapperStarts, UnityExits, RestExits
  <2>3. CASE Leases
    <3>1. UNCHANGED worker \/ (Next1 \in Attempt /\ Goes(Next1, "guard"))
      BY <2>3 DEF Leases
    <3> QED BY <3>1, <1>t, WorkerMoves
  <2>4. LeaseExpires \/ Recovers \/ Cancels \/ Cleans \/ Settles \/ JanitorDies \/ GcReads \/ GcLists \/ GcDeletes \/ UNCHANGED vars
          => UNCHANGED worker
    BY DEF LeaseExpires, Recovers, Cancels, Cleans, Settles, JanitorDies, GcReads, GcLists, GcDeletes, vars
  <2> QED BY <2>1, <2>2, <2>3, <2>4 DEF Next, Works
<1>3. tree[a] = "wrapper" /\ (tree[a] = "up")' => Works(a)
  <2>1. ASSUME NEW b \in Attempt, Works(b), b # a PROVE tree'[a] = tree[a]
    BY <2>1, OneAttempt
  <2>2. Cleans => tree'[a] \in {tree[a], "gone"}
    BY <1>t DEF Cleans
  <2>3. Leases \/ LeaseExpires \/ Recovers \/ Cancels \/ Settles \/ JanitorDies \/ GcReads \/ GcLists \/ GcDeletes \/ UNCHANGED vars
          => UNCHANGED tree
    BY DEF Leases, LeaseExpires, Recovers, Cancels, Settles, JanitorDies, GcReads, GcLists, GcDeletes, vars
  <2> QED BY <2>1, <2>2, <2>3 DEF Next, Works
<1>4. (tree[a] = "up")' => tree[a] = "up" \/ (Works(a) /\ (At(a, "spawn") \/ tree[a] = "wrapper"))
  BY <1>1, <1>3 DEF RootAlive
<1> QED BY <1>1, <1>2, <1>4

LEMMA StartInvNext ==
  ASSUME StoreFaults \subseteq {"windows"}, ~SlowStart, BaseInv, ProcessInv, StartInv, [Next]_vars
  PROVE  StartInv'
<1> USE DEF StartInv
<1>b. /\ Typed /\ LeaseInv /\ UnleasedInv /\ LeaseInv' /\ UnleasedInv'
      /\ Next1 \in Nat /\ Next1' \in Nat
  <2>1. Typed /\ LeaseInv /\ UnleasedInv /\ Next1 \in Nat
    BY BaseFacts DEF BaseInv
  <2>2. Typed' /\ LeaseInv' /\ UnleasedInv'
    BY TypedNext, LeaseInvNext, UnleasedInvNext
  <2>3. Next1' \in Nat
    <3>1. IsFiniteSet(Attempt)
      BY LocalAssumption, FS_Interval DEF Attempt
    <3>2. IsFiniteSet({a \in Attempt : row'[a] # "none"})
      BY <3>1, FS_Subset
    <3> QED BY <3>2, FS_CardinalityType DEF Next1
  <2> QED BY <2>1, <2>2, <2>3
<1>n. \A a \in Attempt : Starting(a)' => a < Next1'
  BY <1>b DEF UnleasedInv, Starting, Off, Attempt
<1>o. ~Leases => Next1' = Next1
  BY OtherSteps
<1>s. ~Leases => \A a \in Attempt : Starting(a)' => Starting(a) /\ a < Next1
  BY <1>n, <1>o, StartOnce
\* A stage that can be leased has nothing starting.
<1>l. ASSUME Leases, NEW a \in Attempt, Starting(a)' PROVE a = Next1' - 1 /\ lease'.of = a /\ ~lease'.expired
  <2>1. \A b \in Attempt : ~Starting(b)
    BY <1>l DEF Leases, NoLease, Terminal, Attempt
  <2>2. ~(a < Next1)
    BY <1>l, <2>1, StartOnce
  <2>3. CASE UNCHANGED <<row, lease, state, worker>>
    <3>1. Next1' = Next1
      BY <2>3, SameNumbers
    <3> QED BY <1>l, <2>2, <3>1, <1>n
  <2>4. CASE lease' = [NoLease EXCEPT !.of = Next1]
    <3>1. lease'.of = Next1 /\ lease'.expired = FALSE
      BY <2>4 DEF NoLease
    <3>2. Next1 = Next1' - 1
      <4>1. lease'.of # 0
        BY <3>1, BaseFacts
      <4> QED BY <3>1, <4>1, <1>b DEF LeaseInv
    <3>3. a < Next1' /\ a \in Nat
      BY <1>l, <1>n, LocalAssumption DEF Attempt
    <3>4. a = Next1
      <4>1. \A m, n \in Nat : ~(a < m) /\ m = n - 1 /\ a < n => a = m
        BY <3>3
      <4> HIDE DEF Next1
      <4> QED BY <2>2, <3>2, <3>3, <4>1, <1>b
    <3> QED BY <3>1, <3>2, <3>4
  <2> QED BY <1>l, <2>3, <2>4 DEF Leases
<1>1. ASSUME NEW a \in Attempt, Starting(a)' PROVE a = Next1' - 1 /\ (state' \in Terminal \/ lease'.of = a)
  <2>1. CASE Leases
    BY <1>1, <1>l, <2>1
  <2>2. CASE ~Leases
    <3>1. Starting(a) /\ a = Next1 - 1 /\ a = Next1' - 1 /\ a # 0
      BY <1>1, <2>2, <1>s, <1>o DEF Attempt
    <3>2. CASE state \in Terminal
      BY <3>1, <3>2, TerminalStays
    <3>3. ASSUME lease.of = a, lease'.of # a, state \notin Terminal PROVE FALSE
      <4>1. CASE Submits(a) /\ Held(a) /\ (worker[a].code = "ok" \/ worker[a].clean)
        <5>1. worker[a].pc = "submit" /\ WorkerKnows(a)
          BY <4>1 DEF Submits, At, ProcessInv
        <5>2. ~RootAlive(a)
          BY <4>1, <5>1 DEF WorkerKnows
        <5> QED BY <3>1, <5>1, <5>2 DEF Starting, RootAlive
      <4>2. CASE Settles /\ janitor.pc = "settle"
        <5>1. lease.expired
          BY <4>2, <3>3, <1>b DEF LeaseInv
        <5> QED BY <3>1, <3>3, <5>1
      <4> QED BY <3>1, <3>3, <4>1, <4>2, LeaseGoes
    <3> QED BY <3>1, <3>2, <3>3
  <2> QED BY <2>1, <2>2
<1>2. ASSUME NEW a \in Attempt, lease'.of = a, lease'.expired, Starting(a)' PROVE FALSE
  <2>1. ~Leases
    BY <1>2, <1>l
  <2>2. Starting(a) /\ lease.of = a
    BY <1>2, <2>1, <1>s, LeaseOnce
  <2>3. ~LeaseExpires
    BY <2>2 DEF LeaseExpires
  <2>4. lease.expired
    <3>1. lease.of # 0 /\ lease'.of = lease.of
      BY <1>2, <2>2 DEF Attempt
    <3> QED BY <1>2, <2>1, <2>3, <3>1, ExpiresOnce
  <2> QED BY <2>2, <2>4
<1>3. ASSUME NEW a \in Attempt, NEW b \in Attempt, (tree[a] = "up")', (At(b, "spawn") \/ RootAlive(b))' PROVE a = b
  <2>1. CASE tree[a] = "up"
    <3>1. UnityOpen
      BY <2>1 DEF UnityOpen
    <3> QED BY <1>3, <2>1, <3>1, UpOnce DEF RootAlive
  <2>2. ASSUME Works(a), At(a, "spawn") \/ tree[a] = "wrapper", a # b PROVE FALSE
    <3>1. At(b, "spawn") \/ RootAlive(b)
      BY <1>3, <2>2, OneAttempt DEF At, RootAlive
    <3>2. Starting(a) /\ (At(b, "spawn") \/ tree[b] = "wrapper" => Starting(b))
      BY <2>2 DEF Starting, At
    <3>3. ~(At(b, "spawn") \/ tree[b] = "wrapper")
      BY <3>2, <2>2
    <3>4. tree[b] = "up"
      BY <3>1, <3>3 DEF RootAlive
    <3> QED BY <2>2, <3>4
  <2> QED BY <1>3, <2>1, <2>2, UpOnce
<1> QED BY <1>1, <1>2, <1>3 DEF RootAlive

LEMMA StartInvariant == ~SlowStart /\ StoreFaults \subseteq {"windows"} /\ Spec => []StartInv
<1> SUFFICES ASSUME ~SlowStart, StoreFaults \subseteq {"windows"} PROVE Spec => []StartInv
  OBVIOUS
<1>1. BaseInv /\ ProcessInv /\ StartInv /\ [Next]_vars => StartInv'
  BY StartInvNext
<1> QED BY Initially, BaseInvariant, ProcessInvariant, <1>1, PTL DEF Spec

\* No two Unity processes have the project open at once, however many attempts were
\* made, whoever has died or was asleep, and whatever recover, cancel and gc did
\* beside: the guard sees the one that runs, and nobody else is starting meanwhile.
THEOREM OneUnityOpen == ~SlowStart /\ StoreFaults \subseteq {"windows"} /\ Spec => []OneUnity
<1> SUFFICES ASSUME ~SlowStart, StoreFaults \subseteq {"windows"} PROVE Spec => []OneUnity
  OBVIOUS
<1>1. ASSUME StartInv PROVE OneUnity
  <2> DEFINE Open == {a \in Attempt : tree[a] = "up"}
  <2>1. \A a, b \in Open : a = b
    BY <1>1 DEF StartInv
  <2>2. CASE Open = {}
    BY <2>2, FS_EmptySet DEF OneUnity
  <2>3. ASSUME NEW a \in Open PROVE OneUnity
    <3>1. Open = {a}
      BY <2>1, <2>3
    <3>2. Cardinality(Open) = 1
      BY <3>1, FS_Singleton
    <3> QED BY <3>2 DEF OneUnity
  <2> QED BY <2>2, <2>3
<1>2. StartInv => OneUnity
  BY <1>1
<1> QED BY StartInvariant, <1>2, PTL

-----------------------------------------------------------------------------
(* What is left behind an attempt that has succeeded.                      *)

\* On Windows a started process is in its job before its worker waits for it; when
\* the worker reads a result, and from then on, nothing of the attempt is alive.
RestInv ==
  \A a \in Attempt :
    /\ tree[a] = "left" => platform = "windows"
    /\ worker[a].pc \in {"mark", "poll"} /\ platform = "windows" => job[a]
    /\ worker[a].pc = "result" => ~Alive(a)
    /\ worker[a].pc = "submit" /\ worker[a].code = "ok" => ~Alive(a)
    /\ row[a] = "succeeded" => worker[a].pc = "off" /\ staging[a] = "published" /\ ~Alive(a)

StagingType == staging \in [Attempt -> {"none", "there", "published", "deleted"}]

\* The directory of an attempt that has a number is made, published and deleted once.
LEMMA StagingOnce ==
  ASSUME BaseInv, StagingType, [Next]_vars
  PROVE  /\ StagingType'
         /\ \A a \in Attempt : row[a] = "succeeded" /\ staging[a] = "published" => staging'[a] = "published"
<1>1. CASE staging' = staging
  BY <1>1 DEF StagingType
<1>2. CASE Leases
  BY <1>2, BaseFacts DEF Leases, StagingType
<1>3. ASSUME NEW a \in Attempt, Submits(a)
      PROVE  /\ StagingType'
             /\ \A b \in Attempt : staging[b] = "published" => staging'[b] = "published"
  <2>1. staging' = staging \/ staging' = [staging EXCEPT ![a] = "published"]
    BY <1>3 DEF Submits
  <2> QED BY <1>3, <2>1 DEF StagingType
<1>4. CASE GcDeletes
  <2>1. PICK gone \in SUBSET {a \in gc.found : staging[a] = "there"} :
          staging' = [a \in Attempt |-> IF a \in gone THEN "deleted" ELSE staging[a]]
    BY <1>4 DEF GcDeletes
  <2> QED BY <1>4, <2>1 DEF StagingType
<1> QED BY <1>1, <1>2, <1>3, <1>4
        DEF vars, Next, LeaseExpires, Guards, Spawns, Binds, Marks, MarkThrows, HeartbeatThrows, Throws,
            Exits, TimesOut, ReadsResult, WorkerDies, WrapperStarts, UnityExits, RestExits, Recovers,
            Cancels, Cleans, Settles, JanitorDies, GcReads, GcLists

\* A row says succeeded only by the commit of a directory that is there.
LEMMA SucceedsOnce ==
  ASSUME BaseInv, StagingType, [Next]_vars, NEW a \in Attempt, row'[a] = "succeeded"
  PROVE  \/ row[a] = "succeeded"
         \/ /\ Submits(a) /\ worker[a].pc = "submit" /\ worker[a].code = "ok" /\ worker'[a].pc = "off"
            /\ tree' = tree /\ staging'[a] = "published"
<1> USE DEF BaseInv, Typed
<1>1. CASE UNCHANGED row
  BY <1>1
<1>2. CASE Leases
  BY <1>2 DEF Leases
<1>3. ASSUME NEW b \in Attempt, Submits(b)
      PROVE  \/ row[a] = "succeeded"
             \/ /\ Submits(a) /\ worker[a].pc = "submit" /\ worker[a].code = "ok" /\ worker'[a].pc = "off"
                /\ tree' = tree /\ staging'[a] = "published"
  <2>1. CASE a # b
    BY <1>3, <2>1 DEF Submits
  <2>2. CASE a = b
    BY <1>3, <2>2, WorkerMoves DEF Submits, At, StagingType
  <2> QED BY <2>1, <2>2
<1>4. CASE Settles
  BY <1>4 DEF Settles
<1> QED BY <1>1, <1>2, <1>3, <1>4
        DEF vars, Next, LeaseExpires, Guards, Spawns, Binds, Marks, MarkThrows, HeartbeatThrows, Throws,
            Exits, TimesOut, ReadsResult, WorkerDies, WrapperStarts, UnityExits, RestExits, Recovers,
            Cancels, Cleans, JanitorDies, GcReads, GcLists, GcDeletes

\* What the worker of an attempt sees of its processes when it moves.
RestOf(a) ==
  /\ tree[a] = "left" => platform = "windows"
  /\ worker[a].pc \in {"mark", "poll"} /\ platform = "windows" => job[a]
  /\ worker[a].pc = "result" => ~Alive(a)
  /\ worker[a].pc = "submit" /\ worker[a].code = "ok" => ~Alive(a)

LEMMA RestOfNext ==
  ASSUME BaseInv, [Next]_vars, NEW a \in Attempt, RestOf(a)
  PROVE  RestOf(a)'
<1> USE DEF RestOf, Alive
<1>t. /\ Typed /\ worker \in [Attempt -> WorkerType] /\ tree \in [Attempt -> TreeType]
      /\ job \in [Attempt -> BOOLEAN] /\ platform' = platform
      /\ tree[a] = "wrapper" => platform = "wsl"
  BY DEF BaseInv, UnleasedInv, Typed, vars, Next, Leases, LeaseExpires, Guards, Spawns, Binds, Marks, MarkThrows,
         HeartbeatThrows, Throws, Exits, TimesOut, ReadsResult, Submits, WorkerDies, WrapperStarts, UnityExits,
         RestExits, Recovers, Cancels, Cleans, Settles, JanitorDies, GcReads, GcLists, GcDeletes
<1>1. CASE UNCHANGED <<worker, tree, job>>
  BY <1>1, <1>t
<1>2. CASE Leases
  BY <1>2, <1>t, WorkerMoves DEF Leases
<1>3. ASSUME NEW b \in Attempt, Works(b), b # a PROVE worker'[a] = worker[a] /\ tree'[a] = tree[a] /\ job'[a] = job[a]
  BY <1>3, <1>t, WorkerMoves
     DEF Works, Guards, Spawns, Binds, Marks, MarkThrows, HeartbeatThrows, Throws, JobCloses, Exits, TimesOut,
         ReadsResult, Submits, WorkerDies, WrapperStarts, UnityExits, RestExits
<1>4. CASE Guards(a)
  BY <1>4, <1>t, WorkerMoves DEF Guards
<1>5. CASE Spawns(a)
  BY <1>5, <1>t, WorkerMoves DEF Spawns
<1>6. CASE Binds(a)
  BY <1>6, <1>t, WorkerMoves DEF Binds
<1>7. CASE Marks(a)
  BY <1>7, <1>t, WorkerMoves DEF Marks, At
<1>8. CASE MarkThrows(a) \/ HeartbeatThrows(a) \/ WorkerDies(a)
  BY <1>8, <1>t, WorkerMoves DEF MarkThrows, HeartbeatThrows, Throws, WorkerDies, JobCloses
<1>9. CASE Exits(a)
  <2>1. ~(tree[a] \in {"wrapper", "up"}) /\ (platform = "windows" => job[a])
    BY <1>9 DEF Exits, At, RootAlive
  <2>2. tree'[a] = IF job[a] /\ Alive(a) THEN "gone" ELSE tree[a]
    BY <1>9, <1>t DEF Exits, JobCloses
  <2>3. worker'[a].pc = "result"
    BY <1>9, <1>t, WorkerMoves DEF Exits
  <2> QED BY <1>9, <1>t, <2>1, <2>2, <2>3
<1>10. CASE TimesOut(a)
  BY <1>10, <1>t, WorkerMoves DEF TimesOut
<1>11. CASE ReadsResult(a)
  BY <1>11, <1>t, WorkerMoves DEF ReadsResult, At
<1>12. CASE Submits(a)
  BY <1>12, <1>t, WorkerMoves DEF Submits
<1>13. CASE WrapperStarts(a) \/ UnityExits(a) \/ RestExits(a)
  BY <1>13, <1>t DEF WrapperStarts, UnityExits, RestExits
<1>14. CASE Cleans
  BY <1>14, <1>t DEF Cleans
<1>15. (UNCHANGED <<worker, tree, job>>) \/ Leases \/ (\E b \in Attempt : Works(b)) \/ Cleans
  BY DEF Works, vars, Next, LeaseExpires, Recovers, Cancels, Settles, JanitorDies, GcReads, GcLists, GcDeletes
<1>16. ASSUME Works(a) PROVE RestOf(a)'
  BY <1>16, <1>4, <1>5, <1>6, <1>7, <1>8, <1>9, <1>10, <1>11, <1>12, <1>13 DEF Works
<1> QED BY <1>1, <1>2, <1>3, <1>14, <1>15, <1>16, <1>t

\* An attempt that is over starts nothing: nothing alive comes of none but by its
\* worker, and that has gone.
LEMMA RestStays ==
  ASSUME BaseInv, [Next]_vars, NEW a \in Attempt, row[a] = "succeeded", worker[a].pc = "off", ~Alive(a)
  PROVE  worker'[a].pc = "off" /\ (~Alive(a))'
<1>t. worker \in [Attempt -> WorkerType] /\ tree \in [Attempt -> TreeType] /\ (Leases => a # Next1)
  BY BaseFacts DEF BaseInv, Typed
<1>1. CASE UNCHANGED <<worker, tree>>
  BY <1>1 DEF Alive
<1>2. CASE Leases
  BY <1>2, <1>t, WorkerMoves DEF Leases, Alive
<1>3. ASSUME NEW b \in Attempt, Works(b), b # a PROVE worker'[a] = worker[a] /\ tree'[a] = tree[a]
  BY <1>3, <1>t, WorkerMoves
     DEF Works, Guards, Spawns, Binds, Marks, MarkThrows, HeartbeatThrows, Throws, JobCloses, Exits, TimesOut,
         ReadsResult, Submits, WorkerDies, WrapperStarts, UnityExits, RestExits
<1>4. ~Works(a)
  BY DEF Works, Guards, Spawns, Binds, Marks, MarkThrows, HeartbeatThrows, Exits, TimesOut, ReadsResult, Submits,
         WorkerDies, WrapperStarts, UnityExits, RestExits, At, Alive
<1>5. CASE Cleans
  BY <1>5, <1>t DEF Cleans, Alive
<1>6. (UNCHANGED <<worker, tree>>) \/ Leases \/ (\E b \in Attempt : Works(b)) \/ Cleans
  BY DEF Works, vars, Next, LeaseExpires, Recovers, Cancels, Settles, JanitorDies, GcReads, GcLists, GcDeletes
<1> QED BY <1>1, <1>2, <1>3, <1>4, <1>5, <1>6 DEF Alive

LEMMA RestInvNext == ASSUME BaseInv, StagingType, RestInv, [Next]_vars PROVE RestInv'
<1>1. ASSUME NEW a \in Attempt PROVE RestOf(a)'
  BY RestOfNext DEF RestInv, RestOf
<1>2. ASSUME NEW a \in Attempt, row'[a] = "succeeded"
      PROVE  worker'[a].pc = "off" /\ staging'[a] = "published" /\ (~Alive(a))'
  <2>1. CASE row[a] = "succeeded"
    BY <2>1, StagingOnce, RestStays DEF RestInv
  <2>2. CASE row[a] # "succeeded"
    BY <1>2, <2>2, SucceedsOnce DEF RestInv, Alive
  <2> QED BY <2>1, <2>2
<1> QED BY <1>1, <1>2 DEF RestInv, RestOf

\* Behind every attempt that has succeeded there is a published directory that no
\* process of the attempt can write to any more, on either platform, whoever has
\* died or was asleep, whatever gc has deleted meanwhile and however slow a start was.
THEOREM SucceedsAtRest == Spec => []SucceededAtRest
<1>1. Init => StagingType /\ RestInv
  BY DEF Init, StagingType, RestInv, Alive, Off
<1>2. BaseInv /\ StagingType /\ RestInv /\ [Next]_vars => StagingType' /\ RestInv'
  BY StagingOnce, RestInvNext
<1>3. RestInv => SucceededAtRest
  BY DEF RestInv, SucceededAtRest
<1> QED BY BaseInvariant, <1>1, <1>2, <1>3, PTL DEF Spec

-----------------------------------------------------------------------------
(* The files from stage to stage.                                          *)

\* The stages in their order, each of them once.
LEMMA PlaceInChain ==
  /\ Len(Chain) = 13
  /\ Chain[1] = "unity_anchor" /\ Chain[2] = "image_edit" /\ Chain[3] = "edit_gate"
  /\ Chain[4] = "upload_inputs" /\ Chain[5] = "model_generation" /\ Chain[6] = "render_alignment_views"
  /\ Chain[7] = "segment_inputs" /\ Chain[8] = "gim_match" /\ Chain[9] = "estimate_pose"
  /\ Chain[10] = "sags_segment_vote" /\ Chain[11] = "debug_bundle" /\ Chain[12] = "download_results"
  /\ Chain[13] = "unity_apply"
BY DEF Chain

LEMMA ChainOnce ==
  /\ DOMAIN Chain = 1..13
  /\ \A i, j \in 1..13 : Chain[i] = Chain[j] => i = j
  /\ \A i \in 1..13 : Chain[i] \in Stages /\ Chain[i] # "-" /\ Chain[i] # "done"
<1>1. DOMAIN Chain = 1..13
  BY DEF Chain
<1>2. \A i, j \in 1..13 : Chain[i] = Chain[j] => i = j
  BY PlaceInChain
<1>3. \A i \in 1..13 : Chain[i] # "-" /\ Chain[i] # "done"
  BY PlaceInChain
<1>4. \A i \in 1..13 : Chain[i] \in Stages
  BY <1>1 DEF Stages
<1> QED BY <1>1, <1>2, <1>3, <1>4

\* The stage the task is at.
LEMMA AtStage ==
  ASSUME at \in 1..14
  PROVE  /\ at < 14 => ThisStage = Chain[at]
         /\ at = 14 => ThisStage = "done"
BY PlaceInChain DEF ThisStage

LEMMA AtEach ==
  ASSUME at \in 1..14
  PROVE  /\ ThisStage = "unity_anchor" <=> at = 1
         /\ ThisStage = "image_edit" <=> at = 2
         /\ ThisStage = "edit_gate" <=> at = 3
         /\ ThisStage = "upload_inputs" <=> at = 4
         /\ ThisStage = "model_generation" <=> at = 5
         /\ ThisStage = "render_alignment_views" <=> at = 6
         /\ ThisStage = "segment_inputs" <=> at = 7
         /\ ThisStage = "gim_match" <=> at = 8
         /\ ThisStage = "estimate_pose" <=> at = 9
         /\ ThisStage = "sags_segment_vote" <=> at = 10
         /\ ThisStage = "debug_bundle" <=> at = 11
         /\ ThisStage = "download_results" <=> at = 12
         /\ ThisStage = "unity_apply" <=> at = 13
BY PlaceInChain, AtStage

\* What a file can be: what some stage may write.
Known(f) ==
  /\ f = File(f.stage, f.dir, f.view, f.kind)
  /\ \/ f.stage = "unity_anchor" /\ f.dir = "unity" /\ f.kind \in {"camera", "image", "depth"}
     \/ f.stage = "unity_anchor" /\ f.dir = "task" /\ f.kind = "manifest" /\ f.view = "-"
     \/ f.stage = "image_edit" /\ f.dir = "edit" /\ f.kind \in {"image", "manifest"}
     \/ f.stage \in Transfers /\ f.dir = "transfer" /\ f.kind = "receipt"
     \/ f.stage = "model_generation" /\ f.dir \in {"model", "model_input"} /\ f.kind \in {"ply", "manifest", "cutout"}
     \/ /\ f.stage = "render_alignment_views" /\ f.dir \in {"main", "ring6"}
        /\ f.kind \in {"views", "cameras", "images", "cfg_args", "image", "depth", "cloud"}
     \/ /\ f.stage = "segment_inputs" /\ f.dir \in {"anchor", "target"}
        /\ f.kind \in {"mask", "cutout", "points", "manifest"}
     \/ f.stage = "segment_inputs" /\ f.dir \in {"scene", "generated"} /\ f.kind = "mask"
     \/ f.stage = "segment_inputs" /\ f.dir = "sags_annotations" /\ f.kind \in {"mask", "points", "manifest"}
     \/ f.stage = "gim_match" /\ f.dir = "gim" /\ f.kind \in {"matches", "match", "warp"}
     \/ f.stage = "estimate_pose" /\ f.dir = "pose" /\ f.kind \in {"pose", "summary"}
     \/ f.stage = "sags_segment_vote" /\ f.dir = "sags" /\ f.kind \in {"ply", "manifest", "diagnostics"}
     \/ f.stage = "debug_bundle" /\ f.dir = "bundle"

\* _assign_aliases, arm by arm.
LEMMA AliasArms ==
  ASSUME NEW f
  PROVE  /\ f.stage = "image_edit" /\ f.kind = "image" => Alias(f) = Name("input", "-", f.kind)
         /\ f.stage = "unity_anchor" /\ f.dir = "unity" => Alias(f) = Name("scene", f.view, f.kind)
         /\ f.stage = "render_alignment_views" /\ OfViews(f) => Alias(f) = Name("generated", f.view, f.kind)
         /\ f.stage = "render_alignment_views" /\ OfRing(f) => Alias(f) = Name("sags", f.view, f.kind)
         /\ f.stage = "segment_inputs" /\ OfAnnotations(f) => Alias(f) = Name("sags", f.view, f.kind)
<1>1. f.stage = "image_edit" /\ f.kind = "image" => Alias(f) = Name("input", "-", f.kind)
  BY Zenon DEF Alias
<1>2. f.stage = "unity_anchor" /\ f.dir = "unity" => Alias(f) = Name("scene", f.view, f.kind)
  BY Zenon DEF Alias
<1>3. f.stage = "render_alignment_views" /\ OfViews(f) => Alias(f) = Name("generated", f.view, f.kind)
  <2>1. ~(OfViews(f) /\ OfRing(f))
    BY DEF OfViews, OfRing
  <2> QED BY <2>1, Zenon DEF Alias
<1>4. f.stage = "render_alignment_views" /\ OfRing(f) => Alias(f) = Name("sags", f.view, f.kind)
  <2>1. ~(OfViews(f) /\ OfRing(f))
    BY DEF OfViews, OfRing
  <2> QED BY <2>1, Zenon DEF Alias
<1>5. f.stage = "segment_inputs" /\ OfAnnotations(f) => Alias(f) = Name("sags", f.view, f.kind)
  BY Zenon DEF Alias
<1> QED BY <1>1, <1>2, <1>3, <1>4, <1>5

\* Any other file is named for its directory.
LEMMA AliasRest ==
  ASSUME NEW f,
         ~(f.stage = "image_edit" /\ f.kind = "image"), ~(f.stage = "unity_anchor" /\ f.dir = "unity"),
         ~(f.stage = "render_alignment_views" /\ OfViews(f)), ~(f.stage = "render_alignment_views" /\ OfRing(f)),
         ~(f.stage = "segment_inputs" /\ OfAnnotations(f))
  PROVE  Alias(f) = Name(f.dir, f.view, f.kind)
BY Zenon DEF Alias

\* A file that goes by the name a stage asks for is the file that is meant.
HasName(f, w, v, k) == Known(f) /\ f.kind = k /\ Alias(f) = Name(w, v, k)

\* A name tells its parts.
LEMMA NamesApart ==
  ASSUME NEW w, NEW v, NEW k, NEW w2, NEW v2, NEW k2, Name(w, v, k) = Name(w2, v2, k2)
  PROVE  w = w2 /\ v = v2 /\ k = k2
BY DEF Name

LEMMA SceneName ==
  ASSUME NEW v, NEW k \in {"camera", "image", "depth"}, NEW f, HasName(f, "scene", v, k)
  PROVE  f = File("unity_anchor", "unity", v, k)
BY AliasArms, AliasRest, NamesApart DEF HasName, Known, OfViews, OfRing, OfAnnotations, Transfers

LEMMA SceneMaskName ==
  ASSUME NEW v, NEW f, HasName(f, "scene", v, "mask")
  PROVE  f = File("segment_inputs", "scene", v, "mask")
BY AliasArms, AliasRest, NamesApart DEF HasName, Known, OfViews, OfRing, OfAnnotations, Transfers

LEMMA ViewName ==
  ASSUME NEW v, NEW k \in {"image", "depth", "cameras", "images"}, NEW f, HasName(f, "generated", v, k)
  PROVE  f = File("render_alignment_views", "main", v, k)
BY AliasArms, AliasRest, NamesApart DEF HasName, Known, OfViews, OfRing, OfAnnotations, Transfers

LEMMA ViewMaskName ==
  ASSUME NEW v, NEW f, HasName(f, "generated", v, "mask")
  PROVE  f = File("segment_inputs", "generated", v, "mask")
BY AliasArms, AliasRest, NamesApart DEF HasName, Known, OfViews, OfRing, OfAnnotations, Transfers

LEMMA RingName ==
  ASSUME NEW v, NEW k \in {"image", "cfg_args"}, NEW f, HasName(f, "sags", v, k)
  PROVE  f = File("render_alignment_views", "ring6", v, k)
BY AliasArms, AliasRest, NamesApart DEF HasName, Known, OfViews, OfRing, OfAnnotations, Transfers

LEMMA AnnotationName ==
  ASSUME NEW v, NEW k \in {"mask", "points"}, NEW f, HasName(f, "sags", v, k)
  PROVE  f = File("segment_inputs", "sags_annotations", v, k)
BY AliasArms, AliasRest, NamesApart DEF HasName, Known, OfViews, OfRing, OfAnnotations, Transfers

LEMMA PlyName ==
  ASSUME NEW v, NEW f, HasName(f, "model", v, "ply")
  PROVE  f = File("model_generation", "model", v, "ply")
BY AliasArms, AliasRest, NamesApart DEF HasName, Known, OfViews, OfRing, OfAnnotations, Transfers

LEMMA MatchesName ==
  ASSUME NEW v, NEW f, HasName(f, "gim", v, "matches")
  PROVE  f = File("gim_match", "gim", v, "matches")
BY AliasArms, AliasRest, NamesApart DEF HasName, Known, OfViews, OfRing, OfAnnotations, Transfers

LEMMA ManifestName ==
  ASSUME NEW v, NEW f, HasName(f, "task", v, "manifest")
  PROVE  f = File("unity_anchor", "task", v, "manifest")
BY AliasArms, AliasRest, NamesApart DEF HasName, Known, OfViews, OfRing, OfAnnotations, Transfers

LEMMA PoseName ==
  ASSUME NEW v, NEW f, HasName(f, "pose", v, "pose")
  PROVE  f = File("estimate_pose", "pose", v, "pose")
BY AliasArms, AliasRest, NamesApart DEF HasName, Known, OfViews, OfRing, OfAnnotations, Transfers

LEMMA ObjectName ==
  ASSUME NEW v, NEW f, HasName(f, "sags", v, "ply")
  PROVE  f = File("sags_segment_vote", "sags", v, "ply")
BY AliasArms, AliasRest, NamesApart DEF HasName, Known, OfViews, OfRing, OfAnnotations, Transfers

LEMMA InputName ==
  ASSUME NEW f, HasName(f, "input", "-", "image")
  PROVE  f.stage = "image_edit" /\ f = File("image_edit", "edit", f.view, "image")
BY AliasArms, AliasRest, NamesApart DEF HasName, Known, OfViews, OfRing, OfAnnotations, Transfers

-----------------------------------------------------------------------------

\* Every stage has committed files of its own, of the kinds it writes.
FilesInv ==
  /\ DOMAIN committed = Stages
  /\ \A s \in Stages : \A f \in committed[s] : f.stage = s /\ Known(f)

LEMMA StageOfIndex == \A s \in Stages : \E i \in 1..13 : Chain[i] = s
BY ChainOnce DEF Stages

\* The earlier stages' files are there to be named, whatever is left of the others.
LEMMA VisibleAt ==
  ASSUME at \in 1..14, FilesInv, NEW n \in 1..13, NEW e, e.stage = Chain[n], n # 2
  PROVE  e \in Visible <=> n < at /\ e \in committed[Chain[n]]
<1>1. ASSUME e \in Visible PROVE n < at /\ e \in committed[Chain[n]]
  <2>1. PICK i \in 1..(at - 1) : e \in committed[Chain[i]]
    BY <1>1 DEF Visible
  <2>2. i \in 1..13 /\ Chain[i] \in Stages
    BY <2>1, ChainOnce
  <2>3. e.stage = Chain[i]
    BY <2>1, <2>2 DEF FilesInv
  <2>4. i = n
    BY <2>2, <2>3, ChainOnce
  <2>5. i < at
    BY <2>1
  <2> QED BY <2>1, <2>4, <2>5
<1>2. ASSUME n < at, e \in committed[Chain[n]] PROVE e \in Visible
  <2>1. n \in 1..(at - 1)
    BY <1>2
  <2>2. e.stage # "image_edit"
    BY ChainOnce, PlaceInChain
  <2> QED BY <1>2, <2>1, <2>2 DEF Visible
<1> QED BY <1>1, <1>2

\* What is seen is a file of some stage.
LEMMA VisibleKnown ==
  ASSUME at \in 1..14, FilesInv, NEW f \in Visible
  PROVE  Known(f) /\ f # Nothing /\ f.stage \in Stages
<1>1. PICK i \in 1..(at - 1) : f \in committed[Chain[i]]
  BY DEF Visible
<1>2. i \in 1..13 /\ Chain[i] \in Stages /\ Chain[i] # "-"
  BY <1>1, ChainOnce
<1>3. f.stage = Chain[i] /\ Known(f)
  BY <1>1, <1>2 DEF FilesInv
<1> QED BY <1>2, <1>3 DEF Nothing, File

LEMMA RowNumber ==
  ASSUME NEW f, f.stage \in Stages
  PROVE  Row(f) \in Int
<1>1. \E i \in DOMAIN Chain : Chain[i] = f.stage
  BY DEF Stages
<1>2. (CHOOSE i \in DOMAIN Chain : Chain[i] = f.stage) \in Int
  BY <1>1, ChainOnce
<1> QED BY <1>2 DEF Row

\* _first, where there is but one.
LEMMA FirstOfOne ==
  ASSUME NEW e, e.stage \in Stages
  PROVE  First({e}) = e
<1>1. Row(e) <= Row(e)
  BY RowNumber
<1>2. (CHOOSE f \in {e} : \A g \in {e} : Row(f) <= Row(g)) = e
  BY <1>1
<1> QED BY <1>2 DEF First

\* A name that only one file can have is that file's, if it is there.
LEMMA NamedAt ==
  ASSUME at \in 1..14, FilesInv, NEW n \in 1..13, n # 2, NEW w, NEW v, NEW k, NEW e,
         e.stage = Chain[n], HasName(e, w, v, k), \A f : HasName(f, w, v, k) => f = e
  PROVE  /\ Named(w, v, k) = IF n < at /\ e \in committed[Chain[n]] THEN e ELSE Nothing
         /\ e # Nothing
<1> DEFINE found == {f \in Visible : f.kind = k /\ Alias(f) = Name(w, v, k)}
<1>1. \A f \in found : f = e
  BY VisibleKnown DEF HasName
<1>2. e \in found <=> n < at /\ e \in committed[Chain[n]]
  BY VisibleAt DEF HasName
<1>3. e # Nothing
  BY ChainOnce DEF Nothing, File
<1>4. CASE e \in found
  <2>1. found = {e}
    BY <1>1, <1>4
  <2>2. First({e}) = e
    BY FirstOfOne, ChainOnce
  <2>3. Named(w, v, k) = First(found)
    BY DEF Named
  <2> HIDE DEF found
  <2> QED BY <1>2, <1>3, <1>4, <2>1, <2>2, <2>3
<1>5. CASE e \notin found
  <2>1. found = {}
    BY <1>1, <1>5
  <2>2. Named(w, v, k) = First(found)
    BY DEF Named
  <2> HIDE DEF found
  <2>3. First(found) = Nothing
    BY <2>1 DEF First
  <2> QED BY <1>2, <1>3, <1>5, <2>2, <2>3
<1> QED BY <1>4, <1>5

\* What the stages after the n-th find of a file of it.
Handed(n, s, d, v, k) == IF n < at /\ ~Lost(s, d, v, k) THEN File(s, d, v, k) ELSE Nothing

LEMMA NamedScene ==
  ASSUME at \in 1..14, FilesInv, NEW v, NEW k \in {"camera", "image", "depth"}
  PROVE  /\ Named("scene", v, k) = Handed(1, "unity_anchor", "unity", v, k)
         /\ File("unity_anchor", "unity", v, k) # Nothing
<1> DEFINE e == File("unity_anchor", "unity", v, k)
<1>1. e.stage = "unity_anchor" /\ e.dir = "unity" /\ e.view = v /\ e.kind = k
  BY DEF File
<1>2. Known(e)
  BY <1>1 DEF Known, Transfers
<1>3. HasName(e, "scene", v, k)
  BY <1>1, <1>2, AliasArms, AliasRest DEF HasName, OfViews, OfRing, OfAnnotations
<1>4. \A f : HasName(f, "scene", v, k) => f = e
  BY SceneName
<1>5. e.stage = Chain[1]
  BY <1>1, PlaceInChain
<1> HIDE DEF e
<1>6. /\ Named("scene", v, k) = IF 1 < at /\ e \in committed[Chain[1]] THEN e ELSE Nothing
      /\ e # Nothing
  BY <1>3, <1>4, <1>5, NamedAt
<1> QED BY <1>1, <1>5, <1>6 DEF Handed, Lost, e

LEMMA NamedSceneMask ==
  ASSUME at \in 1..14, FilesInv, NEW v
  PROVE  /\ Named("scene", v, "mask") = Handed(7, "segment_inputs", "scene", v, "mask")
         /\ File("segment_inputs", "scene", v, "mask") # Nothing
<1> DEFINE e == File("segment_inputs", "scene", v, "mask")
<1>1. e.stage = "segment_inputs" /\ e.dir = "scene" /\ e.view = v /\ e.kind = "mask"
  BY DEF File
<1>2. Known(e)
  BY <1>1 DEF Known, Transfers
<1>3. HasName(e, "scene", v, "mask")
  BY <1>1, <1>2, AliasArms, AliasRest DEF HasName, OfViews, OfRing, OfAnnotations
<1>4. \A f : HasName(f, "scene", v, "mask") => f = e
  BY SceneMaskName
<1>5. e.stage = Chain[7]
  BY <1>1, PlaceInChain
<1> HIDE DEF e
<1>6. /\ Named("scene", v, "mask") = IF 7 < at /\ e \in committed[Chain[7]] THEN e ELSE Nothing
      /\ e # Nothing
  BY <1>3, <1>4, <1>5, NamedAt
<1> QED BY <1>1, <1>5, <1>6 DEF Handed, Lost, e

LEMMA NamedView ==
  ASSUME at \in 1..14, FilesInv, NEW v, NEW k \in {"image", "depth", "cameras", "images"}
  PROVE  /\ Named("generated", v, k) = Handed(6, "render_alignment_views", "main", v, k)
         /\ File("render_alignment_views", "main", v, k) # Nothing
<1> DEFINE e == File("render_alignment_views", "main", v, k)
<1>1. e.stage = "render_alignment_views" /\ e.dir = "main" /\ e.view = v /\ e.kind = k
  BY DEF File
<1>2. Known(e)
  BY <1>1 DEF Known, Transfers
<1>3. HasName(e, "generated", v, k)
  BY <1>1, <1>2, AliasArms, AliasRest DEF HasName, OfViews, OfRing, OfAnnotations
<1>4. \A f : HasName(f, "generated", v, k) => f = e
  BY ViewName
<1>5. e.stage = Chain[6]
  BY <1>1, PlaceInChain
<1> HIDE DEF e
<1>6. /\ Named("generated", v, k) = IF 6 < at /\ e \in committed[Chain[6]] THEN e ELSE Nothing
      /\ e # Nothing
  BY <1>3, <1>4, <1>5, NamedAt
<1> QED BY <1>1, <1>5, <1>6 DEF Handed, Lost, e

LEMMA NamedViewMask ==
  ASSUME at \in 1..14, FilesInv, NEW v
  PROVE  /\ Named("generated", v, "mask") = Handed(7, "segment_inputs", "generated", v, "mask")
         /\ File("segment_inputs", "generated", v, "mask") # Nothing
<1> DEFINE e == File("segment_inputs", "generated", v, "mask")
<1>1. e.stage = "segment_inputs" /\ e.dir = "generated" /\ e.view = v /\ e.kind = "mask"
  BY DEF File
<1>2. Known(e)
  BY <1>1 DEF Known, Transfers
<1>3. HasName(e, "generated", v, "mask")
  BY <1>1, <1>2, AliasArms, AliasRest DEF HasName, OfViews, OfRing, OfAnnotations
<1>4. \A f : HasName(f, "generated", v, "mask") => f = e
  BY ViewMaskName
<1>5. e.stage = Chain[7]
  BY <1>1, PlaceInChain
<1> HIDE DEF e
<1>6. /\ Named("generated", v, "mask") = IF 7 < at /\ e \in committed[Chain[7]] THEN e ELSE Nothing
      /\ e # Nothing
  BY <1>3, <1>4, <1>5, NamedAt
<1> QED BY <1>1, <1>5, <1>6 DEF Handed, Lost, e

LEMMA NamedRing ==
  ASSUME at \in 1..14, FilesInv, NEW v, NEW k \in {"image", "cfg_args"}
  PROVE  /\ Named("sags", v, k) = Handed(6, "render_alignment_views", "ring6", v, k)
         /\ File("render_alignment_views", "ring6", v, k) # Nothing
<1> DEFINE e == File("render_alignment_views", "ring6", v, k)
<1>1. e.stage = "render_alignment_views" /\ e.dir = "ring6" /\ e.view = v /\ e.kind = k
  BY DEF File
<1>2. Known(e)
  BY <1>1 DEF Known, Transfers
<1>3. HasName(e, "sags", v, k)
  BY <1>1, <1>2, AliasArms, AliasRest DEF HasName, OfViews, OfRing, OfAnnotations
<1>4. \A f : HasName(f, "sags", v, k) => f = e
  BY RingName
<1>5. e.stage = Chain[6]
  BY <1>1, PlaceInChain
<1> HIDE DEF e
<1>6. /\ Named("sags", v, k) = IF 6 < at /\ e \in committed[Chain[6]] THEN e ELSE Nothing
      /\ e # Nothing
  BY <1>3, <1>4, <1>5, NamedAt
<1> QED BY <1>1, <1>5, <1>6 DEF Handed, Lost, e

LEMMA NamedAnnotation ==
  ASSUME at \in 1..14, FilesInv, NEW v, NEW k \in {"mask", "points"}
  PROVE  /\ Named("sags", v, k) = Handed(7, "segment_inputs", "sags_annotations", v, k)
         /\ File("segment_inputs", "sags_annotations", v, k) # Nothing
<1> DEFINE e == File("segment_inputs", "sags_annotations", v, k)
<1>1. e.stage = "segment_inputs" /\ e.dir = "sags_annotations" /\ e.view = v /\ e.kind = k
  BY DEF File
<1>2. Known(e)
  BY <1>1 DEF Known, Transfers
<1>3. HasName(e, "sags", v, k)
  BY <1>1, <1>2, AliasArms, AliasRest DEF HasName, OfViews, OfRing, OfAnnotations
<1>4. \A f : HasName(f, "sags", v, k) => f = e
  BY AnnotationName
<1>5. e.stage = Chain[7]
  BY <1>1, PlaceInChain
<1> HIDE DEF e
<1>6. /\ Named("sags", v, k) = IF 7 < at /\ e \in committed[Chain[7]] THEN e ELSE Nothing
      /\ e # Nothing
  BY <1>3, <1>4, <1>5, NamedAt
<1> QED BY <1>1, <1>5, <1>6 DEF Handed, Lost, e

LEMMA NamedPly ==
  ASSUME at \in 1..14, FilesInv, NEW v
  PROVE  /\ Named("model", v, "ply") = Handed(5, "model_generation", "model", v, "ply")
         /\ File("model_generation", "model", v, "ply") # Nothing
<1> DEFINE e == File("model_generation", "model", v, "ply")
<1>1. e.stage = "model_generation" /\ e.dir = "model" /\ e.view = v /\ e.kind = "ply"
  BY DEF File
<1>2. Known(e)
  BY <1>1 DEF Known, Transfers
<1>3. HasName(e, "model", v, "ply")
  BY <1>1, <1>2, AliasArms, AliasRest DEF HasName, OfViews, OfRing, OfAnnotations
<1>4. \A f : HasName(f, "model", v, "ply") => f = e
  BY PlyName
<1>5. e.stage = Chain[5]
  BY <1>1, PlaceInChain
<1> HIDE DEF e
<1>6. /\ Named("model", v, "ply") = IF 5 < at /\ e \in committed[Chain[5]] THEN e ELSE Nothing
      /\ e # Nothing
  BY <1>3, <1>4, <1>5, NamedAt
<1> QED BY <1>1, <1>5, <1>6 DEF Handed, Lost, e

LEMMA NamedMatches ==
  ASSUME at \in 1..14, FilesInv, NEW v
  PROVE  /\ Named("gim", v, "matches") = Handed(8, "gim_match", "gim", v, "matches")
         /\ File("gim_match", "gim", v, "matches") # Nothing
<1> DEFINE e == File("gim_match", "gim", v, "matches")
<1>1. e.stage = "gim_match" /\ e.dir = "gim" /\ e.view = v /\ e.kind = "matches"
  BY DEF File
<1>2. Known(e)
  BY <1>1 DEF Known, Transfers
<1>3. HasName(e, "gim", v, "matches")
  BY <1>1, <1>2, AliasArms, AliasRest DEF HasName, OfViews, OfRing, OfAnnotations
<1>4. \A f : HasName(f, "gim", v, "matches") => f = e
  BY MatchesName
<1>5. e.stage = Chain[8]
  BY <1>1, PlaceInChain
<1> HIDE DEF e
<1>6. /\ Named("gim", v, "matches") = IF 8 < at /\ e \in committed[Chain[8]] THEN e ELSE Nothing
      /\ e # Nothing
  BY <1>3, <1>4, <1>5, NamedAt
<1> QED BY <1>1, <1>5, <1>6 DEF Handed, Lost, e

LEMMA NamedPose ==
  ASSUME at \in 1..14, FilesInv, NEW v
  PROVE  /\ Named("pose", v, "pose") = Handed(9, "estimate_pose", "pose", v, "pose")
         /\ File("estimate_pose", "pose", v, "pose") # Nothing
<1> DEFINE e == File("estimate_pose", "pose", v, "pose")
<1>1. e.stage = "estimate_pose" /\ e.dir = "pose" /\ e.view = v /\ e.kind = "pose"
  BY DEF File
<1>2. Known(e)
  BY <1>1 DEF Known, Transfers
<1>3. HasName(e, "pose", v, "pose")
  BY <1>1, <1>2, AliasArms, AliasRest DEF HasName, OfViews, OfRing, OfAnnotations
<1>4. \A f : HasName(f, "pose", v, "pose") => f = e
  BY PoseName
<1>5. e.stage = Chain[9]
  BY <1>1, PlaceInChain
<1> HIDE DEF e
<1>6. /\ Named("pose", v, "pose") = IF 9 < at /\ e \in committed[Chain[9]] THEN e ELSE Nothing
      /\ e # Nothing
  BY <1>3, <1>4, <1>5, NamedAt
<1> QED BY <1>1, <1>5, <1>6 DEF Handed, Lost, e

LEMMA NamedObject ==
  ASSUME at \in 1..14, FilesInv, NEW v
  PROVE  /\ Named("sags", v, "ply") = Handed(10, "sags_segment_vote", "sags", v, "ply")
         /\ File("sags_segment_vote", "sags", v, "ply") # Nothing
<1> DEFINE e == File("sags_segment_vote", "sags", v, "ply")
<1>1. e.stage = "sags_segment_vote" /\ e.dir = "sags" /\ e.view = v /\ e.kind = "ply"
  BY DEF File
<1>2. Known(e)
  BY <1>1 DEF Known, Transfers
<1>3. HasName(e, "sags", v, "ply")
  BY <1>1, <1>2, AliasArms, AliasRest DEF HasName, OfViews, OfRing, OfAnnotations
<1>4. \A f : HasName(f, "sags", v, "ply") => f = e
  BY ObjectName
<1>5. e.stage = Chain[10]
  BY <1>1, PlaceInChain
<1> HIDE DEF e
<1>6. /\ Named("sags", v, "ply") = IF 10 < at /\ e \in committed[Chain[10]] THEN e ELSE Nothing
      /\ e # Nothing
  BY <1>3, <1>4, <1>5, NamedAt
<1> QED BY <1>1, <1>5, <1>6 DEF Handed, Lost, e

LEMMA NamedManifest ==
  ASSUME at \in 1..14, FilesInv
  PROVE  /\ Named("task", "-", "manifest") = Handed(1, "unity_anchor", "task", "-", "manifest")
         /\ File("unity_anchor", "task", "-", "manifest") # Nothing
<1> DEFINE e == File("unity_anchor", "task", "-", "manifest")
<1>1. e.stage = "unity_anchor" /\ e.dir = "task" /\ e.view = "-" /\ e.kind = "manifest"
  BY DEF File
<1>2. Known(e)
  BY <1>1 DEF Known, Transfers
<1>3. HasName(e, "task", "-", "manifest")
  BY <1>1, <1>2, AliasArms, AliasRest DEF HasName, OfViews, OfRing, OfAnnotations
<1>4. \A f : HasName(f, "task", "-", "manifest") => f = e
  BY ManifestName
<1>5. e.stage = Chain[1]
  BY <1>1, PlaceInChain
<1> HIDE DEF e
<1>6. /\ Named("task", "-", "manifest") = IF 1 < at /\ e \in committed[Chain[1]] THEN e ELSE Nothing
      /\ e # Nothing
  BY <1>3, <1>4, <1>5, NamedAt
<1> QED BY <1>1, <1>5, <1>6 DEF Handed, Lost, e

-----------------------------------------------------------------------------
(* What the stages behind have handed on.                                  *)

PictureOf(c) == File("image_edit", "edit", c, "image")

EditInv ==
  /\ at <= 3 => accepted = {}
  /\ at > 2 => offered # {} /\ \A c \in offered : PictureOf(c) \in committed["image_edit"]
  /\ at > 3 => \E c \in offered : accepted = {c}

ModelInv == at > 5 => ~Lost("model_generation", "model", "-", "ply")

RenderInv ==
  at > 6 =>
    /\ \A k \in {"cameras", "images"} : ~Lost("render_alignment_views", "main", "-", k)
    /\ ~Lost("render_alignment_views", "ring6", "-", "cfg_args")
    /\ \A v \in Views : ~Lost("render_alignment_views", "main", v, "image")
    /\ \A v \in RingViews : ~Lost("render_alignment_views", "ring6", v, "image")

\* The masks of the pairs need all three pictures of the scene, the matches one.
SegmentInv ==
  at > 7 =>
    /\ (\A v \in Views : ~SceneLost(v, "image")) =>
         \A v \in Views : ~Lost("segment_inputs", "scene", v, "mask") /\ ~Lost("segment_inputs", "generated", v, "mask")
    /\ \A v \in RingViews : \A k \in {"mask", "points"} : ~Lost("segment_inputs", "sags_annotations", v, k)

GimInv == at > 8 => \A v \in Views : SceneLost(v, "image") \/ ~Lost("gim_match", "gim", v, "matches")

LastInv ==
  /\ at > 9 => ~Lost("estimate_pose", "pose", "-", "pose")
  /\ at > 10 => ~Lost("sags_segment_vote", "sags", "-", "ply")

HandedInv == EditInv /\ ModelInv /\ RenderInv /\ SegmentInv /\ GimInv /\ LastInv

\* What a plan of estimate_pose has found.
PoseFound ==
  \A v \in Views : /\ ~SceneLost(v, "depth") /\ ~SceneLost(v, "camera")
                   /\ ~Lost("render_alignment_views", "main", v, "depth")
                   /\ ~Lost("gim_match", "gim", v, "matches")
PoseInv ==
  Doing("estimate_pose", "running") => PoseFound

Ready == at \in 1..14 /\ FilesInv /\ HandedInv

\* With the render behind, what counts is the pictures that Unity has exported.
LEMMA PicturesThere ==
  ASSUME Ready, at > 6
  PROVE  /\ AllPictures <=> \A v \in Views : ~SceneLost(v, "image")
         /\ RingPictures
         /\ Pairs = {v \in Views : ~SceneLost(v, "image")}
<1>1. \A v \in Views : There("generated", v, "image")
  BY NamedView DEF Ready, HandedInv, RenderInv, There, Handed
<1>2. \A v \in RingViews : There("sags", v, "image")
  BY NamedRing DEF Ready, HandedInv, RenderInv, There, Handed
<1>3. \A v \in Views : There("scene", v, "image") <=> ~SceneLost(v, "image")
  BY NamedScene DEF Ready, There, Handed, SceneLost
<1> QED BY <1>1, <1>2, <1>3 DEF AllPictures, RingPictures, Pairs

\* Past the gate the accepted picture is the one picture of the edit to be seen.
LEMMA PictureSeen ==
  ASSUME Ready, at > 3
  PROVE  \E c \in offered : /\ accepted = {c} /\ PictureOf(c) \in Visible
                             /\ PictureOf(c).kind = "image" /\ PictureOf(c) # Nothing
                             /\ {f \in Visible : f.kind = "image" /\ Alias(f) = Name("input", "-", "image")}
                                  = {PictureOf(c)}
                             /\ {f \in Visible : Alias(f) = Name("input", "-", "image")} = {PictureOf(c)}
<1>1. PICK c \in offered : accepted = {c} /\ PictureOf(c) \in committed["image_edit"]
  BY DEF Ready, HandedInv, EditInv
<1>2. /\ PictureOf(c).stage = "image_edit" /\ PictureOf(c).kind = "image" /\ PictureOf(c).view = c
      /\ PictureOf(c) # Nothing
  BY DEF PictureOf, File, Nothing
<1>3. PictureOf(c) \in Visible
  <2>1. 2 \in 1..(at - 1) /\ Chain[2] = "image_edit"
    BY PlaceInChain DEF Ready
  <2> QED BY <1>1, <1>2, <2>1 DEF Visible
<1>4. Alias(PictureOf(c)) = Name("input", "-", "image")
  BY <1>2, AliasArms
<1>5. ASSUME NEW f \in Visible, Alias(f) = Name("input", "-", "image") PROVE f = PictureOf(c)
  <2>1. Known(f)
    BY VisibleKnown DEF Ready
  <2>2. f.kind = "image"
    BY <1>5, <2>1, AliasArms, AliasRest, NamesApart
  <2>3. f.stage = "image_edit" /\ f = File("image_edit", "edit", f.view, "image")
    BY <1>5, <2>1, <2>2, InputName DEF HasName
  <2>4. f.view \in accepted
    BY <1>1, <2>3 DEF Visible
  <2> QED BY <1>1, <2>3, <2>4 DEF PictureOf
<1> QED BY <1>1, <1>2, <1>3, <1>4, <1>5

LEMMA LeastNumber ==
  ASSUME NEW T \in SUBSET Nat, T # {} PROVE \E n \in T : \A m \in T : n <= m
<1>1. PICK n \in T : \A m \in T : ~(<<m, n>> \in OpToRel(<, Nat))
  BY NatLessThanWellFounded, WFMin
<1>2. ASSUME NEW m \in T PROVE n <= m
  <2>1. m \in Nat /\ n \in Nat
    OBVIOUS
  <2>2. ~(<<m, n>> \in OpToRel(<, Nat))
    BY <1>1
  <2>3. ~(m < n)
    BY <2>1, <2>2, Zenon DEF OpToRel
  <2> QED BY <2>1, <2>3
<1> QED BY <1>2

\* _first has an answer wherever there is a file.
LEMMA FirstThere ==
  ASSUME Ready, NEW found \in SUBSET Visible, found # {}
  PROVE  First(found) \in found /\ First(found) # Nothing
<1> DEFINE S == {n \in Nat : \E f \in found : Row(f) = n}
<1>1. \A f \in found : Row(f) \in Nat
  <2> SUFFICES ASSUME NEW f \in found PROVE Row(f) \in Nat
    OBVIOUS
  <2>1. \E i \in DOMAIN Chain : Chain[i] = f.stage
    BY VisibleKnown DEF Stages, Ready
  <2> DEFINE c == CHOOSE i \in DOMAIN Chain : Chain[i] = f.stage
  <2>2. c \in 1..13
    BY <2>1, ChainOnce
  <2>3. Row(f) = 2 * c + 0 \/ Row(f) = 2 * c + 1
    BY DEF Row
  <2> HIDE DEF c
  <2> QED BY <2>2, <2>3
<1>2. S \in SUBSET Nat /\ S # {}
  BY <1>1
<1>3. PICK n \in S : \A m \in S : n <= m
  BY <1>2, LeastNumber
<1>4. PICK f \in found : Row(f) = n
  BY <1>3
<1>5. \A g \in found : Row(f) <= Row(g)
  BY <1>1, <1>3, <1>4
<1>6. First(found) \in found
  <2> HIDE DEF S
  <2> QED BY <1>4, <1>5 DEF First
<1> QED BY <1>6, VisibleKnown DEF Ready

-----------------------------------------------------------------------------
(* The plans.                                                              *)

\* _stage_options, arm by arm.
LEMMA UsesArms ==
  /\ Uses("image_edit") = EditUses
  /\ Uses("model_generation") = ModelUses
  /\ Uses("render_alignment_views") = RenderUses
  /\ Uses("segment_inputs") = SegmentUses
  /\ Uses("gim_match") = GimUses
  /\ Uses("estimate_pose") = PoseUses
  /\ Uses("sags_segment_vote") = SagsUses
  /\ Uses("debug_bundle") = BundleUses
  /\ Uses("unity_apply") = {}
BY Zenon DEF Uses

\* A use as RightInputs wants it.
RightUse(u) ==
  /\ u.role \in DOMAIN Meant => u.file = File(Meant[u.role][1], Meant[u.role][2], u.view, Meant[u.role][3])
  /\ u.role = "picture" => u.view \in accepted

LEMMA MeantFiles ==
  /\ Meant["scene"] = <<"unity_anchor", "unity", "image">>
  /\ Meant["scene_depth"] = <<"unity_anchor", "unity", "depth">>
  /\ Meant["scene_camera"] = <<"unity_anchor", "unity", "camera">>
  /\ Meant["picture"] = <<"image_edit", "edit", "image">>
  /\ Meant["ply"] = <<"model_generation", "model", "ply">>
  /\ Meant["generated"] = <<"render_alignment_views", "main", "image">>
  /\ Meant["generated_depth"] = <<"render_alignment_views", "main", "depth">>
  /\ Meant["cameras"] = <<"render_alignment_views", "main", "cameras">>
  /\ Meant["images"] = <<"render_alignment_views", "main", "images">>
  /\ Meant["ring"] = <<"render_alignment_views", "ring6", "image">>
  /\ Meant["model"] = <<"render_alignment_views", "ring6", "cfg_args">>
  /\ Meant["scene_mask"] = <<"segment_inputs", "scene", "mask">>
  /\ Meant["generated_mask"] = <<"segment_inputs", "generated", "mask">>
  /\ Meant["ring_mask"] = <<"segment_inputs", "sags_annotations", "mask">>
  /\ Meant["ring_points"] = <<"segment_inputs", "sags_annotations", "points">>
  /\ Meant["matches"] = <<"gim_match", "gim", "matches">>
  /\ "target" \notin DOMAIN Meant /\ "evidence" \notin DOMAIN Meant
BY DEF Meant

\* Stage by stage: a plan fits or there is an excuse, and it takes the right files.
LEMMA ModelPlanned ==
  ASSUME Ready, ThisStage = "model_generation"
  PROVE  Fits(ThisStage) /\ \A u \in Uses(ThisStage) : RightUse(u)
<1>1. at = 5
  BY AtEach DEF Ready
<1>2. PICK c \in offered : /\ accepted = {c} /\ PictureOf(c) # Nothing
                            /\ {f \in Visible : Alias(f) = Name("input", "-", "image")} = {PictureOf(c)}
  BY <1>1, PictureSeen
<1>3. ModelUses = {Use("picture", c, PictureOf(c))}
  BY <1>2 DEF ModelUses, PictureOf, File
<1>4. Uses(ThisStage) = ModelUses
  BY UsesArms
<1>5. RightUse(Use("picture", c, PictureOf(c)))
  BY <1>2, MeantFiles DEF RightUse, Use, PictureOf
<1>6. Use("picture", c, PictureOf(c)).file # Nothing
  BY <1>2 DEF Use
<1>7. ModelFits
  BY <1>3 DEF ModelFits
<1> QED BY <1>3, <1>4, <1>5, <1>6, <1>7 DEF Fits

LEMMA RenderPlanned ==
  ASSUME Ready, ThisStage = "render_alignment_views"
  PROVE  Fits(ThisStage) /\ \A u \in Uses(ThisStage) : RightUse(u)
<1>1. at = 6
  BY AtEach DEF Ready
<1>2. /\ Named("model", "-", "ply") = File("model_generation", "model", "-", "ply")
      /\ Named("model", "-", "ply") # Nothing
  BY <1>1, NamedPly DEF Ready, HandedInv, ModelInv, Handed
<1>3. Uses(ThisStage) = RenderUses
  BY UsesArms
<1> QED BY <1>2, <1>3, MeantFiles DEF Fits, RightUse, RenderUses, Use

LEMMA EditPlanned ==
  ASSUME Ready, ThisStage = "image_edit", ~Fits("image_edit")
  PROVE  SceneLost("center", "image")
<1>1. at = 2
  BY AtEach DEF Ready
<1>2. /\ Named("scene", "center", "image") = Handed(1, "unity_anchor", "unity", "center", "image")
      /\ File("unity_anchor", "unity", "center", "image") # Nothing
  BY NamedScene DEF Ready
<1>3. Uses("image_edit") = EditUses
  BY UsesArms
<1> QED BY <1>1, <1>2, <1>3 DEF Fits, EditUses, Use, Handed, SceneLost

\* A picture that is there under its name is the one that is meant.
LEMMA PictureRight ==
  ASSUME Ready, NEW v
  PROVE  /\ There("scene", v, "image") =>
              /\ RightUse(Use("scene", v, Named("scene", v, "image")))
              /\ Use("scene", v, Named("scene", v, "image")).file # Nothing
         /\ There("generated", v, "image") =>
              /\ RightUse(Use("generated", v, Named("generated", v, "image")))
              /\ Use("generated", v, Named("generated", v, "image")).file # Nothing
         /\ There("sags", v, "image") =>
              /\ RightUse(Use("ring", v, Named("sags", v, "image")))
              /\ Use("ring", v, Named("sags", v, "image")).file # Nothing
<1>1. There("scene", v, "image") => Named("scene", v, "image") = File("unity_anchor", "unity", v, "image")
  BY NamedScene DEF Ready, There, Handed
<1>2. There("generated", v, "image") =>
        Named("generated", v, "image") = File("render_alignment_views", "main", v, "image")
  BY NamedView DEF Ready, There, Handed
<1>3. There("sags", v, "image") => Named("sags", v, "image") = File("render_alignment_views", "ring6", v, "image")
  BY NamedRing DEF Ready, There, Handed
<1> QED BY <1>1, <1>2, <1>3, MeantFiles DEF RightUse, Use, There

LEMMA SegmentPlanned ==
  ASSUME Ready, ThisStage = "segment_inputs"
  PROVE  /\ Fits(ThisStage) \/ "object" \notin prompts
         /\ \A u \in Uses(ThisStage) : RightUse(u)
<1>1. at = 7
  BY AtEach DEF Ready
<1>2. Uses(ThisStage) = SegmentUses
  BY UsesArms
<1>3. RingPictures
  BY <1>1, PicturesThere
<1>4. ASSUME NEW u \in UsesEach(RingViews, "sags", "image", "ring") PROVE RightUse(u) /\ u.file # Nothing
  BY <1>3, <1>4, PictureRight DEF UsesEach, RingPictures
<1>5. ASSUME AllPictures,
             NEW u \in UsesEach(Views, "scene", "image", "scene")
                         \cup UsesEach(Views, "generated", "image", "generated")
      PROVE  RightUse(u) /\ u.file # Nothing
  BY <1>5, PictureRight DEF UsesEach, AllPictures
<1>6. PICK c \in offered : /\ PictureOf(c) \in Visible /\ PictureOf(c).kind = "image" /\ PictureOf(c) # Nothing
                            /\ {f \in Visible : f.kind = "image" /\ Alias(f) = Name("input", "-", "image")}
                                 = {PictureOf(c)}
  BY <1>1, PictureSeen
<1>7. Named("input", "-", "image") # Nothing
  <2>1. {PictureOf(c)} \in SUBSET Visible
    BY <1>6
  <2> QED BY <1>6, <2>1, FirstThere DEF Named
<1>8. Target # Nothing
  <2> DEFINE found == {f \in Visible : Alias(f) = Name("input", "-", "image") \/ f.kind = "image"}
  <2>1. found \in SUBSET Visible /\ found # {}
    BY <1>6
  <2>2. Target = First(found)
    BY DEF Target
  <2> HIDE DEF found
  <2> QED BY <2>1, <2>2, FirstThere
<1>9. ASSUME NEW f, f # Nothing PROVE RightUse(Use("target", "-", f)) /\ Use("target", "-", f).file # Nothing
  BY <1>9, MeantFiles DEF RightUse, Use
<1>10. ASSUME NEW u \in SegmentUses PROVE RightUse(u) /\ u.file # Nothing
  <2>1. CASE u \in UsesEach(RingViews, "sags", "image", "ring")
    BY <1>4, <2>1
  <2>2. CASE /\ AllPictures
             /\ u \in UsesEach(Views, "scene", "image", "scene")
                        \cup UsesEach(Views, "generated", "image", "generated")
    BY <1>5, <2>2
  <2>3. CASE u = Use("target", "-", Named("input", "-", "image")) \/ u = Use("target", "-", Target)
    BY <1>7, <1>8, <1>9, <2>3
  <2> QED BY <1>10, <2>1, <2>2, <2>3 DEF SegmentUses
<1> QED BY <1>2, <1>10 DEF Fits, SegmentFits

LEMMA GimPlanned ==
  ASSUME Ready, ThisStage = "gim_match"
  PROVE  /\ Fits(ThisStage) \/ \A v \in Views : SceneLost(v, "image")
         /\ \A u \in Uses(ThisStage) : RightUse(u)
         /\ (\A v \in Views : ~SceneLost(v, "image")) =>
              \A v \in Views : \A r \in {"scene", "generated", "scene_mask", "generated_mask"} :
                \E u \in GimUses : u.role = r /\ u.view = v
<1>1. at = 8
  BY AtEach DEF Ready
<1>2. Uses(ThisStage) = GimUses
  BY UsesArms
<1>3. Pairs = {v \in Views : ~SceneLost(v, "image")}
  BY <1>1, PicturesThere
<1>4. ASSUME NEW v \in Pairs
      PROVE  /\ RightUse(Use("scene", v, Named("scene", v, "image")))
             /\ Use("scene", v, Named("scene", v, "image")).file # Nothing
             /\ RightUse(Use("generated", v, Named("generated", v, "image")))
             /\ Use("generated", v, Named("generated", v, "image")).file # Nothing
  BY PictureRight DEF Pairs
<1>5. ASSUME NEW v
      PROVE  /\ Named("scene", v, "mask") = Handed(7, "segment_inputs", "scene", v, "mask")
             /\ Named("generated", v, "mask") = Handed(7, "segment_inputs", "generated", v, "mask")
             /\ File("segment_inputs", "scene", v, "mask") # Nothing
             /\ File("segment_inputs", "generated", v, "mask") # Nothing
  BY NamedSceneMask, NamedViewMask DEF Ready
<1>6. ASSUME NEW v
      PROVE  /\ Named("scene", v, "mask") # Nothing => RightUse(Use("scene_mask", v, Named("scene", v, "mask")))
             /\ Named("generated", v, "mask") # Nothing =>
                  RightUse(Use("generated_mask", v, Named("generated", v, "mask")))
  BY <1>5, MeantFiles DEF RightUse, Use, Handed
<1> DEFINE Shown(v)  == {Use("scene", v, Named("scene", v, "image")),
                         Use("generated", v, Named("generated", v, "image"))}
           Masked(v) == {Use("scene_mask", v, Named("scene", v, "mask")),
                         Use("generated_mask", v, Named("generated", v, "mask"))}
           S == UNION {Shown(v) : v \in Pairs}
           M == UNION {Masked(v) : v \in Pairs}
<1>g. GimUses = S \cup {u \in M : u.file # Nothing}
  BY DEF GimUses
<1>u. ASSUME NEW u
      PROVE  u \in GimUses <=>
               (\E v \in Pairs : u \in Shown(v)) \/ ((\E v \in Pairs : u \in Masked(v)) /\ u.file # Nothing)
  <2> HIDE DEF Shown, Masked
  <2>1. u \in S <=> \E v \in Pairs : u \in Shown(v)
    OBVIOUS
  <2>2. u \in M <=> \E v \in Pairs : u \in Masked(v)
    OBVIOUS
  <2> HIDE DEF S, M
  <2> QED BY <1>g, <2>1, <2>2
<1>7. ASSUME NEW u \in GimUses PROVE RightUse(u) /\ u.file # Nothing
  <2>1. \/ \E v \in Pairs : u \in Shown(v)
        \/ (\E v \in Pairs : u \in Masked(v)) /\ u.file # Nothing
    BY <1>u, <1>7
  <2>5. PICK v \in Pairs : u \in Shown(v) \/ (u \in Masked(v) /\ u.file # Nothing)
    BY <2>1
  <2>2. CASE u = Use("scene", v, Named("scene", v, "image")) \/ u = Use("generated", v, Named("generated", v, "image"))
    BY <1>4, <2>2
  <2>3. CASE u = Use("scene_mask", v, Named("scene", v, "mask")) /\ u.file # Nothing
    BY <1>6, <2>3 DEF Use
  <2>4. CASE u = Use("generated_mask", v, Named("generated", v, "mask")) /\ u.file # Nothing
    BY <1>6, <2>4 DEF Use
  <2> QED BY <2>5, <2>2, <2>3, <2>4
<1>8. ASSUME \A v \in Views : ~SceneLost(v, "image"),
             NEW v \in Views, NEW r \in {"scene", "generated", "scene_mask", "generated_mask"}
      PROVE  \E u \in GimUses : u.role = r /\ u.view = v
  <2>1. v \in Pairs
    BY <1>3, <1>8
  <2>2. Named("scene", v, "mask") # Nothing /\ Named("generated", v, "mask") # Nothing
    BY <1>1, <1>5, <1>8 DEF Ready, HandedInv, SegmentInv, Handed
  <2>7. /\ v \in Pairs
        /\ Use("scene", v, Named("scene", v, "image")) \in Shown(v)
        /\ Use("generated", v, Named("generated", v, "image")) \in Shown(v)
        /\ Use("scene_mask", v, Named("scene", v, "mask")) \in Masked(v)
        /\ Use("generated_mask", v, Named("generated", v, "mask")) \in Masked(v)
    BY <2>1
  <2>8. \A t : t \in GimUses <=>
               (\E x \in Pairs : t \in Shown(x)) \/ ((\E x \in Pairs : t \in Masked(x)) /\ t.file # Nothing)
    BY <1>u
  <2> HIDE DEF Shown, Masked
  <2>3. /\ Use("scene", v, Named("scene", v, "image")) \in GimUses
        /\ Use("generated", v, Named("generated", v, "image")) \in GimUses
    BY <2>8, <2>7
  <2>4. /\ Use("scene_mask", v, Named("scene", v, "mask")).file # Nothing
        /\ Use("generated_mask", v, Named("generated", v, "mask")).file # Nothing
    BY <2>2 DEF Use
  <2>5. /\ Use("scene_mask", v, Named("scene", v, "mask")) \in GimUses
        /\ Use("generated_mask", v, Named("generated", v, "mask")) \in GimUses
    BY <2>8, <2>7, <2>4
  <2>6. \A ro, f : Use(ro, v, f).role = ro /\ Use(ro, v, f).view = v
    BY DEF Use
  <2> QED BY <2>3, <2>5, <2>6
<1> QED BY <1>2, <1>3, <1>7, <1>8 DEF Fits, GimFits

\* The files of one view that estimate_pose takes are there as soon as they are named.
LEMMA PoseFiles ==
  ASSUME Ready, at = 9, NEW v
  PROVE  /\ Named("gim", v, "matches") = Handed(8, "gim_match", "gim", v, "matches")
         /\ Named("scene", v, "depth") = Handed(1, "unity_anchor", "unity", v, "depth")
         /\ Named("scene", v, "camera") = Handed(1, "unity_anchor", "unity", v, "camera")
         /\ Named("generated", v, "depth") = Handed(6, "render_alignment_views", "main", v, "depth")
BY NamedMatches, NamedScene, NamedView DEF Ready

LEMMA PoseFilesThere ==
  ASSUME NEW v
  PROVE  /\ File("gim_match", "gim", v, "matches") # Nothing
         /\ File("unity_anchor", "unity", v, "depth") # Nothing
         /\ File("unity_anchor", "unity", v, "camera") # Nothing
         /\ File("render_alignment_views", "main", v, "depth") # Nothing
BY DEF File, Nothing

LEMMA PosePlanned ==
  ASSUME Ready, ThisStage = "estimate_pose"
  PROVE  /\ Fits(ThisStage) <=> PoseFound
         /\ PoseFound => \A u \in Uses(ThisStage) : RightUse(u)
         /\ \/ PoseFound
            \/ \E v \in Views : \/ \E k \in {"camera", "image", "depth"} : SceneLost(v, k)
                                 \/ Lost("render_alignment_views", "main", v, "depth")
<1>1. at = 9
  BY AtEach DEF Ready
<1>2. Uses(ThisStage) = PoseUses
  BY UsesArms
<1>3. /\ Named("generated", "-", "cameras") = File("render_alignment_views", "main", "-", "cameras")
      /\ Named("generated", "-", "images") = File("render_alignment_views", "main", "-", "images")
      /\ Named("generated", "-", "cameras") # Nothing /\ Named("generated", "-", "images") # Nothing
  BY <1>1, NamedView DEF Ready, HandedInv, RenderInv, Handed
<1> DEFINE Once(u) == \/ u = Use("cameras", "-", Named("generated", "-", "cameras"))
                      \/ u = Use("images", "-", Named("generated", "-", "images"))
           Each(u, v) == \/ u = Use("matches", v, Named("gim", v, "matches"))
                         \/ u = Use("scene_depth", v, Named("scene", v, "depth"))
                         \/ u = Use("scene_camera", v, Named("scene", v, "camera"))
                         \/ u = Use("generated_depth", v, Named("generated", v, "depth"))
<1>4. \A u : u \in PoseUses <=> Once(u) \/ \E v \in Views : Each(u, v)
  BY DEF PoseUses, UsesEach
<1>5. \A u : Once(u) => RightUse(u) /\ u.file # Nothing
  BY <1>3, MeantFiles DEF RightUse, Use
<1>6. ASSUME PoseFound, NEW v \in Views, NEW u, Each(u, v) PROVE RightUse(u) /\ u.file # Nothing
  <2>1. /\ Named("gim", v, "matches") = File("gim_match", "gim", v, "matches")
        /\ Named("scene", v, "depth") = File("unity_anchor", "unity", v, "depth")
        /\ Named("scene", v, "camera") = File("unity_anchor", "unity", v, "camera")
        /\ Named("generated", v, "depth") = File("render_alignment_views", "main", v, "depth")
    BY <1>1, <1>6, PoseFiles DEF PoseFound, Handed, SceneLost
  <2> QED BY <1>6, <2>1, PoseFilesThere, MeantFiles DEF RightUse, Use
<1>7. ASSUME \A u \in PoseUses : u.file # Nothing PROVE PoseFound
  <2> SUFFICES ASSUME NEW v \in Views
               PROVE  /\ ~SceneLost(v, "depth") /\ ~SceneLost(v, "camera")
                      /\ ~Lost("render_alignment_views", "main", v, "depth")
                      /\ ~Lost("gim_match", "gim", v, "matches")
    BY DEF PoseFound
  <2>1. /\ Use("matches", v, Named("gim", v, "matches")) \in PoseUses
        /\ Use("scene_depth", v, Named("scene", v, "depth")) \in PoseUses
        /\ Use("scene_camera", v, Named("scene", v, "camera")) \in PoseUses
        /\ Use("generated_depth", v, Named("generated", v, "depth")) \in PoseUses
    BY <1>4
  <2>2. /\ Named("gim", v, "matches") # Nothing /\ Named("scene", v, "depth") # Nothing
        /\ Named("scene", v, "camera") # Nothing /\ Named("generated", v, "depth") # Nothing
    BY <1>7, <2>1 DEF Use
  <2> QED BY <1>1, <2>2, PoseFiles DEF Handed, SceneLost
<1> HIDE DEF Once, Each
<1>8. Fits(ThisStage) <=> \A u \in PoseUses : u.file # Nothing
  BY <1>2 DEF Fits
<1>9. \A v \in Views : ~SceneLost(v, "image") => ~Lost("gim_match", "gim", v, "matches")
  BY <1>1 DEF Ready, HandedInv, GimInv
<1> QED BY <1>2, <1>4, <1>5, <1>6, <1>7, <1>8, <1>9 DEF PoseFound

LEMMA SagsPlanned ==
  ASSUME Ready, ThisStage = "sags_segment_vote"
  PROVE  /\ Fits(ThisStage) \/ ~(strays \subseteq {})
         /\ \A u \in Uses(ThisStage) : RightUse(u)
<1>1. at = 10
  BY AtEach DEF Ready
<1>2. Uses(ThisStage) = SagsUses
  BY UsesArms
<1>3. /\ Named("sags", "-", "cfg_args") = File("render_alignment_views", "ring6", "-", "cfg_args")
      /\ Named("sags", "-", "cfg_args") # Nothing
  BY <1>1, NamedRing DEF Ready, HandedInv, RenderInv, Handed
<1>4. ASSUME NEW v \in RingViews, NEW k \in {"mask", "points"}
      PROVE  /\ Named("sags", v, k) = File("segment_inputs", "sags_annotations", v, k)
             /\ Named("sags", v, k) # Nothing
  BY <1>1, NamedAnnotation DEF Ready, HandedInv, SegmentInv, Handed
<1>5. ASSUME NEW u \in SagsUses PROVE RightUse(u) /\ u.file # Nothing
  <2>1. CASE u = Use("model", "-", Named("sags", "-", "cfg_args"))
    BY <1>3, <2>1, MeantFiles DEF RightUse, Use
  <2>2. CASE u \in UsesEach(RingViews, "sags", "mask", "ring_mask")
    BY <1>4, <2>2, MeantFiles DEF RightUse, Use, UsesEach
  <2>3. CASE u \in UsesEach(RingViews, "sags", "points", "ring_points")
    BY <1>4, <2>3, MeantFiles DEF RightUse, Use, UsesEach
  <2> QED BY <1>5, <2>1, <2>2, <2>3 DEF SagsUses
<1> QED BY <1>2, <1>5 DEF Fits, Covered

LEMMA BundlePlanned ==
  ASSUME Ready, ThisStage = "debug_bundle"
  PROVE  Fits(ThisStage) /\ \A u \in Uses(ThisStage) : RightUse(u)
<1>1. at = 11
  BY AtEach DEF Ready
<1>2. Uses(ThisStage) = BundleUses
  BY UsesArms
<1>3. Visible # {}
  BY <1>1, PictureSeen
<1>4. ASSUME NEW u \in BundleUses PROVE RightUse(u) /\ u.file # Nothing
  <2>1. PICK f \in Visible : u = Use("evidence", f.view, f)
    BY <1>4 DEF BundleUses
  <2>2. f # Nothing
    BY VisibleKnown DEF Ready
  <2> QED BY <2>1, <2>2, MeantFiles DEF RightUse, Use
<1> QED BY <1>2, <1>3, <1>4 DEF Fits

-----------------------------------------------------------------------------
(* The outputs.                                                            *)

\* required_outputs, plan by plan, and what lies beside them.
LEMMA PromisesArms ==
  /\ Promises("model_generation") = ModelPromises
  /\ Promises("render_alignment_views") = RenderPromises
  /\ Promises("segment_inputs") = SegmentPromises
  /\ Promises("gim_match") = GimPromises
  /\ Promises("estimate_pose") = PosePromises
  /\ Promises("sags_segment_vote") = SagsPromises
  /\ Promises("debug_bundle") = BundlePromises
BY Zenon DEF Promises

RenderBeside ==
  PerView("render_alignment_views", "main", Views, {"depth"}) \cup Listed("render_alignment_views", "main", {"cloud"})
  \cup Listed("render_alignment_views", "ring6", {"cloud"})
SceneFiles ==
  PerView("unity_anchor", "unity", Views, {"camera", "image", "depth"}) \cup Listed("unity_anchor", "task", {"manifest"})

LEMMA BesideArms ==
  /\ Beside("render_alignment_views") = RenderBeside
  /\ Beside("unity_anchor") = SceneFiles
  /\ \A s : s # "render_alignment_views" /\ s # "unity_anchor" => Beside(s) = {}
<1>1. Beside("render_alignment_views") = RenderBeside
  BY Zenon DEF Beside, RenderBeside
<1>2. Beside("unity_anchor") = SceneFiles
  BY Zenon DEF Beside, SceneFiles
<1>3. \A s : s # "render_alignment_views" /\ s # "unity_anchor" => Beside(s) = {}
  BY Zenon DEF Beside
<1> QED BY <1>1, <1>2, <1>3

\* The same of a file that is written down part by part.
LEMMA FileKnown ==
  ASSUME NEW s, NEW d, NEW v, NEW k,
         \/ s = "unity_anchor" /\ d = "unity" /\ k \in {"camera", "image", "depth"}
         \/ s = "unity_anchor" /\ d = "task" /\ k = "manifest" /\ v = "-"
         \/ s = "image_edit" /\ d = "edit" /\ k \in {"image", "manifest"}
         \/ s \in Transfers /\ d = "transfer" /\ k = "receipt"
         \/ s = "model_generation" /\ d \in {"model", "model_input"} /\ k \in {"ply", "manifest", "cutout"}
         \/ s = "render_alignment_views" /\ d \in {"main", "ring6"}
            /\ k \in {"views", "cameras", "images", "cfg_args", "image", "depth", "cloud"}
         \/ s = "segment_inputs" /\ d \in {"anchor", "target"} /\ k \in {"mask", "cutout", "points", "manifest"}
         \/ s = "segment_inputs" /\ d \in {"scene", "generated"} /\ k = "mask"
         \/ s = "segment_inputs" /\ d = "sags_annotations" /\ k \in {"mask", "points", "manifest"}
         \/ s = "gim_match" /\ d = "gim" /\ k \in {"matches", "match", "warp"}
         \/ s = "estimate_pose" /\ d = "pose" /\ k \in {"pose", "summary"}
         \/ s = "sags_segment_vote" /\ d = "sags" /\ k \in {"ply", "manifest", "diagnostics"}
         \/ s = "debug_bundle" /\ d = "bundle"
  PROVE  Known(File(s, d, v, k)) /\ File(s, d, v, k).stage = s
<1> DEFINE e == File(s, d, v, k)
<1>1. e.stage = s /\ e.dir = d /\ e.view = v /\ e.kind = k
  BY DEF File
<1>2. e = File(e.stage, e.dir, e.view, e.kind)
  BY <1>1
<1> HIDE DEF e
<1>3. Known(e)
  BY <1>1, <1>2 DEF Known
<1> QED BY <1>1, <1>3 DEF e

LEMMA SceneKnown ==
  ASSUME NEW f \in SceneFiles PROVE Known(f) /\ f.stage = "unity_anchor"
BY FileKnown DEF SceneFiles, PerView, Listed

\* A stage writes files of its own kinds.
LEMMA OutputsKnown ==
  ASSUME ThisStage \in Adapted, NEW f \in Promises(ThisStage) \cup Beside(ThisStage)
  PROVE  Known(f) /\ f.stage = ThisStage
<1>1. CASE ThisStage = "model_generation"
  <2>1. f \in ModelPromises
    BY <1>1, PromisesArms, BesideArms
  <2> QED BY <1>1, <2>1, FileKnown DEF ModelPromises, PerView, Listed
<1>2. CASE ThisStage = "render_alignment_views"
  <2>1. f \in RenderPromises \cup RenderBeside
    BY <1>2, PromisesArms, BesideArms
  <2> QED BY <1>2, <2>1, FileKnown DEF RenderPromises, RenderBeside, PerView, Listed
<1>3. CASE ThisStage = "segment_inputs"
  <2>1. f \in SegmentPromises
    BY <1>3, PromisesArms, BesideArms
  <2>2. \/ f \in Listed("segment_inputs", "anchor", {"manifest"})
        \/ f \in PerView("segment_inputs", "scene", Views, {"mask"})
        \/ f \in PerView("segment_inputs", "generated", Views, {"mask"})
        \/ f \in Listed("segment_inputs", "target", {"mask", "cutout", "points", "manifest"})
        \/ f \in PerView("segment_inputs", "sags_annotations", RingViews, RingPromises)
    BY <2>1 DEF SegmentPromises
  <2> QED BY <1>3, <2>2, FileKnown DEF PerView, Listed, RingPromises
<1>4. CASE ThisStage = "gim_match"
  <2>1. f \in GimPromises
    BY <1>4, PromisesArms, BesideArms
  <2> QED BY <1>4, <2>1, FileKnown DEF GimPromises, PerView, Listed
<1>5. CASE ThisStage = "estimate_pose"
  <2>1. f \in PosePromises
    BY <1>5, PromisesArms, BesideArms
  <2> QED BY <1>5, <2>1, FileKnown DEF PosePromises, PerView, Listed
<1>6. CASE ThisStage = "sags_segment_vote"
  <2>1. f \in SagsPromises
    BY <1>6, PromisesArms, BesideArms
  <2> QED BY <1>6, <2>1, FileKnown DEF SagsPromises, PerView, Listed
<1>7. CASE ThisStage = "debug_bundle"
  <2>1. f \in BundlePromises
    BY <1>7, PromisesArms, BesideArms
  <2> QED BY <1>7, <2>1, FileKnown DEF BundlePromises, PerView, Listed
<1> QED BY <1>1, <1>2, <1>3, <1>4, <1>5, <1>6, <1>7 DEF Adapted

\* Whatever a later stage counts on is promised.
Promised(n, X) ==
  /\ n = 5 => File("model_generation", "model", "-", "ply") \in X
  /\ n = 6 =>
       /\ \A k \in {"cameras", "images"} : File("render_alignment_views", "main", "-", k) \in X
       /\ File("render_alignment_views", "ring6", "-", "cfg_args") \in X
       /\ \A v \in Views : File("render_alignment_views", "main", v, "image") \in X
       /\ \A v \in RingViews : File("render_alignment_views", "ring6", v, "image") \in X
  /\ n = 7 =>
       /\ (\A v \in Views : ~SceneLost(v, "image")) =>
            \A v \in Views : /\ File("segment_inputs", "scene", v, "mask") \in X
                             /\ File("segment_inputs", "generated", v, "mask") \in X
       /\ \A v \in RingViews : \A k \in {"mask", "points"} : File("segment_inputs", "sags_annotations", v, k) \in X
  /\ n = 8 => \A v \in Views : SceneLost(v, "image") \/ File("gim_match", "gim", v, "matches") \in X
  /\ n = 9 => File("estimate_pose", "pose", "-", "pose") \in X
  /\ n = 10 => File("sags_segment_vote", "sags", "-", "ply") \in X

LEMMA StagePromises ==
  ASSUME Ready, ThisStage \in Adapted, NEW X, Promises(ThisStage) \subseteq X
  PROVE  Promised(at, X)
<1>1. at = 5 => File("model_generation", "model", "-", "ply") \in X
  <2>1. at = 5 => ModelPromises \subseteq X
    BY AtEach, PromisesArms DEF Ready
  <2> QED BY <2>1 DEF ModelPromises, Listed
<1>2. ASSUME at = 6
      PROVE  /\ \A k \in {"cameras", "images"} : File("render_alignment_views", "main", "-", k) \in X
             /\ File("render_alignment_views", "ring6", "-", "cfg_args") \in X
             /\ \A v \in Views : File("render_alignment_views", "main", v, "image") \in X
             /\ \A v \in RingViews : File("render_alignment_views", "ring6", v, "image") \in X
  <2>1. RenderPromises \subseteq X
    BY <1>2, AtEach, PromisesArms DEF Ready
  <2> QED BY <2>1 DEF RenderPromises, Listed, PerView
<1>3. ASSUME at = 7
      PROVE  /\ (\A v \in Views : ~SceneLost(v, "image")) =>
                  \A v \in Views : /\ File("segment_inputs", "scene", v, "mask") \in X
                                   /\ File("segment_inputs", "generated", v, "mask") \in X
             /\ \A v \in RingViews : \A k \in {"mask", "points"} :
                  File("segment_inputs", "sags_annotations", v, k) \in X
  <2>1. SegmentPromises \subseteq X
    BY <1>3, AtEach, PromisesArms DEF Ready
  <2>2. RingPictures /\ (AllPictures <=> \A v \in Views : ~SceneLost(v, "image"))
    BY <1>3, PicturesThere
  <2>3. PerView("segment_inputs", "sags_annotations", RingViews, RingPromises) \subseteq X
    BY <2>1, <2>2 DEF SegmentPromises
  <2>4. ASSUME \A v \in Views : ~SceneLost(v, "image")
        PROVE  /\ PerView("segment_inputs", "scene", Views, {"mask"}) \subseteq X
               /\ PerView("segment_inputs", "generated", Views, {"mask"}) \subseteq X
    BY <2>1, <2>2, <2>4 DEF SegmentPromises
  <2> QED BY <2>3, <2>4 DEF PerView, RingPromises
<1>4. ASSUME at = 8, NEW v \in Views, ~SceneLost(v, "image") PROVE File("gim_match", "gim", v, "matches") \in X
  <2>1. GimPromises \subseteq X
    BY <1>4, AtEach, PromisesArms DEF Ready
  <2>2. v \in Pairs
    BY <1>4, PicturesThere
  <2> QED BY <2>1, <2>2 DEF GimPromises, PerView
<1>5. at = 9 => File("estimate_pose", "pose", "-", "pose") \in X
  <2>1. at = 9 => PosePromises \subseteq X
    BY AtEach, PromisesArms DEF Ready
  <2> QED BY <2>1 DEF PosePromises, Listed
<1>6. at = 10 => File("sags_segment_vote", "sags", "-", "ply") \in X
  <2>1. at = 10 => SagsPromises \subseteq X
    BY AtEach, PromisesArms DEF Ready
  <2> QED BY <2>1 DEF SagsPromises, Listed
<1> QED BY <1>1, <1>2, <1>3, <1>4, <1>5, <1>6 DEF Promised

-----------------------------------------------------------------------------
(* The invariant.                                                          *)

\* The types; who is at work has an attempt left, and what runs is a stage that can.
StateInv ==
  /\ at \in 1..14 /\ left \in 0..3
  /\ status \in {"ready", "sent", "running", "failed", "rejected", "done"}
  /\ why \in {"-", "refused", "missing", "quality", "network", "tool", "worker"}
  /\ strays \subseteq {"partial", "cache"} /\ retries \in 0..MaxRetries
  /\ status \in {"ready", "sent", "running"} => left > 0
  /\ status = "running" => ThisStage \in Adapted \cup {"unity_apply"}

\* The files before the next one of the workspace are there, and only a manifest is
\* ever torn.
WorkInv ==
  /\ workspace \in [WorkspaceFiles -> {"none", "torn", "there"}]
  /\ \A w \in WorkspaceFiles : workspace[w] = "torn" => w \in ManifestFiles
  /\ step \in 1..5 /\ (step > 1 => Doing("unity_apply", "ready"))
  /\ \A i \in 1..5 : i < step => workspace[WorkspaceSteps[i]] = "there"
  /\ Doing("unity_apply", "running") => \A w \in WorkspaceFiles : workspace[w] = "there"

InputsInv == StateInv /\ FilesInv /\ HandedInv /\ PoseInv /\ WorkInv /\ ChainFits

-----------------------------------------------------------------------------
(* What a step does to the files.                                          *)

\* It leaves them, ...
Still == UNCHANGED <<at, committed, offered, accepted>>

\* ... or the stage at hand commits some and the next one is ready.
CommitsNew(X) ==
  /\ at \in 1..12 /\ at # 3 /\ at' = at + 1 /\ accepted' = accepted
  /\ committed' = [committed EXCEPT ![ThisStage] = X]
  /\ \A f \in X : Known(f) /\ f.stage = ThisStage
  /\ Promised(at, X)
  /\ IF at = 2 THEN offered' # {} /\ \A c \in offered' : PictureOf(c) \in X ELSE offered' = offered

LEMMA AdaptedAt ==
  ASSUME at \in 1..14
  PROVE  /\ ThisStage \in Adapted <=> at \in 5..11
         /\ ThisStage \in Transfers <=> at \in {4, 12}
<1>1. ThisStage \in Adapted <=> at = 5 \/ at = 6 \/ at = 7 \/ at = 8 \/ at = 9 \/ at = 10 \/ at = 11
  BY AtEach DEF Adapted
<1>2. ThisStage \in Transfers <=> at = 4 \/ at = 12
  BY AtEach DEF Transfers
<1> QED BY <1>1, <1>2

\* The four actions that commit files, and then all the steps.
LEMMA ExportsFiles ==
  ASSUME Ready, Exports
  PROVE  \E X : CommitsNew(X)
<1>1. at = 1 /\ ThisStage = "unity_anchor"
  BY AtEach DEF Ready, Exports, Doing
<1>2. PICK lost : committed' = [committed EXCEPT !["unity_anchor"] = Beside("unity_anchor") \ lost]
  BY DEF Exports
<1>3. \A f \in Beside("unity_anchor") \ lost : Known(f) /\ f.stage = "unity_anchor"
  BY SceneKnown, BesideArms
<1>4. Promised(1, Beside("unity_anchor") \ lost)
  BY DEF Promised
<1>5. at' = at + 1 /\ accepted' = accepted /\ offered' = offered
  BY DEF Exports, Passes
<1>6. CommitsNew(Beside("unity_anchor") \ lost)
  BY <1>1, <1>2, <1>3, <1>4, <1>5 DEF CommitsNew
<1> QED BY <1>6

LEMMA EditsFiles ==
  ASSUME Ready, Edits
  PROVE  Still \/ \E X : CommitsNew(X)
<1>1. at = 2 /\ ThisStage = "image_edit" /\ "image_edit" \in Stages
  BY AtEach, PlaceInChain, ChainOnce DEF Ready, Edits, Doing
<1>2. CASE ~Fits("image_edit")
  BY <1>2 DEF Edits, Still, Fails, files
<1>3. CASE Fits("image_edit")
  <2>1. PICK new : /\ new # {} /\ offered' = new /\ Passes /\ accepted' = accepted
                   /\ committed' = [committed EXCEPT !["image_edit"] =
                        @ \cup PerView("image_edit", "edit", new, {"image", "manifest"})]
    BY <1>3 DEF Edits
  <2> DEFINE X == committed["image_edit"] \cup PerView("image_edit", "edit", new, {"image", "manifest"})
  <2>2. \A f \in X : Known(f) /\ f.stage = "image_edit"
    <3>1. \A f \in committed["image_edit"] : Known(f) /\ f.stage = "image_edit"
      BY <1>1 DEF Ready, FilesInv
    <3>2. \A f \in PerView("image_edit", "edit", new, {"image", "manifest"}) : Known(f) /\ f.stage = "image_edit"
      BY FileKnown DEF PerView
    <3> QED BY <3>1, <3>2
  <2>3. \A c \in offered' : PictureOf(c) \in X
    BY <2>1 DEF PictureOf, PerView
  <2>4. Promised(at, X)
    BY <1>1 DEF Promised
  <2>5. committed' = [committed EXCEPT ![ThisStage] = X] /\ at' = at + 1 /\ offered' # {} /\ accepted' = accepted
    BY <1>1, <2>1 DEF Passes
  <2> HIDE DEF X
  <2>7. at \in 1..12 /\ at # 3 /\ \A f \in X : Known(f) /\ f.stage = ThisStage
    BY <1>1, <2>2
  <2>6. CommitsNew(X)
    BY <1>1, <2>3, <2>4, <2>5, <2>7 DEF CommitsNew
  <2> QED BY <2>6
<1> QED BY <1>2, <1>3

LEMMA ReceiptsFiles ==
  ASSUME Ready, Receipts
  PROVE  \E X : CommitsNew(X)
<1>1. at \in {4, 12} /\ ThisStage \in Transfers
  BY AdaptedAt DEF Ready, Receipts
<1> DEFINE X == Listed(ThisStage, "transfer", {"receipt"})
<1>2. \A f \in X : Known(f) /\ f.stage = ThisStage
  BY <1>1, FileKnown DEF Listed
<1>3. Promised(at, X)
  BY <1>1 DEF Promised
<1>4. committed' = [committed EXCEPT ![ThisStage] = X] /\ at' = at + 1 /\ accepted' = accepted /\ offered' = offered
  BY DEF Receipts, Passes
<1> HIDE DEF X
<1>5. CommitsNew(X)
  BY <1>1, <1>2, <1>3, <1>4 DEF CommitsNew
<1> QED BY <1>5

LEMMA FinishesFiles ==
  ASSUME Ready, Finishes
  PROVE  Still \/ \E X : CommitsNew(X)
<1>1. at \in 5..11 /\ ThisStage \in Adapted
  BY AdaptedAt DEF Ready, Finishes
<1> DEFINE all == Promises(ThisStage) \cup Beside(ThisStage)
<1>2. PICK lost : \/ UNCHANGED <<at, committed>>
                  \/ /\ lost \cap Promises(ThisStage) = {} /\ Passes
                     /\ committed' = [committed EXCEPT ![ThisStage] = all \ lost]
  BY DEF Finishes, Fails
<1>3. accepted' = accepted /\ offered' = offered
  BY DEF Finishes
<1>4. CASE UNCHANGED <<at, committed>>
  BY <1>3, <1>4 DEF Still
<1>5. CASE lost \cap Promises(ThisStage) = {} /\ committed' = [committed EXCEPT ![ThisStage] = all \ lost] /\ Passes
  <2> DEFINE X == all \ lost
  <2>1. Promises(ThisStage) \subseteq X
    BY <1>5
  <2>2. \A f \in X : Known(f) /\ f.stage = ThisStage
    BY <1>1, OutputsKnown
  <2>3. committed' = [committed EXCEPT ![ThisStage] = X] /\ at' = at + 1
    BY <1>5 DEF Passes
  <2> HIDE DEF X
  <2>4. Promised(at, X)
    BY <1>1, <2>1, StagePromises
  <2>5. CommitsNew(X)
    BY <1>1, <1>3, <2>2, <2>3, <2>4 DEF CommitsNew
  <2> QED BY <2>5
<1> QED BY <1>2, <1>4, <1>5

LEMMA FileSteps ==
  ASSUME Ready, [InputsNext]_inputsVars
  PROVE  \/ Still
         \/ (\E X : CommitsNew(X))
         \/ (\E c \in Candidates : Accepts(c))
         \/ Regenerates
         \/ UnityApplies
<1>1. CASE UNCHANGED inputsVars
  BY <1>1 DEF inputsVars, Still
<1>2. CASE Exports
  BY <1>2, ExportsFiles
<1>3. CASE Edits
  BY <1>3, EditsFiles
<1>4. CASE Receipts
  BY <1>4, ReceiptsFiles
<1>5. CASE Finishes
  BY <1>5, FinishesFiles
<1>6. CASE Sends \/ Plans
  BY <1>6 DEF Sends, Plans, Turns, Fails, files, Still
<1>7. CASE UploadCut \/ ToolFails \/ PublisherDies \/ UnityFails
  BY <1>7 DEF UploadCut, ToolFails, PublisherDies, UnityFails, Again, files, Still
<1>8. CASE Publishes
  BY <1>8 DEF Publishes, Turns, Fails, files, Still
<1>9. CASE Retries
  BY <1>9 DEF Retries, files, Still
<1> QED BY <1>1, <1>2, <1>3, <1>4, <1>5, <1>6, <1>7, <1>8, <1>9 DEF InputsNext

\* What the others have committed stays, and so does what counts on it.
LEMMA CommitsOne ==
  ASSUME Ready, NEW X, CommitsNew(X)
  PROVE  /\ committed'[Chain[at]] = X
         /\ \A n \in 1..13 : n # at => committed'[Chain[n]] = committed[Chain[n]]
<1>1. at \in 1..12 /\ at \in 1..13 /\ ThisStage = Chain[at]
  BY AtStage DEF CommitsNew, Ready
<1>2. /\ DOMAIN committed = Stages /\ committed' = [committed EXCEPT ![Chain[at]] = X]
      /\ \A n \in 1..13 : Chain[n] \in Stages
  BY <1>1, ChainOnce DEF CommitsNew, Ready, FilesInv
<1>3. \A n \in 1..13 : n # at => Chain[n] # Chain[at]
  BY <1>1, ChainOnce
<1> QED BY <1>1, <1>2, <1>3

LEMMA FilesStep ==
  ASSUME Ready, [InputsNext]_inputsVars
  PROVE  at' \in 1..14 /\ FilesInv'
<1>1. CASE Still
  BY <1>1 DEF Still, Ready, FilesInv
<1>2. ASSUME NEW X, CommitsNew(X) PROVE at' \in 1..14 /\ FilesInv'
  <2>1. at' \in 1..14
    BY <1>2 DEF CommitsNew
  <2>2. DOMAIN committed' = Stages
    BY <1>2 DEF CommitsNew, Ready, FilesInv
  <2>3. ASSUME NEW s \in Stages, NEW f \in committed'[s] PROVE f.stage = s /\ Known(f)
    <3>1. PICK n \in 1..13 : Chain[n] = s
      BY StageOfIndex
    <3>2. CASE n = at
      <4>1. f \in X /\ ThisStage = s
        BY <1>2, <2>3, <3>1, <3>2, CommitsOne, AtStage DEF Ready
      <4> QED BY <1>2, <4>1 DEF CommitsNew
    <3>3. CASE n # at
      <4>1. f \in committed[s]
        BY <1>2, <2>3, <3>1, <3>3, CommitsOne
      <4> QED BY <4>1 DEF Ready, FilesInv
    <3> QED BY <3>2, <3>3
  <2> QED BY <2>1, <2>2, <2>3 DEF FilesInv
<1>3. ASSUME NEW c \in Candidates, Accepts(c) PROVE at' \in 1..14 /\ FilesInv'
  <2>1. at = 3 /\ at' = at + 1 /\ committed' = committed
    BY <1>3, AtEach DEF Accepts, Doing, Passes, Ready
  <2> QED BY <2>1 DEF Ready, FilesInv
<1>4. CASE Regenerates
  <2>1. at = 3 /\ at' = at - 1 /\ committed' = committed
    BY <1>4, AtEach DEF Regenerates, Doing, files, Ready
  <2> QED BY <2>1 DEF Ready, FilesInv
<1>5. CASE UnityApplies
  <2>1. at = 13 /\ at' = at + 1 /\ committed' = committed
    BY <1>5, AtEach DEF UnityApplies, Doing, Passes, files, Ready
  <2> QED BY <2>1 DEF Ready, FilesInv
<1> QED BY <1>1, <1>2, <1>3, <1>4, <1>5, FileSteps

LEMMA HandedOn ==
  ASSUME Ready, NEW X, CommitsNew(X)
  PROVE  HandedInv'
<1>1. at \in 1..12 /\ at # 3 /\ at' = at + 1 /\ accepted' = accepted
  BY DEF CommitsNew
<1>2. Promised(at, X)
  BY DEF CommitsNew
<1>3. HandedInv
  BY DEF Ready
<1>c. \A n \in 1..13 : committed'[Chain[n]] = IF n = at THEN X ELSE committed[Chain[n]]
  <2>1. at \in 1..13
    BY <1>1
  <2> QED BY <2>1, CommitsOne
<1>4. /\ committed'["unity_anchor"] = IF at = 1 THEN X ELSE committed["unity_anchor"]
      /\ committed'["image_edit"] = IF at = 2 THEN X ELSE committed["image_edit"]
      /\ committed'["model_generation"] = IF at = 5 THEN X ELSE committed["model_generation"]
      /\ committed'["render_alignment_views"] = IF at = 6 THEN X ELSE committed["render_alignment_views"]
      /\ committed'["segment_inputs"] = IF at = 7 THEN X ELSE committed["segment_inputs"]
      /\ committed'["gim_match"] = IF at = 8 THEN X ELSE committed["gim_match"]
      /\ committed'["estimate_pose"] = IF at = 9 THEN X ELSE committed["estimate_pose"]
      /\ committed'["sags_segment_vote"] = IF at = 10 THEN X ELSE committed["sags_segment_vote"]
  BY <1>c, PlaceInChain
<1>5. EditInv'
  <2>1. CASE at = 2
    BY <1>1, <1>3, <1>4, <2>1 DEF CommitsNew, HandedInv, EditInv
  <2>2. CASE at # 2
    <3>1. offered' = offered
      BY <2>2 DEF CommitsNew
    <3> QED BY <1>1, <1>3, <1>4, <2>2, <3>1 DEF HandedInv, EditInv
  <2> QED BY <2>1, <2>2
<1>6. ModelInv'
  BY <1>1, <1>2, <1>3, <1>4 DEF HandedInv, ModelInv, Lost, Promised
<1>7. RenderInv'
  BY <1>1, <1>2, <1>3, <1>4 DEF HandedInv, RenderInv, Lost, Promised
<1>8. at > 1 => \A v, k : SceneLost(v, k)' <=> SceneLost(v, k)
  BY <1>1, <1>4 DEF SceneLost, Lost
<1>9. SegmentInv'
  BY <1>1, <1>2, <1>3, <1>4, <1>8 DEF HandedInv, SegmentInv, Lost, Promised
<1>10. GimInv'
  BY <1>1, <1>2, <1>3, <1>4, <1>8 DEF HandedInv, GimInv, Lost, Promised
<1>11. LastInv'
  BY <1>1, <1>2, <1>3, <1>4 DEF HandedInv, LastInv, Lost, Promised
<1> QED BY <1>5, <1>6, <1>7, <1>9, <1>10, <1>11 DEF HandedInv

LEMMA HandedStep ==
  ASSUME Ready, [InputsNext]_inputsVars
  PROVE  HandedInv'
<1>1. CASE Still
  BY <1>1 DEF Still, Ready, HandedInv, EditInv, ModelInv, RenderInv, SegmentInv, GimInv, LastInv, Lost, SceneLost
<1>2. ASSUME NEW X, CommitsNew(X) PROVE HandedInv'
  BY <1>2, HandedOn
<1>3. ASSUME NEW c \in Candidates, Accepts(c) PROVE HandedInv'
  <2>1. at = 3 /\ at' = 4 /\ UNCHANGED <<committed, offered>> /\ accepted' = {c} /\ c \in offered
    BY <1>3, AtEach DEF Accepts, Doing, Passes, Ready
  <2> QED BY <2>1 DEF Ready, HandedInv, EditInv, ModelInv, RenderInv, SegmentInv, GimInv, LastInv
<1>4. CASE Regenerates
  <2>1. at = 3 /\ at' = 2 /\ UNCHANGED <<committed, offered, accepted>>
    BY <1>4, AtEach DEF Regenerates, Doing, files, Ready
  <2> QED BY <2>1 DEF Ready, HandedInv, EditInv, ModelInv, RenderInv, SegmentInv, GimInv, LastInv
<1>5. CASE UnityApplies
  <2>1. at = 13 /\ at' = 14 /\ UNCHANGED <<committed, offered, accepted>>
    BY <1>5, AtEach DEF UnityApplies, Doing, Passes, files, Ready
  <2> QED BY <2>1
        DEF Ready, HandedInv, EditInv, ModelInv, RenderInv, SegmentInv, GimInv, LastInv, Lost, SceneLost
<1> QED BY <1>1, <1>2, <1>3, <1>4, <1>5, FileSteps

-----------------------------------------------------------------------------
(* The steps.                                                              *)

LEMMA AttemptsFew == \A s : Attempts(s) \in 1..3
<1>1. \A s : Attempts(s) = 1 \/ Attempts(s) = 3 \/ Attempts(s) = 2
  BY Zenon DEF Attempts
<1> QED BY <1>1

\* A plan fits before a stage runs on the server, and the workspace is whole before Unity runs.
LEMMA RunsThen ==
  ASSUME Ready, StateInv, [InputsNext]_inputsVars, status' = "running"
  PROVE  \/ UNCHANGED inputsVars
         \/ ThisStage \in Adapted /\ Fits(ThisStage) /\ UNCHANGED <<at, files, step, workspace>>
         \/ Publishes /\ ThisStage = "unity_apply" /\ UNCHANGED <<at, files>>
<1>1. CASE Exports \/ Receipts \/ UnityApplies \/ (\E c \in Candidates : Accepts(c))
  BY <1>1 DEF Exports, Receipts, UnityApplies, Accepts, Passes
<1>2. CASE Edits
  BY <1>2 DEF Edits, Fails, Passes
<1>3. CASE Finishes
  BY <1>3 DEF Finishes, Fails, Passes
<1>4. CASE Sends \/ Regenerates \/ Retries
  BY <1>4 DEF Sends, Regenerates, Retries, Turns
<1>5. CASE UploadCut \/ ToolFails \/ PublisherDies \/ UnityFails
  BY <1>5 DEF UploadCut, ToolFails, PublisherDies, UnityFails, Again
<1>6. CASE Plans
  BY <1>6 DEF Plans, Turns, Fails, files
<1>7. CASE Publishes
  BY <1>7 DEF Publishes, Doing, Turns, Fails, files, progress
<1> QED BY <1>1, <1>2, <1>3, <1>4, <1>5, <1>6, <1>7 DEF InputsNext

LEMMA StateStep ==
  ASSUME Ready, StateInv, [InputsNext]_inputsVars
  PROVE  StateInv'
<1>0. MaxRetries \in Nat
  BY InputsAssumption
<1> DEFINE Basic == /\ left \in 0..3 /\ status \in {"ready", "sent", "running", "failed", "rejected", "done"}
                    /\ why \in {"-", "refused", "missing", "quality", "network", "tool", "worker"}
                    /\ strays \subseteq {"partial", "cache"} /\ retries \in 0..MaxRetries
                    /\ status \in {"ready", "sent", "running"} => left > 0
<1>t. Basic /\ at \in 1..14
  BY DEF StateInv
<1>p. ASSUME Passes
      PROVE  left' \in 0..3 /\ status' \in {"ready", "done"} /\ (status' = "ready" => left' > 0) /\ why' = "-"
  BY <1>p, AttemptsFew DEF Passes
<1>a. ASSUME NEW w, Again(w), left > 0
      PROVE left' \in 0..3 /\ status' \in {"ready", "failed"} /\ (status' = "ready" => left' > 0) /\ why' = w
  BY <1>a, <1>t DEF Again
<1>f. ASSUME NEW st, NEW w, Fails(st, w), left > 0 PROVE left' \in 0..3 /\ status' = st /\ why' = w
  BY <1>f, <1>t DEF Fails
<1>1. Basic'
  <2>1. CASE UNCHANGED inputsVars
    BY <1>t, <2>1 DEF inputsVars
  <2>2. CASE Exports \/ Receipts \/ UnityApplies \/ (\E c \in Candidates : Accepts(c))
    <3>1. Passes /\ UNCHANGED <<strays, retries>>
      BY <2>2 DEF Exports, Receipts, UnityApplies, Accepts
    <3> QED BY <1>t, <1>p, <3>1
  <2>3. CASE Edits
    <3>1. (Passes \/ Fails("failed", "refused")) /\ UNCHANGED <<strays, retries>> /\ status = "ready"
      BY <2>3 DEF Edits, Doing
    <3> QED BY <1>t, <1>p, <1>f, <3>1
  <2>4. CASE Finishes
    <3>1. /\ Passes \/ (\E st \in {"failed", "rejected"}, w \in {"refused", "missing", "quality"} : Fails(st, w))
          /\ UNCHANGED retries /\ status = "running" /\ MayCache
      BY <2>4 DEF Finishes
    <3>2. strays' \subseteq {"partial", "cache"}
      BY <1>t, <3>1 DEF MayCache
    <3> QED BY <1>t, <1>p, <1>f, <3>1, <3>2
  <2>5. CASE UploadCut
    <3>1. Again("network") /\ UNCHANGED retries /\ status = "ready" /\ strays' \subseteq strays \cup {"partial"}
      BY <2>5 DEF UploadCut
    <3> QED BY <1>t, <1>a, <3>1
  <2>6. CASE ToolFails
    <3>1. Again("tool") /\ UNCHANGED retries /\ status = "running" /\ strays' \subseteq strays \cup {"cache"}
      BY <2>6 DEF ToolFails, MayCache
    <3> QED BY <1>t, <1>a, <3>1
  <2>7. CASE PublisherDies \/ UnityFails
    <3>1. (Again("worker") \/ Again("tool")) /\ UNCHANGED <<strays, retries>> /\ status \in {"ready", "running"}
      BY <2>7 DEF PublisherDies, UnityFails, Doing
    <3> QED BY <1>t, <1>a, <3>1
  <2>8. CASE Sends \/ Plans \/ Publishes
    <3>1. /\ UNCHANGED <<strays, retries>> /\ status \in {"ready", "sent"}
          /\ \/ Turns("sent") \/ Turns("running") \/ UNCHANGED progress
             \/ Fails("failed", "refused")
      BY <2>8 DEF Sends, Plans, Publishes, Doing
    <3>2. CASE Fails("failed", "refused")
      BY <1>t, <1>f, <3>1, <3>2
    <3>3. CASE Turns("sent") \/ Turns("running") \/ UNCHANGED progress
      BY <1>t, <3>1, <3>3 DEF Turns, progress
    <3> QED BY <3>1, <3>2, <3>3
  <2>9. CASE Regenerates
    BY <1>t, <2>9 DEF Regenerates
  <2>10. CASE Retries
    BY <1>0, <1>t, <2>10 DEF Retries
  <2> QED BY <2>1, <2>2, <2>3, <2>4, <2>5, <2>6, <2>7, <2>8, <2>9, <2>10 DEF InputsNext
<1>2. at' \in 1..14
  BY FilesStep
<1>3. ASSUME status' = "running" PROVE ThisStage' \in Adapted \cup {"unity_apply"}
  BY <1>3, RunsThen DEF StateInv, ThisStage, inputsVars
<1> QED BY <1>1, <1>2, <1>3 DEF StateInv

LEMMA PoseStep ==
  ASSUME Ready, StateInv, PoseInv, [InputsNext]_inputsVars
  PROVE  PoseInv'
<1> SUFFICES ASSUME ThisStage' = "estimate_pose", status' = "running" PROVE PoseFound'
  BY DEF PoseInv, Doing
<1>1. CASE UNCHANGED inputsVars
  BY <1>1 DEF inputsVars, PoseInv, PoseFound, Doing, ThisStage, SceneLost, Lost
<1>2. CASE ThisStage \in Adapted /\ Fits(ThisStage) /\ UNCHANGED <<at, files, step, workspace>>
  <2>1. ThisStage = "estimate_pose"
    BY <1>2 DEF ThisStage
  <2>2. PoseFound
    BY <1>2, <2>1, PosePlanned
  <2> QED BY <1>2, <2>2 DEF PoseFound, SceneLost, Lost, files
<1>3. CASE ThisStage = "unity_apply" /\ UNCHANGED at
  BY <1>3 DEF ThisStage
<1> QED BY <1>1, <1>2, <1>3, RunsThen DEF Publishes

LEMMA WorkspaceFacts ==
  /\ Len(WorkspaceSteps) = 5 /\ DOMAIN WorkspaceSteps = 1..5
  /\ WorkspaceSteps[1] = "task_manifest" /\ WorkspaceSteps[2] = "pose" /\ WorkspaceSteps[3] = "pose_manifest"
  /\ WorkspaceSteps[4] = "ply" /\ WorkspaceSteps[5] = "ply_manifest"
  /\ \A i \in 1..5 : WorkspaceSteps[i] \in WorkspaceFiles
  /\ \A w \in WorkspaceFiles : \E i \in 1..5 : WorkspaceSteps[i] = w
BY DEF WorkspaceSteps, WorkspaceFiles

LEMMA SourceArms ==
  /\ Source("task_manifest") = Named("task", "-", "manifest")
  /\ \A w \in {"pose", "pose_manifest"} : Source(w) = Named("pose", "-", "pose")
  /\ \A w \in {"ply", "ply_manifest"} : Source(w) = Named("sags", "-", "ply")
<1>1. Source("task_manifest") = Named("task", "-", "manifest")
  BY Zenon DEF Source
<1>2. ASSUME NEW w, w = "pose" \/ w = "pose_manifest" PROVE Source(w) = Named("pose", "-", "pose")
  BY <1>2, Zenon DEF Source
<1>3. ASSUME NEW w, w = "ply" \/ w = "ply_manifest" PROVE Source(w) = Named("sags", "-", "ply")
  BY <1>3, Zenon DEF Source
<1> QED BY <1>1, <1>2, <1>3

\* The pose and the object have been promised; the task's manifest has not.
LEMMA SourcesThere ==
  ASSUME Ready, at = 13, NEW i \in 1..5, Source(WorkspaceSteps[i]) = Nothing
  PROVE  Lost("unity_anchor", "task", "-", "manifest")
<1>1. Named("pose", "-", "pose") # Nothing
  BY NamedPose DEF Ready, HandedInv, LastInv, Handed
<1>2. Named("sags", "-", "ply") # Nothing
  BY NamedObject DEF Ready, HandedInv, LastInv, Handed
<1>3. i = 1
  BY <1>1, <1>2, SourceArms, WorkspaceFacts
<1>4. Named("task", "-", "manifest") = Nothing
  BY <1>3, SourceArms, WorkspaceFacts
<1> QED BY <1>4, NamedManifest DEF Ready, Handed

LEMMA WorkStep ==
  ASSUME Ready, StateInv, WorkInv, [InputsNext]_inputsVars
  PROVE  WorkInv'
<1> USE DEF Doing
<1>0. at \in 1..14 /\ (ThisStage = "unity_apply" <=> at = 13)
  BY AtEach DEF Ready
<1>1. CASE UNCHANGED inputsVars
  BY <1>1 DEF inputsVars, WorkInv, ThisStage
<1>2. CASE Publishes
  <2>1. /\ ThisStage = "unity_apply" /\ status = "ready" /\ WorkspaceSteps[step] \in WorkspaceFiles /\ step \in 1..5
    BY <1>2, WorkspaceFacts DEF Publishes, WorkInv
  <2>2. CASE Fails("failed", "refused") /\ step' = 1 /\ UNCHANGED workspace
    BY <2>2 DEF WorkInv, Fails
  <2>3. CASE /\ workspace[WorkspaceSteps[step]] # "torn"
             /\ workspace' = [workspace EXCEPT ![WorkspaceSteps[step]] = "there"]
             /\ IF step < 5 THEN step' = step + 1 /\ UNCHANGED <<at, progress>> ELSE step' = 1 /\ Turns("running")
    <3>1. /\ workspace' \in [WorkspaceFiles -> {"none", "torn", "there"}]
          /\ \A w \in WorkspaceFiles : workspace'[w] = "torn" => w \in ManifestFiles
      BY <2>1, <2>3 DEF WorkInv
    <3>2. \A i \in 1..5 : i <= step => workspace'[WorkspaceSteps[i]] = "there"
      BY <2>1, <2>3, WorkspaceFacts DEF WorkInv
    <3>3. CASE step < 5
      <4>1. step' = step + 1 /\ UNCHANGED <<at, status>>
        BY <2>3, <3>3 DEF progress
      <4> QED BY <2>1, <3>1, <3>2, <3>3, <4>1 DEF WorkInv, ThisStage
    <3>4. CASE step = 5
      <4>1. step' = 1 /\ status' = "running"
        BY <2>3, <3>4 DEF Turns
      <4>2. \A w \in WorkspaceFiles : workspace'[w] = "there"
        BY <3>2, <3>4, WorkspaceFacts
      <4>3. \A i \in 1..5 : ~(i < 1)
        OBVIOUS
      <4> QED BY <3>1, <4>1, <4>2, <4>3 DEF WorkInv
    <3> QED BY <2>1, <3>3, <3>4
  <2> QED BY <1>2, <2>2, <2>3, WorkspaceFacts DEF Publishes
<1>3. CASE PublisherDies
  <2>1. /\ WorkspaceSteps[step] \in WorkspaceFiles /\ step' = 1 /\ status' # "running"
        /\ \/ workspace' = workspace
           \/ /\ workspace' = [workspace EXCEPT ![WorkspaceSteps[step]] = "torn"]
              /\ WorkspaceSteps[step] \in ManifestFiles
    BY <1>3, WorkspaceFacts DEF PublisherDies, WorkInv, Again
  <2> QED BY <2>1 DEF WorkInv
<1>4. ASSUME UNCHANGED <<workspace, step>>, step = 1, ~(ThisStage' = "unity_apply" /\ status' = "running")
      PROVE  WorkInv'
  BY <1>4 DEF WorkInv
<1>5. CASE UnityApplies \/ UnityFails
  <2>1. UNCHANGED <<workspace, step>> /\ status' # "running"
    BY <1>5 DEF UnityApplies, UnityFails, Passes, Again
  <2>2. step = 1
    <3>1. ThisStage = "unity_anchor" \/ status = "running"
      BY <1>5 DEF UnityApplies, UnityFails
    <3> QED BY <3>1 DEF WorkInv
  <2> QED BY <1>4, <2>1, <2>2
<1>6. CASE Retries
  <2>1. UNCHANGED <<workspace, step>> /\ status' = "ready" /\ status # "ready"
    BY <1>6 DEF Retries
  <2>2. step = 1
    BY <2>1 DEF WorkInv
  <2> QED BY <1>4, <2>1, <2>2
<1>7. CASE Exports \/ Edits \/ (\E c \in Candidates : Accepts(c)) \/ Regenerates \/ Receipts \/ Finishes
           \/ UploadCut \/ ToolFails \/ Sends \/ Plans
  <2>1. UNCHANGED <<workspace, step>>
    BY <1>7 DEF Exports, Edits, Accepts, Regenerates, Receipts, Finishes, UploadCut, ToolFails, Sends, Plans
  <2>2. ThisStage # "unity_apply"
    BY <1>7
       DEF Exports, Edits, Accepts, Regenerates, Receipts, Finishes, UploadCut, ToolFails, Sends, Plans,
           Adapted, Transfers
  <2>3. step = 1
    BY <2>2 DEF WorkInv
  <2>4. ~(ThisStage' = "unity_apply" /\ status' = "running")
    <3> SUFFICES ASSUME ThisStage' = "unity_apply", status' = "running" PROVE FALSE
      OBVIOUS
    <3>1. UNCHANGED at
        BY <2>2, RunsThen DEF inputsVars
    <3> QED BY <2>2, <3>1 DEF ThisStage
  <2> QED BY <1>4, <2>1, <2>3, <2>4
<1> QED BY <1>1, <1>2, <1>3, <1>5, <1>6, <1>7 DEF InputsNext

\* An excuse stands as long as the stage is the same.
LEMMA ExcuseStands ==
  ASSUME Excused, UNCHANGED <<prompts, at, committed>>, strays \subseteq strays',
         \A w \in ManifestFiles : workspace[w] = "torn" => workspace'[w] = "torn"
  PROVE  Excused'
BY DEF Excused, ThisStage, SceneLost, Lost

\* No plan is refused without one.
LEMMA RefusalsExcused ==
  ASSUME Ready, ThisStage \in Adapted, ~Fits(ThisStage)
  PROVE  Excused
<1>1. CASE ThisStage = "model_generation" \/ ThisStage = "render_alignment_views" \/ ThisStage = "debug_bundle"
  BY <1>1, ModelPlanned, RenderPlanned, BundlePlanned
<1>2. CASE ThisStage = "segment_inputs"
  BY <1>2, SegmentPlanned DEF Excused
<1>3. CASE ThisStage = "gim_match"
  BY <1>3, GimPlanned DEF Excused
<1>4. CASE ThisStage = "estimate_pose"
  BY <1>4, PosePlanned DEF Excused
<1>5. CASE ThisStage = "sags_segment_vote"
  BY <1>5, SagsPlanned DEF Excused
<1> QED BY <1>1, <1>2, <1>3, <1>4, <1>5 DEF Adapted

LEMMA FitsStep ==
  ASSUME InputsInv, [InputsNext]_inputsVars
  PROVE  ChainFits'
<1> SUFFICES ASSUME why' = "refused" PROVE Excused'
  BY DEF ChainFits
<1>0. Ready /\ StateInv /\ WorkInv /\ ChainFits
  BY DEF InputsInv, Ready, StateInv
<1>1. ASSUME why = "refused", UNCHANGED <<prompts, at, committed, strays, workspace>> PROVE Excused'
  BY <1>0, <1>1, ExcuseStands DEF ChainFits
<1>2. ASSUME Excused, UNCHANGED <<prompts, at, committed, strays, workspace>> PROVE Excused'
  BY <1>2, ExcuseStands
<1>3. CASE UNCHANGED inputsVars
  BY <1>1, <1>3 DEF inputsVars
<1>4. CASE Edits
  <2>1. ~Fits("image_edit") /\ ThisStage = "image_edit" /\ UNCHANGED <<prompts, at, committed, strays, workspace>>
    BY <1>4 DEF Edits, Doing, Passes, Fails, files
  <2> QED BY <1>0, <1>2, <2>1, EditPlanned DEF Excused
<1>5. CASE Plans
  <2>1. ThisStage \in Adapted /\ UNCHANGED <<prompts, at, committed, strays, workspace>>
    BY <1>5 DEF Plans, Turns, Fails, files
  <2>2. CASE Fits(ThisStage)
    BY <1>1, <1>5, <2>1, <2>2 DEF Plans, Turns
  <2>3. CASE ~Fits(ThisStage)
    BY <1>0, <1>2, <2>1, <2>3, RefusalsExcused
  <2> QED BY <2>2, <2>3
<1>6. CASE Finishes
  <2>1. /\ ThisStage = "sags_segment_vote" /\ "partial" \in strays
        /\ UNCHANGED <<prompts, at, committed, workspace>> /\ strays \subseteq strays'
    BY <1>6 DEF Finishes, Passes, Fails, MayCache
  <2>2. Excused
    BY <2>1 DEF Excused
  <2> QED BY <2>1, <2>2, ExcuseStands
<1>7. CASE Publishes
  <2>1. /\ ThisStage = "unity_apply" /\ at = 13 /\ step \in 1..5
        /\ UNCHANGED <<prompts, at, committed, strays>>
    BY <1>0, <1>7, AtEach DEF Publishes, Doing, WorkInv, Ready, files, Turns, Fails, progress
  <2>2. CASE Source(WorkspaceSteps[step]) = Nothing /\ UNCHANGED workspace
    <3>1. Lost("unity_anchor", "task", "-", "manifest")
      BY <1>0, <2>1, <2>2, SourcesThere
    <3> QED BY <1>2, <2>1, <2>2, <3>1 DEF Excused
  <2>3. CASE workspace[WorkspaceSteps[step]] = "torn" /\ UNCHANGED workspace
    <3>1. \E w \in ManifestFiles : workspace[w] = "torn"
      BY <1>0, <2>1, <2>3, WorkspaceFacts DEF WorkInv
    <3> QED BY <1>2, <2>1, <2>3, <3>1 DEF Excused
  <2>4. CASE /\ workspace[WorkspaceSteps[step]] # "torn" /\ why' = why
             /\ workspace' = [workspace EXCEPT ![WorkspaceSteps[step]] = "there"]
    <3>1. \A w \in ManifestFiles : workspace[w] = "torn" => workspace'[w] = "torn"
      <4>1. \A w \in ManifestFiles : w \in WorkspaceFiles
        BY WorkspaceFacts DEF ManifestFiles
      <4> QED BY <1>0, <2>4, <4>1 DEF WorkInv
    <3> QED BY <1>0, <2>1, <2>4, <3>1, ExcuseStands DEF ChainFits
  <2> QED BY <1>7, <2>2, <2>3, <2>4 DEF Publishes, Turns, progress
<1>8. CASE Sends \/ Retries
  BY <1>1, <1>8 DEF Sends, Retries, Turns, files
<1>9. CASE Exports \/ Receipts \/ UnityApplies \/ (\E c \in Candidates : Accepts(c)) \/ Regenerates
  BY <1>9 DEF Exports, Receipts, UnityApplies, Accepts, Regenerates, Passes
<1>10. CASE UploadCut \/ ToolFails \/ PublisherDies \/ UnityFails
  BY <1>10 DEF UploadCut, ToolFails, PublisherDies, UnityFails, Again
<1> QED BY <1>3, <1>4, <1>5, <1>6, <1>7, <1>8, <1>9, <1>10 DEF InputsNext

LEMMA InputsInitially == InputsInit => InputsInv
<1> SUFFICES ASSUME InputsInit PROVE InputsInv
  OBVIOUS
<1>1. MaxRetries \in Nat
  BY InputsAssumption
<1>2. StateInv
  BY <1>1 DEF InputsInit, StateInv
<1>3. FilesInv
  BY DEF InputsInit, FilesInv
<1>4. HandedInv
  BY DEF InputsInit, HandedInv, EditInv, ModelInv, RenderInv, SegmentInv, GimInv, LastInv
<1>5. PoseInv /\ ChainFits
  BY DEF InputsInit, PoseInv, ChainFits, Doing
<1>6. WorkInv
  BY DEF InputsInit, WorkInv, Doing
<1> QED BY <1>2, <1>3, <1>4, <1>5, <1>6 DEF InputsInv

LEMMA InputsSteps == InputsInv /\ [InputsNext]_inputsVars => InputsInv'
<1> SUFFICES ASSUME InputsInv, [InputsNext]_inputsVars PROVE InputsInv'
  OBVIOUS
<1>1. Ready /\ StateInv /\ WorkInv /\ PoseInv
  BY DEF InputsInv, Ready, StateInv
<1> QED BY <1>1, StateStep, FilesStep, HandedStep, PoseStep, WorkStep, FitsStep DEF InputsInv

\* The invariant says what the properties say.
LEMMA InputsInvTypes == InputsInv => InputsTypeOK
<1> SUFFICES ASSUME InputsInv PROVE InputsTypeOK
  OBVIOUS
<1>1. Len(Chain) = 13 /\ Len(WorkspaceSteps) = 5
  BY PlaceInChain, WorkspaceFacts
<1>2. EditInv /\ at \in 1..14
  BY DEF InputsInv, HandedInv, StateInv
<1>3. accepted \subseteq offered /\ (at > 3 => \E c \in offered : accepted = {c})
  BY <1>2 DEF EditInv
<1> QED BY <1>1, <1>3 DEF InputsInv, InputsTypeOK, StateInv, FilesInv, WorkInv

LEMMA InputsInvRight == InputsInv => RightInputs
<1> SUFFICES ASSUME InputsInv PROVE RightInputs
  OBVIOUS
<1>1. Ready /\ StateInv /\ WorkInv /\ PoseInv
  BY DEF InputsInv, Ready, StateInv
<1>2. ASSUME status = "running", NEW u \in Uses(ThisStage) PROVE RightUse(u)
  <2>1. CASE ThisStage = "model_generation" \/ ThisStage = "render_alignment_views" \/ ThisStage = "debug_bundle"
    BY <1>1, <1>2, <2>1, ModelPlanned, RenderPlanned, BundlePlanned
  <2>2. CASE ThisStage = "segment_inputs" \/ ThisStage = "gim_match" \/ ThisStage = "sags_segment_vote"
    BY <1>1, <1>2, <2>2, SegmentPlanned, GimPlanned, SagsPlanned
  <2>3. CASE ThisStage = "estimate_pose"
    BY <1>1, <1>2, <2>3, PosePlanned DEF PoseInv, Doing
  <2>4. CASE ThisStage = "unity_apply"
    BY <1>2, <2>4, UsesArms
  <2> QED BY <1>1, <1>2, <2>1, <2>2, <2>3, <2>4 DEF StateInv, Adapted
<1>3. Doing("gim_match", "running") /\ (\A v \in Views : ~SceneLost(v, "image")) =>
        \A v \in Views : \A r \in {"scene", "generated", "scene_mask", "generated_mask"} :
          \E u \in GimUses : u.role = r /\ u.view = v
  BY <1>1, GimPlanned DEF Doing
<1>4. Doing("unity_apply", "running") => \A w \in WorkspaceFiles : workspace[w] = "there"
  BY <1>1 DEF WorkInv
<1> QED BY <1>2, <1>3, <1>4 DEF RightInputs, RightUse

\* Types, and past the gate one of the pictures of the latest edit is the accepted one.
THEOREM InputsTyped == InputsSpec => []InputsTypeOK
<1>1. InputsInit => InputsInv
  BY InputsInitially
<1>2. InputsInv /\ [InputsNext]_inputsVars => InputsInv'
  BY InputsSteps
<1>3. InputsInv => InputsTypeOK
  BY InputsInvTypes
<1> QED BY <1>1, <1>2, <1>3, PTL DEF InputsSpec

\* Every plan takes the files it was meant to take, whatever the tools leave out,
\* however often the pictures are made anew, an upload is cut, a worker dies or the
\* operator retries.
THEOREM InputsRight == InputsSpec => []RightInputs
<1>1. InputsInit => InputsInv
  BY InputsInitially
<1>2. InputsInv /\ [InputsNext]_inputsVars => InputsInv'
  BY InputsSteps
<1>3. InputsInv => RightInputs
  BY InputsInvRight
<1> QED BY <1>1, <1>2, <1>3, PTL DEF InputsSpec

\* No stage is refused its inputs without one of the named excuses.
THEOREM InputsFit == InputsSpec => []ChainFits
<1>1. InputsInit => InputsInv
  BY InputsInitially
<1>2. InputsInv /\ [InputsNext]_inputsVars => InputsInv'
  BY InputsSteps
<1>3. InputsInv => ChainFits
  BY DEF InputsInv
<1> QED BY <1>1, <1>2, <1>3, PTL DEF InputsSpec
=============================================================================
