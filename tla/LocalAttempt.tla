---------------------------- MODULE LocalAttempt ----------------------------
(***************************************************************************)
(* The attempts of one Unity stage on the local host: the lease, the       *)
(* process that CommandExecutor starts for it and all it starts in turn,   *)
(* and the directory it works in.  A worker may die or sleep at any step;  *)
(* recover and cancel end the processes of a lease by what is recorded of  *)
(* them, and gc deletes directories beside.                                *)
(*                                                                         *)
(* On Windows the worker owns a job object per process tree, and the tree  *)
(* dies with the job.  Under WSL a PowerShell wrapper owns it: the wrapper *)
(* is what the worker has started, what is recorded and what is signalled, *)
(* and it outlives the worker.  Unity needs one of the two, since without  *)
(* PowerShell the guard refuses to start it.                               *)
(***************************************************************************)
EXTENDS Integers, FiniteSets

CONSTANTS
  MaxAttempts,  \* max_attempts of the stage
  Platforms,    \* where the workers may run: subset of {"windows", "wsl"}
  StoreFaults,  \* the platforms where the database may fail while a stage runs
  SlowStart,    \* may a lease end before what it has started is up and recorded?
  LeaseDies     \* may a worker die between the mkdir and the commit of a lease?

ASSUME LocalAssumption ==
  /\ MaxAttempts \in Nat \ {0}
  /\ Platforms \subseteq {"windows", "wsl"} /\ StoreFaults \subseteq Platforms
  /\ SlowStart \in BOOLEAN /\ LeaseDies \in BOOLEAN

Attempt == 1..MaxAttempts

VARIABLES
  platform,
  state,    \* the state of the stage
  lease,    \* its row in leases; known: mark_running has recorded the process
  row,      \* row[a]: its row in attempts
  staging,  \* staging[a]: its output.staging
  tree,     \* tree[a]: its processes
  job,      \* job[a]: the job object of Windows; under WSL it is part of the wrapper
  worker,   \* worker[a]: the worker executing it
  janitor,  \* the command that is ending the processes of a lease
  gc        \* the gc command

vars == <<platform, state, lease, row, staging, tree, job, worker, janitor, gc>>

NoLease == [of |-> 0, expired |-> FALSE, revoked |-> FALSE, known |-> FALSE]
Off     == [pc |-> "off", code |-> "-", clean |-> TRUE]
Idle    == [pc |-> "idle", of |-> 0, known |-> FALSE, clean |-> TRUE, recovers |-> FALSE]

NoGc    == [pc |-> "idle", active |-> {}, found |-> {}]

Terminal == {"succeeded", "failed_terminal", "rejected", "canceled"}
\* What is executing: "left" when the root is gone and what it started is not.
Alive(a) == tree[a] \in {"wrapper", "up", "left"}
RootAlive(a) == tree[a] \in {"wrapper", "up"}
At(a, pc) == worker[a].pc = pc
Goes(a, pc) == worker' = [worker EXCEPT ![a].pc = pc]
Leaves(a)   == worker' = [worker EXCEPT ![a] = Off]

Init ==
  /\ platform \in Platforms
  /\ state = "ready" /\ lease = NoLease
  /\ row = [a \in Attempt |-> "none"] /\ staging = [a \in Attempt |-> "none"]
  /\ tree = [a \in Attempt |-> "none"] /\ job = [a \in Attempt |-> FALSE]
  /\ worker = [a \in Attempt |-> Off] /\ janitor = Idle
  /\ gc = NoGc

-----------------------------------------------------------------------------
(* Taking the lease.                                                       *)

Next1 == Cardinality({a \in Attempt : row[a] # "none"}) + 1

\* _require_lease.
Held(a) == lease.of = a /\ ~lease.revoked /\ ~lease.expired

\* The directory is made inside the transaction, and must not be there.
Leases ==
  /\ state = "ready" /\ lease = NoLease /\ Next1 \in Attempt
  /\ staging[Next1] = "none"
  /\ staging' = [staging EXCEPT ![Next1] = "there"]
  /\ \/ /\ row' = [row EXCEPT ![Next1] = "open"]
        /\ lease' = [NoLease EXCEPT !.of = Next1]
        /\ state' = "leased"
        /\ Goes(Next1, "guard")
     \/ LeaseDies /\ UNCHANGED <<row, lease, state, worker>>
  /\ UNCHANGED <<platform, tree, job, janitor, gc>>

-----------------------------------------------------------------------------
(* The worker: LocalStageExecutor and CommandExecutor.                     *)

Ends(a, code, clean) ==
  worker' = [worker EXCEPT ![a] = [pc |-> "submit", code |-> code, clean |-> clean]]

\* Mutant of JobCloses: the handle goes, and what is in the job stays.
JobForgotten(a) == UNCHANGED tree /\ job' = [job EXCEPT ![a] = FALSE]
\* release, or the death of the process that owns the job: under WSL the worker
\* owns none.
JobCloses(a) ==
  /\ tree' = [tree EXCEPT ![a] = IF job[a] /\ Alive(a) THEN "gone" ELSE @]
  /\ job' = [job EXCEPT ![a] = FALSE]

\* Mutant of UnityOpen: no process is looked for.
UnityUnseen == FALSE
\* ensure_unity_project_not_running: a Unity.exe that was given this project.
UnityOpen == \E a \in Attempt : tree[a] = "up"

\* Any check before the start may refuse; what is seen running does.
Guards(a) ==
  /\ At(a, "guard")
  /\ Ends(a, "invalid_input", TRUE) \/ (~UnityOpen /\ Goes(a, "spawn"))
  /\ UNCHANGED <<platform, state, lease, row, staging, tree, job, janitor, gc>>

Spawns(a) ==
  /\ At(a, "spawn")
  /\ \/ Ends(a, "worker_crash", TRUE) /\ UNCHANGED tree
     \/ platform = "windows" /\ tree' = [tree EXCEPT ![a] = "up"] /\ Goes(a, "bind")
     \/ platform = "wsl" /\ tree' = [tree EXCEPT ![a] = "wrapper"] /\ Goes(a, "mark")
  /\ UNCHANGED <<platform, state, lease, row, staging, job, janitor, gc>>

\* The tree is put into a job, or its root is killed.
Binds(a) ==
  /\ At(a, "bind")
  /\ \/ /\ job' = [job EXCEPT ![a] = TRUE] /\ Goes(a, "mark") /\ UNCHANGED tree
     \/ /\ tree' = [tree EXCEPT ![a] = "gone"] /\ Ends(a, "worker_crash", TRUE)
        /\ UNCHANGED job
  /\ UNCHANGED <<platform, state, lease, row, staging, janitor, gc>>

Faulty == platform \in StoreFaults

\* An exception while the process runs: the job is released and the worker
\* makes it a crash, whose processes count as cleaned up.
Throws(a) ==
  /\ ~Held(a) \/ Faulty
  /\ JobCloses(a) /\ Ends(a, "worker_crash", TRUE)
  /\ UNCHANGED <<platform, state, lease, row, staging, janitor, gc>>

\* mark_running records the process.
Marks(a) ==
  /\ At(a, "mark") /\ Held(a)
  /\ lease' = [lease EXCEPT !.known = TRUE]
  /\ state' = "running"
  /\ Goes(a, "poll")
  /\ UNCHANGED <<platform, row, staging, tree, job, janitor, gc>>

MarkThrows(a) == At(a, "mark") /\ Throws(a)

\* A heartbeat every few seconds, as long as the root runs.
HeartbeatThrows(a) == At(a, "poll") /\ RootAlive(a) /\ Throws(a)

\* The root has exited.
Exits(a) ==
  /\ At(a, "poll") /\ ~RootAlive(a)
  /\ JobCloses(a) /\ Goes(a, "result")
  /\ UNCHANGED <<platform, state, lease, row, staging, janitor, gc>>

\* terminate by the worker itself: the whole job, or TERM and KILL to the group
\* of the wrapper, whose end closes the job; something may stay.
TimesOut(a) ==
  /\ At(a, "poll")
  /\ \E clean \in BOOLEAN :
       /\ tree' = [tree EXCEPT ![a] = IF clean THEN "gone" ELSE @]
       /\ job' = [job EXCEPT ![a] = FALSE]
       /\ Ends(a, "stalled", clean)
  /\ UNCHANGED <<platform, state, lease, row, staging, janitor, gc>>

\* The exit code and stage_result.json.
ReadsResult(a) ==
  /\ At(a, "result")
  /\ \/ staging[a] = "there" /\ Ends(a, "ok", TRUE)
     \/ \E code \in {"worker_crash", "compile_or_contract"}, clean \in BOOLEAN : Ends(a, code, clean)
  /\ UNCHANGED <<platform, state, lease, row, staging, tree, job, janitor, gc>>

\* What becomes of a stage whose attempt a has failed.
Failed(a, code, clean) ==
  IF ~clean THEN "recovering"
  ELSE IF code \in {"worker_crash", "stalled"} /\ a < MaxAttempts THEN "ready" ELSE "failed_terminal"

\* Mutant of LeaseAfter: the lease goes, clean or not.
LeaseAlwaysGone(clean) == NoLease
LeaseAfter(clean) == IF clean THEN NoLease ELSE [lease EXCEPT !.revoked = TRUE]

\* commit_success or fail.  The commit refuses a directory that is not there
\* with an error the worker does not catch.
Submits(a) ==
  /\ At(a, "submit")
  /\ \/ /\ ~Held(a) /\ Leaves(a)
        /\ UNCHANGED <<state, lease, row, staging>>
     \/ /\ Held(a) /\ worker[a].code = "ok" /\ staging[a] # "there" /\ Leaves(a)
        /\ UNCHANGED <<state, lease, row, staging>>
     \/ /\ Held(a) /\ worker[a].code = "ok" /\ staging[a] = "there" /\ Leaves(a)
        /\ state' = "succeeded" /\ lease' = NoLease
        /\ row' = [row EXCEPT ![a] = "succeeded"]
        /\ staging' = [staging EXCEPT ![a] = "published"]
     \/ /\ Held(a) /\ worker[a].code # "ok" /\ Leaves(a)
        /\ state' = Failed(a, worker[a].code, worker[a].clean)
        /\ lease' = LeaseAfter(worker[a].clean)
        /\ row' = [row EXCEPT ![a] = "over"]
        /\ UNCHANGED staging
  /\ UNCHANGED <<platform, tree, job, janitor, gc>>

WorkerDies(a) ==
  /\ ~At(a, "off")
  /\ Leaves(a) /\ JobCloses(a)
  /\ UNCHANGED <<platform, state, lease, row, staging, janitor, gc>>

-----------------------------------------------------------------------------
(* The processes.                                                          *)

\* windows_job_runner.ps1: Unity is started suspended and put into the job
\* before it runs; or the wrapper gives up.
WrapperStarts(a) ==
  /\ tree[a] = "wrapper"
  /\ \E next \in {"up", "gone"} : tree' = [tree EXCEPT ![a] = next]
  /\ UNCHANGED <<platform, state, lease, row, staging, job, worker, janitor, gc>>

\* The wrapper takes the rest of the tree with it when Unity has exited.
UnityExits(a) ==
  /\ tree[a] = "up"
  /\ \E next \in {"gone"} \cup (IF platform = "windows" THEN {"left"} ELSE {}) :
       tree' = [tree EXCEPT ![a] = next]
  /\ UNCHANGED <<platform, state, lease, row, staging, job, worker, janitor, gc>>

RestExits(a) ==
  /\ tree[a] = "left" /\ tree' = [tree EXCEPT ![a] = "gone"]
  /\ UNCHANGED <<platform, state, lease, row, staging, job, worker, janitor, gc>>

\* A worker that is prompt marks its process, and that is up, while the lease lasts.
Starting(a) == worker[a].pc \in {"guard", "spawn", "bind", "mark"} \/ tree[a] = "wrapper"

LeaseExpires ==
  /\ lease.of # 0 /\ ~lease.expired /\ ~lease.revoked
  /\ SlowStart \/ ~Starting(lease.of)
  /\ lease' = [lease EXCEPT !.expired = TRUE]
  /\ UNCHANGED <<platform, state, row, staging, tree, job, worker, janitor, gc>>

-----------------------------------------------------------------------------
(* recover_expired and cancel: the lease is revoked in one transaction,    *)
(* its processes are ended, and a second transaction settles it.           *)

Revokes(recovers) ==
  /\ lease' = [lease EXCEPT !.revoked = TRUE]
  /\ janitor' = [pc |-> "clean", of |-> lease.of, known |-> lease.known, clean |-> TRUE,
                 recovers |-> recovers]

Recovers ==
  /\ janitor = Idle /\ lease.of # 0 /\ lease.expired /\ ~lease.revoked
  /\ Revokes(TRUE)
  /\ UNCHANGED <<platform, state, row, staging, tree, job, worker, gc>>

Cancels ==
  /\ janitor = Idle /\ state \notin Terminal
  /\ state' = "canceled"
  /\ IF lease.of = 0 THEN UNCHANGED <<lease, janitor>> ELSE Revokes(FALSE)
  /\ UNCHANGED <<platform, row, staging, tree, job, worker, gc>>

\* identity_matches: so does a root that has exited and that its worker has not
\* reaped, or still has a handle of.
Matches(a) == RootAlive(a) \/ At(a, "poll") \/ (At(a, "result") /\ platform = "windows")

\* Mutant of NotOurs: a job that this process does not own has no members.
NotOursEmpty == TRUE
\* The job of another process cannot be ended: its root counts as remaining.
NotOurs == FALSE

\* _cleanup_lease_process.  What was never recorded, or whose root is gone,
\* counts as cleaned up.
Cleans ==
  /\ janitor.pc = "clean"
  /\ LET a == janitor.of
     IN  \/ /\ ~janitor.known \/ ~Matches(a)
            /\ janitor' = [janitor EXCEPT !.pc = "settle"] /\ UNCHANGED tree
         \/ /\ janitor.known /\ Matches(a) /\ platform = "windows"
            /\ janitor' = [janitor EXCEPT !.pc = "settle", !.clean = NotOurs] /\ UNCHANGED tree
         \/ /\ janitor.known /\ Matches(a) /\ platform = "wsl"
            /\ \E clean \in BOOLEAN :
                 /\ tree' = [tree EXCEPT ![a] = IF clean THEN "gone" ELSE @]
                 /\ janitor' = [janitor EXCEPT !.pc = "settle", !.clean = clean]
  /\ UNCHANGED <<platform, state, lease, row, staging, job, worker, gc>>

Settled ==
  IF janitor.recovers THEN IF janitor.clean /\ janitor.of < MaxAttempts THEN "ready" ELSE "failed_terminal"
  ELSE IF janitor.clean THEN state ELSE "failed_terminal"

Settles ==
  /\ janitor.pc = "settle" /\ janitor' = Idle
  /\ IF lease.of # janitor.of THEN UNCHANGED <<state, lease, row>>
     ELSE /\ state' = Settled
          /\ lease' = LeaseAfter(janitor.clean)
          /\ row' = [row EXCEPT ![janitor.of] = "over"]
  /\ UNCHANGED <<platform, staging, tree, job, worker, gc>>

JanitorDies ==
  /\ janitor # Idle /\ janitor' = Idle
  /\ UNCHANGED <<platform, state, lease, row, staging, tree, job, worker, gc>>

-----------------------------------------------------------------------------
(* gc: the attempts with a lease are read first, then the directories of    *)
(* those that have not succeeded and have not ended lately, which are       *)
(* deleted last, with nothing between the three to keep the rest waiting.   *)

Active == {lease.of} \ {0}

GcReads ==
  /\ gc' = [NoGc EXCEPT !.pc = "read", !.active = Active]
  /\ UNCHANGED <<platform, state, lease, row, staging, tree, job, worker, janitor>>

\* An attempt that has not ended has no time of ending, and counts as old.
GcLists ==
  /\ gc.pc = "read"
  /\ \E old \in SUBSET {a \in Attempt : row[a] = "over"} :
       LET found == {a \in Attempt : row[a] = "open"} \cup old
       IN  gc' = [gc EXCEPT !.pc = "listed", !.found = {a \in found \ gc.active : staging[a] = "there"}]
  /\ UNCHANGED <<platform, state, lease, row, staging, tree, job, worker, janitor>>

\* rmtree fails on a directory that has been published meanwhile, and what comes
\* after it is not deleted.
GcDeletes ==
  /\ gc.pc = "listed"
  /\ LET found == {a \in gc.found : staging[a] = "there"}
     IN  \E gone \in SUBSET found :
           /\ found = gc.found => gone = found
           /\ staging' = [a \in Attempt |-> IF a \in gone THEN "deleted" ELSE staging[a]]
  /\ gc' = NoGc
  /\ UNCHANGED <<platform, state, lease, row, tree, job, worker, janitor>>

-----------------------------------------------------------------------------

Next ==
  \/ Leases \/ LeaseExpires
  \/ \E a \in Attempt : \/ Guards(a) \/ Spawns(a) \/ Binds(a) \/ Marks(a) \/ MarkThrows(a)
                        \/ HeartbeatThrows(a) \/ Exits(a) \/ TimesOut(a) \/ ReadsResult(a)
                        \/ Submits(a) \/ WorkerDies(a)
                        \/ WrapperStarts(a) \/ UnityExits(a) \/ RestExits(a)
  \/ Recovers \/ Cancels \/ Cleans \/ Settles \/ JanitorDies
  \/ GcReads \/ GcLists \/ GcDeletes

Spec == Init /\ [][Next]_vars

-----------------------------------------------------------------------------

\* Types; a stage that is ready has no lease, one that is executing has the lease
\* of its latest attempt, and a janitor works on a revoked lease.
TypeOK ==
  /\ platform \in Platforms
  /\ state \in {"ready", "leased", "running", "recovering"} \cup Terminal
  /\ lease.of \in 0..MaxAttempts
  /\ state = "ready" => lease = NoLease \/ janitor # Idle
  /\ state \in {"leased", "running", "recovering"} => lease.of = Next1 - 1 /\ lease.of # 0
  /\ \A a \in Attempt : /\ row[a] \in {"none", "open", "over", "succeeded"}
                        /\ tree[a] \in {"none", "wrapper", "up", "left", "gone"}
                        /\ job[a] => platform = "windows"
                        /\ a >= Next1 => worker[a] = Off /\ tree[a] = "none"
  /\ gc.active \subseteq Attempt /\ gc.found \subseteq Attempt

\* Two Unity processes never have the project open, whoever has died and whatever
\* was not cleaned up, as long as the steps of a start take no longer than a lease.
OneUnity == Cardinality({a \in Attempt : tree[a] = "up"}) <= 1

\* A lease whose process was recorded is given up only when that process is gone.
ReleasedDead ==
  [][\A a \in Attempt : lease.of = a /\ lease.known /\ lease'.of # a => ~RootAlive(a)]_vars

\* The same of everything that process has started.
ReleasedEmpty ==
  [][\A a \in Attempt : lease.of = a /\ lease.known /\ lease'.of # a => ~Alive(a)]_vars

\* Behind an attempt that has succeeded there is a published directory, which gc
\* has not deleted before it was published, and nothing that the attempt has
\* started is alive and could still be writing to it.
SucceededAtRest ==
  \A a \in Attempt : row[a] = "succeeded" => staging[a] = "published" /\ ~Alive(a)

\* gc deletes nothing an attempt with a lease is working in, revoked or not: a
\* lease taken between its steps is not in its first answer.
GcSparesHeld ==
  [][\A a \in Attempt : staging[a] = "there" /\ staging'[a] = "deleted" => lease.of # a]_vars

\* Every invocation of the worker is to be safe: a stage that is ready can be leased.
ReadyLeasable == state = "ready" /\ Next1 \in Attempt => staging[Next1] = "none"
=============================================================================
