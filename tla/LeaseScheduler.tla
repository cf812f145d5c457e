--------------------------- MODULE LeaseScheduler ---------------------------
(***************************************************************************)
(* The persistent queue of BatchController (insertany3d/scheduler.py):     *)
(* stages, attempts, leases and artifact commits in one SQLite database,   *)
(* shared by workers that execute leased stages and by the control         *)
(* commands resume, cancel, retry and recover-remote.                      *)
(*                                                                         *)
(* One "BEGIN IMMEDIATE" transaction is one action.  What the code does    *)
(* between two transactions (running a stage, publishing files, killing a  *)
(* process group) is a step of its own, so every interleaving of workers   *)
(* and control commands, and the death of either between two               *)
(* transactions, is a behaviour.                                           *)
(*                                                                         *)
(* Modelled here are the stages with one lease at a time; the candidate    *)
(* group of image_edit and the edit gate are other modules.  An attempt is *)
(* <<task, stage, number>>; its lease token and its row of                 *)
(* artifact_commits are unique to it.                                      *)
(***************************************************************************)
EXTENDS StageDag

CONSTANTS
  Resource,     \* named resources: a slot kind, the GPU pool, a project lock
  Uses,         \* Uses[i]: the resources stage i allocates
  Capacity,     \* Capacity[r]: how many leases may name resource r
  Remote,       \* positions of the REMOTE_PROCESS_STAGES
  Ssh,          \* positions RemoteStageExecutor runs: Remote, upload, download
  Budget,       \* Budget[s]: max_attempts of StageSpec s
  Reports,      \* Reports[s]: the kinds of failure the executor of s reports
  MaxTries,     \* bound: attempts ever made of one stage
  Ctl,          \* control processes (CLI commands) that may run at once
  CtlMayDie,    \* may a control process die between two transactions?
  StoreFaults   \* may a database error surface in a heartbeat of a live lease?

\* "unknown" and "unclean" are results with cleanup_completed=False: the first
\* is RemoteStageExecutor's delivery_unknown for a lost SSH wrapper, the second
\* carries any other error code.
Failure == {"unknown", "unclean", "canceled", "rejected", "terminal",
            "delivery_unknown", "retryable"}

ASSUME SchedulerAssumption ==
  /\ Uses \in [Item -> SUBSET Resource]
  /\ Capacity \in [Resource -> Nat]
  /\ Remote \subseteq Ssh /\ Ssh \subseteq Stage
  /\ MaxTries \in Nat \ {0}
  /\ Budget \in [Stage -> 1..MaxTries]
  /\ Reports \in [Stage -> SUBSET Failure]
  /\ CtlMayDie \in BOOLEAN
  /\ StoreFaults \in BOOLEAN

VARIABLES
  batch,        \* batches.status
  stage,        \* stages.state
  budget,       \* stages.max_attempts
  attempt,      \* attempts.status, "absent" while there is no row
  lease,        \* the lease row of the attempt, "none" while there is no row
  commit,       \* artifact_commits.state of the attempt
  worker,       \* where the holder of the WorkItem is
  proc,         \* the process the attempt started
  ctl           \* what each control process is doing

vars == <<batch, stage, budget, attempt, lease, commit, worker, proc, ctl>>

-----------------------------------------------------------------------------
Attempt   == Task \X Stage \X (1..MaxTries)
ItemOf(a) == <<a[1], a[2]>>
AttemptsOf(i) == {a \in Attempt : ItemOf(a) = i}

BatchState   == {"planned", "running", "succeeded", "failed", "canceled"}
InFlight     == {"leased", "running", "committing"}
\* fail stores the state of the stage in attempts.status, the others a word of
\* their own.
EndedStates  == {"succeeded", "canceled", "rejected", "failed_terminal", "waiting_manual",
                 "ready", "failed_retryable", "lease_expired"}
AttemptState == InFlight \cup EndedStates \cup {"absent", "recovering"}
\* "live": revoked_at IS NULL and expires_at in the future; "expired": revoked_at
\* IS NULL and expires_at in the past; "revoked": revoked_at set.
LeaseState   == {"none", "live", "expired", "revoked"}
CommitState  == {"none", "prepared", "published", "committed", "failed"}
\* "publish" and "finalize": the prepare (publish) step of commit_success is done.
WorkerState  == {"off", "exec", "publish", "finalize"}
\* "unrecorded": running, but mark_running has not stored its pid in the lease.
ProcState    == {"none", "unrecorded", "recorded", "dead"}

Alive(a)      == proc[a] \in {"unrecorded", "recorded"}
Unrevoked(a)  == lease[a] \in {"live", "expired"}
HasRow(a)     == lease[a] # "none"
Tried(i)      == Cardinality({a \in AttemptsOf(i) : attempt[a] # "absent"})

\* The row that "SELECT ... FROM leases WHERE stage_id=?" returns first: the
\* index leases_stage orders a stage's rows by revoked_at, NULL first, and then
\* by age.
IsFirstLease(a) ==
  /\ HasRow(a)
  /\ \A b \in AttemptsOf(ItemOf(a)) : HasRow(b) =>
       IF Unrevoked(a) <=> Unrevoked(b) THEN b[3] >= a[3] ELSE Unrevoked(a)

RemoteItem(i) == i[2] \in Remote

\* _require_lease: the row with this token exists, is not revoked, has not run out.
\* Mutant of RequireLease: only the token is compared.
RequireToken(a) == HasRow(a)
RequireLease(a) == lease[a] = "live"

-----------------------------------------------------------------------------
(* _allocate_resources counts every row of leases, revoked ones included.  *)
Holders(r)  == {a \in Attempt : HasRow(a) /\ r \in Uses[ItemOf(a)]}
\* Mutant of Free: only unrevoked rows are counted.
FreeOfUnrevoked(i) ==
  \A r \in Uses[i] : Cardinality({a \in Holders(r) : Unrevoked(a)}) < Capacity[r]
Free(i)     == \A r \in Uses[i] : Cardinality(Holders(r)) < Capacity[r]

NoReview    == [t \in Task |-> "none"]
RefreshAll(st) == Refreshed(st, NoReview)

\* _update_aggregate_status on the table st.
Aggregate(st) ==
  /\ stage' = EvaluationSkipped(st)
  /\ batch' = BatchStatus(EvaluationSkipped(st))

\* DELETE FROM leases WHERE stage_id=?
DropLeasesOf(i, ls)   == [a \in Attempt |-> IF ItemOf(a) = i THEN "none" ELSE ls[a]]
\* UPDATE leases SET revoked_at=? WHERE stage_id=?
RevokeLeasesOf(I, ls) ==
  [a \in Attempt |-> IF ItemOf(a) \in I /\ ls[a] # "none" THEN "revoked" ELSE ls[a]]

\* A control process is idle, or works through the attempts it selected
\* (todo), one at a time (cur), standing before the step pc names; clean is
\* what terminating the process of cur returned.
Working(op, todo) == [op |-> op, todo |-> todo, cur |-> {}, pc |-> "next", clean |-> TRUE]
Idle == Working("idle", {})
CtlState == [op : {"idle", "reconcile", "recover", "refresh", "cancel"}, todo : SUBSET Attempt,
             cur : SUBSET Attempt, pc : {"next", "publish", "finalize", "abort", "revoke", "cleanup", "settle"},
             clean : BOOLEAN]

TypeOK ==
  /\ batch \in BatchState
  /\ stage \in [Item -> StageState]
  /\ budget \in [Item -> Nat]
  /\ attempt \in [Attempt -> AttemptState]
  /\ lease \in [Attempt -> LeaseState]
  /\ commit \in [Attempt -> CommitState]
  /\ worker \in [Attempt -> WorkerState]
  /\ proc \in [Attempt -> ProcState]
  /\ ctl \in [Ctl -> CtlState]

Init ==
  /\ batch = "planned"
  /\ stage = [i \in Item |-> IF i[2] = 1 THEN "ready" ELSE "pending"]
  /\ budget = [i \in Item |-> Budget[i[2]]]
  /\ attempt = [a \in Attempt |-> "absent"]
  /\ lease = [a \in Attempt |-> "none"]
  /\ commit = [a \in Attempt |-> "none"]
  /\ worker = [a \in Attempt |-> "off"]
  /\ proc = [a \in Attempt |-> "none"]
  /\ ctl = [c \in Ctl |-> Idle]

-----------------------------------------------------------------------------
(* The queue: start, lease_next.                                           *)

Start(c) ==
  /\ ctl[c] = Idle
  /\ batch \notin {"canceled", "succeeded", "failed"}
  /\ batch' = "running"
  /\ UNCHANGED <<stage, budget, attempt, lease, commit, worker, proc, ctl>>

\* lease_next refreshes the table, then leases one ready stage whose resources
\* are free to a new attempt; a stage without attempts left fails instead.
LeaseNext(i) ==
  LET st == RefreshAll(stage)
      n  == Tried(i) + 1
      a  == <<i[1], i[2], n>>
  IN  /\ batch = "running"
      /\ st[i] = "ready"
      /\ Free(i)
      /\ IF n > budget[i]
         THEN /\ stage' = [st EXCEPT ![i] = "failed_terminal"]
              /\ UNCHANGED <<attempt, lease, worker>>
         ELSE /\ n <= MaxTries
              /\ stage' = [st EXCEPT ![i] = "leased"]
              /\ attempt' = [attempt EXCEPT ![a] = "leased"]
              /\ lease' = [lease EXCEPT ![a] = "live"]
              /\ worker' = [worker EXCEPT ![a] = "exec"]
      /\ UNCHANGED <<batch, budget, commit, proc, ctl>>

-----------------------------------------------------------------------------
(* A worker executes a leased attempt.                                     *)

Spawn(a) ==
  /\ worker[a] = "exec"
  /\ proc[a] = "none"
  /\ attempt[a] = "leased"
  /\ proc' = [proc EXCEPT ![a] = "unrecorded"]
  /\ UNCHANGED <<batch, stage, budget, attempt, lease, commit, worker, ctl>>

MarkRunning(a) ==
  /\ worker[a] = "exec"
  /\ proc[a] = "unrecorded"
  /\ RequireLease(a)
  /\ proc' = [proc EXCEPT ![a] = "recorded"]
  /\ attempt' = [attempt EXCEPT ![a] = "running"]
  /\ stage' = [stage EXCEPT ![ItemOf(a)] = "running"]
  /\ UNCHANGED <<batch, budget, lease, commit, worker, ctl>>

ProcessExits(a) ==
  /\ Alive(a)
  /\ proc' = [proc EXCEPT ![a] = "dead"]
  /\ UNCHANGED <<batch, stage, budget, attempt, lease, commit, worker, ctl>>

\* Heartbeats stop and the lease runs out.
Expire(a) ==
  /\ lease[a] = "live"
  /\ lease' = [lease EXCEPT ![a] = "expired"]
  /\ UNCHANGED <<batch, stage, budget, attempt, commit, worker, proc, ctl>>

\* mark_running, heartbeat, prepare_artifact_commit or fail finds no live
\* lease: LeaseFencedError ends the work on the attempt.  The executor does
\* not stop the process it started.
Fenced(a) ==
  /\ worker[a] = "exec"
  /\ ~RequireLease(a)
  /\ worker' = [worker EXCEPT ![a] = "off"]
  /\ UNCHANGED <<batch, stage, budget, attempt, lease, commit, proc, ctl>>

WorkerDies(a) ==
  /\ worker[a] # "off"
  /\ worker' = [worker EXCEPT ![a] = "off"]
  /\ UNCHANGED <<batch, stage, budget, attempt, lease, commit, proc, ctl>>

-----------------------------------------------------------------------------
(* commit_success: prepare_artifact_commit, _publish_commit_files,         *)
(* _finalize_artifact_commit.                                              *)

Prepare(a) ==
  /\ worker[a] = "exec"
  /\ proc[a] = "dead"
  /\ RequireLease(a)
  /\ commit[a] = "none"
  /\ commit' = [commit EXCEPT ![a] = "prepared"]
  /\ attempt' = [attempt EXCEPT ![a] = "committing"]
  /\ stage' = [stage EXCEPT ![ItemOf(a)] = "committing"]
  /\ worker' = [worker EXCEPT ![a] = "publish"]
  /\ UNCHANGED <<batch, budget, lease, proc, ctl>>

\* The artifact files are in place; the row says so unless it is committed.
\* Mutant of MarkPublished: without "AND state<>'committed'".
MarkPublishedAlways(a) == commit' = [commit EXCEPT ![a] = "published"]
MarkPublished(a) ==
  commit' = [commit EXCEPT ![a] = IF @ = "committed" THEN @ ELSE "published"]

Finalizable(a) == stage[ItemOf(a)] = "committing"

\* Mutant of Finalize: the journal row is not closed.
FinalizeWithoutJournal(a) ==
  /\ attempt' = [attempt EXCEPT ![a] = "succeeded"]
  /\ lease' = [lease EXCEPT ![a] = "none"]
  /\ UNCHANGED commit
  /\ Aggregate(RefreshAll([stage EXCEPT ![ItemOf(a)] = "succeeded"]))

Finalize(a) ==
  /\ commit' = [commit EXCEPT ![a] = "committed"]
  /\ attempt' = [attempt EXCEPT ![a] = "succeeded"]
  /\ lease' = [lease EXCEPT ![a] = "none"]
  /\ Aggregate(RefreshAll([stage EXCEPT ![ItemOf(a)] = "succeeded"]))

WorkerPublish(a) ==
  /\ worker[a] = "publish"
  /\ MarkPublished(a)
  /\ worker' = [worker EXCEPT ![a] = "finalize"]
  /\ UNCHANGED <<batch, stage, budget, attempt, lease, proc, ctl>>

WorkerFinalize(a) ==
  /\ worker[a] = "finalize"
  /\ commit[a] # "committed"
  /\ RequireLease(a)
  /\ Finalizable(a)
  /\ Finalize(a)
  /\ worker' = [worker EXCEPT ![a] = "off"]
  /\ UNCHANGED <<budget, proc, ctl>>

\* A submission that ends without effect: a journal row of this attempt exists
\* already, the files could not be published (StoreError, OSError), another
\* process committed first, or the worker was fenced.
WorkerGivesUp(a) ==
  /\ \/ worker[a] = "exec" /\ commit[a] # "none"
     \/ worker[a] = "publish"
     \/ /\ worker[a] = "finalize"
        /\ commit[a] = "committed" \/ ~RequireLease(a) \/ ~Finalizable(a)
  /\ worker' = [worker EXCEPT ![a] = "off"]
  /\ UNCHANGED <<batch, stage, budget, attempt, lease, commit, proc, ctl>>

-----------------------------------------------------------------------------
(* fail: the stage state of each kind of result, in the order of the code. *)
(* An attempt with a journal row had a successful result and keeps it.     *)

NextState(a, failure) ==
  CASE failure = "unknown"          -> "recovering"
    [] failure = "unclean"          -> "recovering_other"
    [] failure = "canceled"         -> "canceled"
    [] failure = "rejected"         -> "rejected"
    [] failure = "terminal"         -> "failed_terminal"
    [] failure = "delivery_unknown" -> "waiting_manual"
    [] failure = "retryable"        -> IF a[3] < budget[ItemOf(a)] THEN "ready" ELSE "failed_terminal"

\* attempts.status takes the state of the stage as it is, be it ready.
\* Mutant of AttemptOutcome: the column takes the stage_status of the result, and a
\* process that was not cleaned up or a lost answer comes without one.
AttemptOutcomeReported(state) ==
  IF state \in {"recovering_other", "waiting_manual"} THEN "none" ELSE state
AttemptOutcome(state) == IF state = "recovering_other" THEN "recovering" ELSE state

\* A result with cleanup_completed=True is returned for a process that never
\* ran or is gone.  With StoreFaults, a database error in a heartbeat surfaces
\* as a retryable worker_crash that claims the same of a running process.
Reportable(a, failure) ==
  /\ failure \in Reports[a[2]]
  /\ CASE failure = "unknown" -> ItemOf(a)[2] \in Ssh /\ proc[a] # "none"
       [] failure = "unclean" -> proc[a] # "none"
       [] OTHER               -> Alive(a) => (StoreFaults /\ failure = "retryable")

Fail(a, failure) ==
  LET state    == NextState(a, failure)
      released == failure \notin {"unknown", "unclean"}
  IN  /\ worker[a] = "exec"
      /\ RequireLease(a)
      /\ commit[a] = "none"
      /\ Reportable(a, failure)
      /\ attempt' = [attempt EXCEPT ![a] = AttemptOutcome(state)]
      /\ lease' = [lease EXCEPT ![a] = IF released THEN "none" ELSE "revoked"]
      /\ Aggregate(Ended(stage, ItemOf(a), state))
      /\ worker' = [worker EXCEPT ![a] = "off"]
      /\ UNCHANGED <<budget, commit, proc, ctl>>

-----------------------------------------------------------------------------
(* A control process works through the attempts it selected, one by one.   *)

Step(c, pc)      == ctl' = [ctl EXCEPT ![c].pc = pc]
CurrentDone(c)   == ctl' = [ctl EXCEPT ![c] = Working(ctl[c].op, ctl[c].todo)]
\* Rows are visited in the order of their ids.
Pick(c, first)   ==
  /\ ctl[c].pc = "next"
  /\ \E a \in ctl[c].todo :
       /\ \A b \in ctl[c].todo : ItemOf(b) = ItemOf(a) => b[3] >= a[3]
       /\ ctl' = [ctl EXCEPT ![c].todo = @ \ {a}, ![c].cur = {a}, ![c].pc = first]

CtlDies(c) ==
  /\ CtlMayDie
  /\ ctl[c] # Idle
  /\ ctl' = [ctl EXCEPT ![c] = Idle]
  /\ UNCHANGED <<batch, stage, budget, attempt, lease, commit, worker, proc>>

-----------------------------------------------------------------------------
(* resume: reconcile_artifact_commits, then recover_expired, then refresh. *)

Reconcilable(a) == commit[a] \in {"prepared", "published"} /\ Unrevoked(a)

ResumeBegins(c) ==
  /\ ctl[c] = Idle
  /\ ctl' = [ctl EXCEPT ![c] = Working("reconcile", {a \in Attempt : Reconcilable(a)})]
  /\ UNCHANGED <<batch, stage, budget, attempt, lease, commit, worker, proc>>

ReconcilePicks(c) ==
  /\ ctl[c].op = "reconcile"
  /\ Pick(c, "publish")
  /\ UNCHANGED <<batch, stage, budget, attempt, lease, commit, worker, proc>>

ReconcilePublish(c, a) ==
  /\ ctl[c].pc = "publish" /\ ctl[c].cur = {a}
  /\ MarkPublished(a)
  /\ Step(c, "finalize")
  /\ UNCHANGED <<batch, stage, budget, attempt, lease, worker, proc>>

\* The files are not where the row says (StoreError), changed under the
\* check (ContractError) or could not be moved (OSError).
ReconcilePublishFails(c, a) ==
  /\ ctl[c].pc = "publish" /\ ctl[c].cur = {a}
  /\ Step(c, "abort")
  /\ UNCHANGED <<batch, stage, budget, attempt, lease, commit, worker, proc>>

ReconcileFinalize(c, a) ==
  /\ ctl[c].pc = "finalize" /\ ctl[c].cur = {a}
  /\ IF commit[a] = "committed"
     THEN UNCHANGED <<batch, stage, attempt, lease, commit>> /\ CurrentDone(c)
     ELSE IF Unrevoked(a) /\ Finalizable(a)
          THEN Finalize(a) /\ CurrentDone(c)
          ELSE UNCHANGED <<batch, stage, attempt, lease, commit>> /\ Step(c, "abort")
  /\ UNCHANGED <<budget, worker, proc>>

\* _fail_artifact_commit
\* Mutant of ReconcileAborts: without the check that the row is not committed.
ReconcileAbortsAlways(c, a) ==
  /\ ctl[c].pc = "abort" /\ ctl[c].cur = {a}
  /\ commit' = [commit EXCEPT ![a] = "failed"]
  /\ attempt' = [attempt EXCEPT ![a] = "failed_terminal"]
  /\ stage' = [stage EXCEPT ![ItemOf(a)] = "failed_terminal"]
  /\ lease' = DropLeasesOf(ItemOf(a), lease)
  /\ CurrentDone(c)
  /\ UNCHANGED <<batch, budget, worker, proc>>

ReconcileAborts(c, a) ==
  /\ ctl[c].pc = "abort" /\ ctl[c].cur = {a}
  /\ IF commit[a] = "committed"
     THEN UNCHANGED <<stage, attempt, lease, commit>>
     ELSE /\ commit' = [commit EXCEPT ![a] = "failed"]
          /\ attempt' = [attempt EXCEPT ![a] = "failed_terminal"]
          /\ stage' = [stage EXCEPT ![ItemOf(a)] = "failed_terminal"]
          /\ lease' = DropLeasesOf(ItemOf(a), lease)
  /\ CurrentDone(c)
  /\ UNCHANGED <<batch, budget, worker, proc>>

\* Mutant of RanOut: waits for the process to end as well.
RanOutAndExited(a) == lease[a] = "expired" /\ ~Alive(a)
RanOut(a) == lease[a] = "expired"

\* recover_expired selects the unrevoked leases that ran out.  A lease of an
\* earlier boot is selected too; its holder is gone and its process with it.
RecoverBegins(c) ==
  /\ ctl[c].op = "reconcile" /\ ctl[c].pc = "next" /\ ctl[c].todo = {}
  /\ ctl' = [ctl EXCEPT ![c] = Working("recover", {a \in Attempt : RanOut(a)})]
  /\ UNCHANGED <<batch, stage, budget, attempt, lease, commit, worker, proc>>

RecoverPicks(c) ==
  /\ ctl[c].op = "recover"
  /\ Pick(c, "revoke")
  /\ UNCHANGED <<batch, stage, budget, attempt, lease, commit, worker, proc>>

\* First transaction: fence the holder, unless the lease the stage shows is
\* another one or is already revoked.
RecoverRevokes(c, a) ==
  /\ ctl[c].pc = "revoke" /\ ctl[c].cur = {a}
  /\ IF IsFirstLease(a) /\ Unrevoked(a)
     THEN lease' = RevokeLeasesOf({ItemOf(a)}, lease) /\ Step(c, "cleanup")
     ELSE UNCHANGED lease /\ CurrentDone(c)
  /\ UNCHANGED <<batch, stage, budget, attempt, commit, worker, proc>>

\* _cleanup_lease_process terminates the process group the lease records.  A
\* lease without a pid counts as clean; terminating the SSH wrapper of a remote
\* stage does not touch the process on the server.
CleansUp(c, a) ==
  /\ ctl[c].pc = "cleanup" /\ ctl[c].cur = {a}
  /\ \/ /\ proc[a] = "recorded" /\ ~RemoteItem(ItemOf(a))
        /\ \/ /\ proc' = [proc EXCEPT ![a] = "dead"]
              /\ ctl' = [ctl EXCEPT ![c].pc = "settle"]
           \/ /\ UNCHANGED proc
              /\ ctl' = [ctl EXCEPT ![c].pc = "settle", ![c].clean = FALSE]
     \/ /\ proc[a] # "recorded" \/ RemoteItem(ItemOf(a))
        /\ UNCHANGED proc
        /\ ctl' = [ctl EXCEPT ![c].pc = "settle"]
  /\ UNCHANGED <<batch, stage, budget, attempt, lease, commit, worker>>

\* Second transaction: a remote stage waits for an explicit decision and keeps
\* its lease row; a local one is queued again if it is clean and has attempts
\* left.  max_attempts is the value read when the rows were selected; it only
\* grows, and only by retry.
RecoverSettles(c, a) ==
  LET i     == ItemOf(a)
      again == ctl[c].clean /\ a[3] < budget[i]
  IN  /\ ctl[c].op = "recover" /\ ctl[c].pc = "settle" /\ ctl[c].cur = {a}
      /\ IF ~IsFirstLease(a)
         THEN UNCHANGED <<stage, attempt, lease>>
         ELSE IF RemoteItem(i)
         THEN /\ attempt' = [attempt EXCEPT ![a] = "recovering"]
              /\ stage' = [stage EXCEPT ![i] = "recovering"]
              /\ UNCHANGED lease
         ELSE /\ attempt' = [attempt EXCEPT ![a] = "lease_expired"]
              /\ stage' = [stage EXCEPT ![i] = IF again THEN "ready" ELSE "failed_terminal"]
              /\ lease' = IF ctl[c].clean THEN DropLeasesOf(i, lease) ELSE lease
      /\ CurrentDone(c)
      /\ UNCHANGED <<batch, budget, commit, worker, proc>>

RecoverEnds(c) ==
  /\ ctl[c].op = "recover" /\ ctl[c].pc = "next" /\ ctl[c].todo = {}
  /\ Aggregate(stage)
  /\ ctl' = [ctl EXCEPT ![c] = Working("refresh", {})]
  /\ UNCHANGED <<budget, attempt, lease, commit, worker, proc>>

Refresh(c) ==
  /\ ctl[c].op = "refresh"
  /\ Aggregate(RefreshAll(stage))
  /\ ctl' = [ctl EXCEPT ![c] = Idle]
  /\ UNCHANGED <<budget, attempt, lease, commit, worker, proc>>

-----------------------------------------------------------------------------
(* cancel of some tasks: first transaction, clean up each lease, aggregate. *)

CancelBegins(c, T) ==
  LET rows == {i \in Item : i[1] \in T /\ stage[i] \notin TerminalStates}
  IN  /\ ctl[c] = Idle
      /\ \A a \in Attempt : HasRow(a) /\ ItemOf(a) \in rows => ~RemoteItem(ItemOf(a))
      /\ stage' = [i \in Item |-> IF i \in rows THEN "canceled" ELSE stage[i]]
      /\ lease' = RevokeLeasesOf(rows, lease)
      /\ ctl' = [ctl EXCEPT ![c] =
                   Working("cancel", {a \in Attempt : ItemOf(a) \in rows /\ IsFirstLease(a)})]
      /\ UNCHANGED <<batch, budget, attempt, commit, worker, proc>>

CancelPicks(c) ==
  /\ ctl[c].op = "cancel"
  /\ Pick(c, "cleanup")
  /\ UNCHANGED <<batch, stage, budget, attempt, lease, commit, worker, proc>>

CancelSettles(c, a) ==
  LET i == ItemOf(a)
  IN  /\ ctl[c].op = "cancel" /\ ctl[c].pc = "settle" /\ ctl[c].cur = {a}
      /\ IF ~IsFirstLease(a)
         THEN UNCHANGED <<stage, attempt, lease>>
         ELSE /\ attempt' = [attempt EXCEPT ![a] = "canceled"]
              /\ lease' = IF ctl[c].clean THEN DropLeasesOf(i, lease) ELSE lease
              /\ stage' = IF ctl[c].clean THEN stage ELSE [stage EXCEPT ![i] = "failed_terminal"]
      /\ CurrentDone(c)
      /\ UNCHANGED <<batch, budget, commit, worker, proc>>

CancelEnds(c) ==
  /\ ctl[c].op = "cancel" /\ ctl[c].pc = "next" /\ ctl[c].todo = {}
  /\ Aggregate(stage)
  /\ ctl' = [ctl EXCEPT ![c] = Idle]
  /\ UNCHANGED <<budget, attempt, lease, commit, worker, proc>>

-----------------------------------------------------------------------------
(* retry of the failed stages of the batch or a task, or of one position.  *)

AtLeast(n, m) == IF n < m THEN m ELSE n

RetryableStates == {"failed_terminal", "rejected", "waiting_manual"}

Retry(c, T, S) ==
  LET rows == {i \in T \X S : stage[i] \in RetryableStates}
  IN  /\ ctl[c] = Idle
      /\ rows # {}
      /\ \A i \in rows : Tried(i) < MaxTries
      /\ \E kept \in LeftReady(rows) : stage' = Retried(stage, rows, kept)
      /\ budget' = [i \in Item |-> IF i \in rows THEN AtLeast(budget[i], Tried(i) + 1) ELSE budget[i]]
      /\ batch' = "running"
      /\ UNCHANGED <<attempt, lease, commit, worker, proc, ctl>>

-----------------------------------------------------------------------------
(* recover-remote settles one recovering attempt of a stage run over SSH.  *)

Settleable(a) ==
  /\ ItemOf(a)[2] \in Ssh
  /\ stage[ItemOf(a)] = "recovering"
  /\ attempt[a] = "recovering"
  /\ lease[a] = "revoked"

\* The probe found RESULT and it was downloaded into the staging directory,
\* which must still be there: the command holds the lease again and submits the
\* result with commit_success or fail.
Reactivate(c, a) ==
  /\ ctl[c] = Idle
  /\ Settleable(a)
  /\ proc[a] = "dead"
  /\ commit[a] \in {"none", "prepared"}
  /\ lease' = [lease EXCEPT ![a] = "live"]
  /\ attempt' = [attempt EXCEPT ![a] = "leased"]
  /\ stage' = [stage EXCEPT ![ItemOf(a)] = "leased"]
  /\ worker' = [worker EXCEPT ![a] = "exec"]
  /\ UNCHANGED <<batch, budget, commit, proc, ctl>>

\* The probe found EXITED or MISSING.
Resolve(c, a, action) ==
  LET i == ItemOf(a)
  IN  /\ ctl[c] = Idle
      /\ Settleable(a)
      /\ ~Alive(a)
      /\ action = "retry" => a[3] < MaxTries
      /\ attempt' = [attempt EXCEPT ![a] = IF action = "retry" THEN "failed_retryable"
                                           ELSE "failed_terminal"]
      /\ lease' = [lease EXCEPT ![a] = "none"]
      /\ budget' = IF action = "retry" THEN [budget EXCEPT ![i] = AtLeast(@, a[3] + 1)] ELSE budget
      /\ Aggregate(RefreshAll(Ended(stage, i, IF action = "retry" THEN "ready" ELSE "failed_terminal")))
      /\ UNCHANGED <<commit, worker, proc, ctl>>

-----------------------------------------------------------------------------
WorkerStep ==
  \/ \E i \in Item : LeaseNext(i)
  \/ \E a \in Attempt :
       \/ Spawn(a) \/ MarkRunning(a) \/ Fenced(a)
       \/ Prepare(a) \/ WorkerPublish(a) \/ WorkerFinalize(a) \/ WorkerGivesUp(a)
       \/ \E failure \in Failure : Fail(a, failure)

Environment == \E a \in Attempt : ProcessExits(a) \/ Expire(a) \/ WorkerDies(a)

ResumeStep(c) ==
  \/ ReconcilePicks(c) \/ RecoverBegins(c) \/ RecoverPicks(c) \/ RecoverEnds(c) \/ Refresh(c)
  \/ \E a \in Attempt :
       \/ ReconcilePublish(c, a) \/ ReconcilePublishFails(c, a)
       \/ ReconcileFinalize(c, a) \/ ReconcileAborts(c, a)
       \/ RecoverRevokes(c, a) \/ RecoverSettles(c, a)

CancelStep(c) ==
  CancelPicks(c) \/ CancelEnds(c) \/ \E a \in Attempt : CancelSettles(c, a)

CtlStep(c) ==
  \/ Start(c) \/ ResumeBegins(c) \/ ResumeStep(c) \/ CancelStep(c) \/ CtlDies(c)
  \/ \E T \in SUBSET Task \ {{}} : CancelBegins(c, T)
  \/ \E a \in Attempt : CleansUp(c, a) \/ Reactivate(c, a)
  \/ \E a \in Attempt, action \in {"retry", "terminal"} : Resolve(c, a, action)
  \/ \E T \in {Task} \cup {{t} : t \in Task}, S \in {Stage} \cup {{s} : s \in Stage} : Retry(c, T, S)

Next == WorkerStep \/ Environment \/ \E c \in Ctl : CtlStep(c)

Spec == Init /\ [][Next]_vars

-----------------------------------------------------------------------------
(* What the queue promises in every state.                                 *)

\* An unrevoked lease is the authority to write; a stage has at most one.
Authority(i) == {a \in AttemptsOf(i) : Unrevoked(a)}

\* Capacity counts every lease row, revoked ones included: a slot or lock that
\* _allocate_resources gave away stays taken until the row is deleted, so no
\* order of workers and commands puts more holders on a resource than it has.
ResourceExclusion == \A r \in Resource : Cardinality(Holders(r)) <= Capacity[r]

\* No two holders may submit for the same stage: each lease_next of a stage
\* comes after the previous lease was deleted or revoked.
SingleAuthority == \A i \in Item : Cardinality(Authority(i)) <= 1

\* Whoever may still submit belongs to an attempt that no command has ended:
\* a fenced, failed, canceled or recovering attempt keeps no unrevoked lease.
AuthorityInFlight == \A a \in Attempt : Unrevoked(a) => attempt[a] \in InFlight

\* The artifact journal and the attempt table agree on what was published.
SucceededIffCommitted == \A a \in Attempt : attempt[a] = "succeeded" <=> commit[a] = "committed"

\* A stage counts as succeeded only on the strength of a committed attempt.
SuccessBacked ==
  \A i \in Item : stage[i] = "succeeded" /\ i[2] # Gate =>
    \E a \in AttemptsOf(i) : commit[a] = "committed"

\* A stage is executed only when the stage it depends on has succeeded.
PredecessorsDone ==
  \A i \in Item : stage[i] \in ActiveStates => PredecessorOk(stage, i)

-----------------------------------------------------------------------------
(* What no step may do.                                                    *)

\* A published result is final: no late publisher, reconciler, canceler or
\* recovery takes back a committed journal row or the attempt it belongs to.
CommitIsFinal ==
  [][\A a \in Attempt : commit[a] = "committed" =>
       commit'[a] = "committed" /\ attempt'[a] = "succeeded"]_vars

\* A remote stage in recovering is never settled behind the back of its
\* attempt: it leaves that state only in the step that ends or reactivates the
\* recovering attempt (reactivate_ and resolve_recovering_item).
RecoveringHeld ==
  [][\A i \in Item : i[2] \in Remote /\ stage[i] = "recovering" /\ stage'[i] # "recovering" =>
       \E a \in AttemptsOf(i) : attempt[a] = "recovering" /\ attempt'[a] # "recovering"]_vars

\* No command brings a canceled stage back to the queue: only a retry of an
\* earlier stage resets it, and then to pending.
CanceledNotQueued ==
  [][\A i \in Item : stage[i] \in CanceledStates => stage'[i] # "ready"]_vars

\* An attempt that some command has ended never returns to flight: no late
\* mark_running, commit, recovery or reconciliation revives it.
EndedStaysEnded ==
  [][\A a \in Attempt : attempt[a] \in EndedStates => attempt'[a] \in EndedStates]_vars

\* The lease row, and with it the GPU, of an attempt whose process may run on the
\* server outlives the worker that started it: only a database error reported as a
\* crash deletes it, or _fail_artifact_commit of another attempt of the stage.
GpuGivenUp ==
  [][\A a \in Attempt : RemoteItem(ItemOf(a)) /\ Alive(a) /\ HasRow(a) =>
       \/ HasRow(a)'
       \/ StoreFaults /\ Fail(a, "retryable")
       \/ \E c \in Ctl, b \in AttemptsOf(ItemOf(a)) \ {a} : ReconcileAborts(c, b)]_vars

-----------------------------------------------------------------------------
(* The queue implements fenced publication: authority is an unrevoked      *)
(* lease, and an attempt is open from lease_next until it is ended.        *)

OutcomeOf(status) ==
  CASE status = "absent"                        -> "new"
    [] status \in InFlight \cup {"recovering"} -> "open"
    [] status = "succeeded"                     -> "published"
    [] status \in EndedStates \ {"succeeded"}   -> "ended"

Publication == INSTANCE FencedPublication WITH
  Rivals  <- [a \in Attempt |-> AttemptsOf(ItemOf(a))],
  holders <- {a \in Attempt : Unrevoked(a)},
  outcome <- [a \in Attempt |-> OutcomeOf(attempt[a])]

\* Results are published only under authority, authority has one holder per
\* stage, and nothing that ended is opened again.
FencedSpec == Publication!Spec

-----------------------------------------------------------------------------
(* What must eventually happen.  A command that has begun goes on to its   *)
(* next step (unless it may die), and resume is run again and again: every *)
(* worker run starts with it and every failed submission calls it.         *)

Fairness ==
  \A c \in Ctl : /\ WF_vars(ResumeStep(c) \/ CancelStep(c) \/ \E a \in Attempt : CleansUp(c, a))
                 /\ SF_vars(ResumeBegins(c))

LiveSpec == Spec /\ Fairness

\* An attempt does not stay in flight for ever without a live lease: it is settled
\* by recover_expired or reconcile_artifact_commits (or was ended by cancel).
ExpiredIsSettled == \A a \in Attempt : []<>(attempt[a] \in InFlight => lease[a] = "live")
=============================================================================
