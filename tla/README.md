# Verification of InsertAny3D-Local

TLA+ models of the batch system of InsertAny3D-Local, the TLC runs that check
them on small instances, and machine-checked proofs (TLAPS) of what holds for
every instance. All paths below are relative to `src/`.

A batch is a set of tasks; each task goes through one chain of stages (edit an
image, have it reviewed, upload, reconstruct and match on a GPU server, download,
render in Unity, evaluate). Everything that must survive a crash is in one SQLite
database. Worker processes lease stages from it, run them, and submit their
results; command-line commands repair, cancel and steer the same rows at the same
time. What can go wrong is almost never inside one function: it is in the order
in which workers, commands, the GPU server, the paid image API and the reviewer
act on shared rows and files, each of them free to die halfway.

## 1. The system

| Component | Source | State it keeps | Operations |
|---|---|---|---|
| Stage chain | `insertany3d/dag.py` | none (the order of the stages) | predecessor, downstream, the special positions |
| Batch scheduler | `insertany3d/scheduler.py`, `store.py` | tables `batches`, `stages`, `attempts`, `leases`, `artifact_commits` | plan, start, lease_next, mark_running, heartbeat, commit_success (prepare / publish files / finalize), fail, resume (reconcile, recover_expired, refresh), cancel, retry, get/reactivate/resolve_recovering_item, gc |
| Image edit group | the same files and `image_edit.py` | `image_edit_generations`, `edit_reviews`, `editGenerationGroup` and `acceptedGenerationPath` in the configs | lease of a candidate, partial completion, opening of a review, decide_edit |
| Worker | `insertany3d/worker.py`, `executors.py` | the wave of leased items, threads, the process of each item | lease a wave, execute, wait for all, submit one by one |
| Process supervision | `insertany3d/processes.py`, `tools/windows_job_runner.ps1` | process groups and Windows jobs | spawn, find, terminate |
| Remote attempt | `insertany3d/remote_worker.py`, `runtime_workers.py` | `output.staging`, the download directory, the lock, pid and log files on the server | upload, start or probe, poll, download, validate, report |
| Stage adapter | `tools/stage_adapter.py` | `stage_result.json`, the stage's process group | run the commands of a stage, terminate, write the result |
| Recovery commands | `insertany3d/remote_recovery.py` | the archive of failed transports | probe, recover_result, resolve_stopped, cancel_running |
| Image API and queue | `insertany3d/apiyi.py`, `local_workers.py` | the row of a bucket (limit, in flight, owner), a gate in the process | acquire, release with 429/503 reaction, take over after a crash |
| Stage wiring | `insertany3d/stage_wiring.py` | none | request of a stage from committed artifacts |
| Commands | `insertany3d/cli.py` | none of its own | plan, run, run-all, resume, retry, cancel, edit decide, recover-remote, evaluate |
| Evaluation | `insertany3d/evaluation/*` | response cache and its locks, manifests | paid requests with retry, aggregation, finalizers |
| Contracts, credentials | `insertany3d/contracts/*`, `credentials.py` | none | validation, reading keys |
| Database file | `insertany3d/store.py` | the SQLite file and its schema version | open, migrate step by step, transaction |
| Single-machine pipeline | `tools/run_insert_batch.py`, `tools/run_insert_pipeline.py`, `tools/workspace.py` | `manifest.json` of a task, its stage attempts, the published evidence, the batch record | one task after the other, all stages in one process, over whatever an earlier run left |
| Model center, geometry, rendering, segmentation | `tools/*` | files | sequential programs, numerical work on images and point clouds |

How they interact:

* **Scheduler, workers, commands** share only the database. Each transaction is
  `BEGIN IMMEDIATE`, so transactions are atomic and serial; everything between two
  transactions of the same call (publishing files, stopping a process) is open to
  every other actor. A lease token is the authority to write; a lease ends by time,
  and the holder is not told.
* **Worker and remote attempt**: the worker starts a local SSH wrapper as the process
  of the stage. The wrapper and the server share ssh and scp calls, any of which can
  be lost, be answered late, or time out while their effect happens. What the wrapper
  leaves in `output.staging` is what the worker submits.
* **Recovery commands** look at the server with a probe script and then act on the
  database and on the same local directories; nothing locks either for them.
* **Scheduler and reviewer**: `image_edit` is the only stage with several leases at a
  time. All its candidates write the one state of the stage. The gate behind it is not
  a process but a row that follows the latest review.
* **Image queue**: limits paid requests across worker processes through a row of the
  database and across threads through a gate in memory.

What makes each part correct:

| Component | It is correct if |
|---|---|
| Scheduler | at most one attempt of a stage may write; a published result is final; the journal and the attempt table agree; a stage succeeds only on a committed attempt and runs only after its predecessor; resources are never handed out beyond their capacity; a lost lease is eventually settled; a canceled stage stays out of the queue |
| Image edit | one candidate is generated by one attempt at a time; a review is opened once, over finished images only; the gate opens only on an accepted image; an image once made stays; an unclear delivery blocks the stage until an operator acts; every group ends |
| Remote attempt, recovery | the GPU slot is taken while anything may run; a finished result is never given up; an attempt is settled once, whatever commands run beside each other; the result can be handed in after any crash |
| Commands, run-all | nobody's scores close before the evidence of all; what has succeeded is not done again; a running batch ends, or waits for an operator |
| Local stage | one Unity at a time has the project open; nothing is deleted under a process that works in it |
| Stage wiring, adapter | a stage gets the files of its own task, view and accepted picture, and is refused them only for a reason |
| Database file | the version promises only what is there; a migration loses no lease |
| Single-machine pipeline | ready means made by one run, with its evidence; a failed run takes nothing away |
| Worker | every leased item is submitted or fenced; one failing submission does not lose the others |
| Process supervision | what is reported as stopped is stopped |
| Image queue | never more paid requests than the limit; a slot is always returned; a request that may have been billed is not repeated blindly |
| Evaluation | a paid answer is asked for once and found again; a batch is finalized as a whole, by one command |

The hard behaviours are listed with their lines in `PROJECT.json` under `hazards`:
interleavings of a command's two transactions with other commands, work from rows
read long before, lost and late ssh calls, crashes between two transactions, partial
failure of one candidate of a group, retries of what was already paid for.

## 2. Modules

| Module | What it is | State and actions in the code |
|---|---|---|
| `StageDag` | operators on the table of stage states | `dag.py`, `_refresh_ready` (`Refreshed`), `_route_debug_bundle` (`Routed`), `retry` (`Retried`), `_skip_incomplete_evaluation`, `_update_aggregate_status` |
| `LeaseScheduler` | the persistent queue, extends `StageDag` | see below |
| `FencedPublication` | what the queue promises a reader: authority, publication, end | abstract; `LeaseScheduler!FencedSpec` is the refinement |
| `ImageEdit` | the candidate group, the review and the gate of one task, extends `StageDag` | see below |
| `RemoteAttempt` | wrapper, start script, adapter and recovery commands of one remote stage | see below |
| `OccupiedSlot` | what the owner of a GPU slot is promised | abstract; `RemoteAttempt!SlotSpec` is the refinement |
| `ImageQueue` | the bucket of paid image requests and the executor that goes through it | see below |
| `BatchRun` | run-all over one batch: waves, reviews, finalizers, output directories; extends `StageDag` | see below |
| `Evaluation` | the commands that ask for scores, and the finalizers they commit | see below |
| `LocalAttempt` | lease, process tree and directory of a Unity stage, with gc and the cleaning commands | see below |
| `StageInputs` | which file becomes which input, from `unity_anchor` to `unity_apply` | see below |
| `StoreSchema` | the migration of the database file, statement by statement | see below |
| `Pipeline` | the single-machine pipeline and the batch command over it | see below |
| `...Proofs` | theorems about the module in their name, `ServerProofs` about `RemoteAttempt` and `Pipeline`, `StageProofs` about `LocalAttempt` and `StageInputs`, with their proofs | see section 4 |
| `MC...` | instances for TLC of the module in their name | |

`LeaseScheduler`, `ImageEdit`, `RemoteAttempt` and `LocalAttempt` take one stage apart, down
to the transaction, the ssh call and the process. `BatchRun` puts the stages of several tasks
back together under the loop that drives them, and takes from the others only what their
calls amount to. `Evaluation` is the inside of its finalizers, `StageInputs` the inside of the
requests it hands out.

**LeaseScheduler.** `stage`, `budget`, `attempt`, `lease`, `commit` are the columns
`stages.state`, `stages.max_attempts`, `attempts.status`, the lease row and
`artifact_commits.state`; `batch` is `batches.status`; `worker` and `proc` are where
the holder of an item and the process it started are; `ctl` is where each command is.
One transaction is one action. `commit_success` is three (`Prepare`, `WorkerPublish`,
`WorkerFinalize`), `reconcile_artifact_commits` runs the last two for rows another
process left (`ReconcilePublish`, `ReconcileFinalize`, `ReconcileAborts`),
`recover_expired` is `RecoverRevokes`, `CleansUp`, `RecoverSettles`, and `cancel` is
`CancelBegins`, `CleansUp`, `CancelSettles`, `CancelEnds`. A command selects its rows
first and works from that selection (`todo`), as the code does. `lease_next` refreshes
the table before it looks at it, so `LeaseNext` does. Tokens are not values: an
attempt has at most one, so a lease is the attempt's own. The order in which SQLite
returns the rows of `SELECT ... FROM leases WHERE stage_id=?`, without ORDER BY, is
that of the index `leases_stage`; `IsFirstLease` is that row, and some of the
counterexamples below depend on it. Two error codes that are read back by
the code are folded into the states (`recovering_other`, `eval_skipped`). The column
`attempts.status` takes the state of the stage as it is (`scheduler.py:578`): an attempt that failed and
may be repeated is `ready`, and nobody reads the difference. `Reports` gives the kinds of failure that
the executor of a stage reports.

**ImageEdit.** `gen` is `image_edit_generations.status`, `cand` which candidate an
attempt is for, `review` the row of `edit_reviews` made by the commit of an attempt,
`accepted` the path stored in the gate's config. The lease, commit and worker variables are those of
`LeaseScheduler`, with one lease per candidate. `holder` says which worker process
leased an attempt: a process submits its wave in order and leases again afterwards.
Reconciling is one step here because `LeaseScheduler` already takes it apart.

**RemoteAttempt.** `state` and `now` are the stage and its newest attempt; `actor` is the
program counter of the wrapper and of each command; `staging` and `download` are the
two local directories; `script`, `adapter`, `child` and `result` are what is on the
server. Each ssh call, file operation and transaction is a step: `ScriptLocks`,
`ScriptLaunches`, `ScriptRecords` are the lines of the start script, `Printed` and
`Observed` the probe script in its order of tests, `ArchiveChecks`, `ArchiveRenames`,
`ArchiveMakes` the three file operations of `_archive_transport_failure`.
Abstractions: a commit is one step; there is one GPU slot; the existence check of the
download directory and its creation by scp are one step; `failed` stands for
failed_terminal, rejected and canceled; the adapter writes its result and exits in one
step; the loss of the wrapper and the expiry of its lease are one action
(`LeaseOrWrapperLost`). `upload_inputs` and `download_results` start nothing on the
server and are left out.

**ImageQueue.** `bucket` is the row of `api_buckets`, `owner` the running process named
in `api_bucket_owners` (the row of a dead process is as good as none), `inFlight` the
gate in the memory of each process, `queue` the queue object it has opened. A call is
one attempt at one image; its `pc` walks through `_execute_image`: open the queue, wait
for a slot, the heartbeat before the request, the request, `release` in its two halves
(row, then gate), the report to the scheduler. `upstream` is what the API did with the
request, which no code can see. A 5xx answer is taken for a refusal, as `classify_http`
takes it. Abstractions: cooldowns have no length; the scheduler is only "one call of an
image at a time" and what `fail()` decides; a lost candidate stays lost, which is what
`recover_expired` does to it.

**BatchRun.** `db` is the database of one batch with the output directories: stages, attempts
(`tries`, `budget`), one lease per item, the reviewed picture of each task, the idempotency
key, and `dirs`, the directories with the attempt whose files they hold. `pc` is where
`_run_all` is: in the loop, in the pass of a worker (lease the wave, execute, submit one after
the other with publishing apart), in the evaluation gate or among the finalizers; `wave` is the
list of leased items in the order of submission, `todo` what the command read before its loop.
`Executing` ends a stage of the wave, `Dies` is the death of the command, which starts
again at the top; `Operator` and `Attention` are the commands given beside it. The key of an
attempt (`Digest`) is what `_refresh_idempotency_key` hashes: the choice of the picture, the
bytes of what came before, and which of it is done.

**Evaluation.** `cache`, `lock` and `summary`, `scores` are the files of an output directory;
`bought` counts the answers paid for. A command runs through the gate, the first look at the
cache, and for each request lock, second look, call, validation, store, unlock; then it writes
the summary and the scores of the tasks, reads them back and commits one finalizer at a time.
`Resumes` gives back the finalizer of a command that died, `Drift` changes evidence behind its
manifest.

**LocalAttempt.** `tree` is what the worker started: the PowerShell wrapper (WSL), the root
with Unity under it, or what the root left; `job` is the job object of Windows, which dies with
the worker. `worker` walks through guard, spawn, bind, `mark_running`, heartbeats, result and
submission; `janitor` is `recover_expired` or `cancel` between its transactions (revoke, end
processes, settle); `gc` reads the active attempts, lists the directories of the others and deletes
them, three steps between which everything else may happen. A directory
made inside the transaction of a lease stays when the transaction is rolled back.

**StoreSchema.** `version`, `objects` and `rows` are the file; the scripts of `_migrate` are
sequences of statements, each of which is its own transaction, because `executescript` commits
the one that was begun. A process reads the version first and then executes script after
script; `Raises` is a failing statement and `Ends` the death or end of a process.

**StageInputs.** `committed` is the set of files of every stage, and `Row` the order of their rows, which
matters where a plan takes the first of several; `accepted` is `acceptedGenerationPath`; `strays` is what
lies on the server beside what a request lists, `workspace` what `unity_apply` has copied. `Alias` is
`_assign_aliases`, `Uses` the plan each stage makes of its request, and `Finishes` what its tools leave. A
file is the stage that wrote it, its directory, view and kind; nothing is said of its bytes. A stage fails
because its inputs are refused, files are missing from its result, a quality gate says no, the network or a
tool fails, or the worker dies; `why` remembers which.

**Pipeline.** An output is the number of the run that made it. `Plan` is the sequence of
stages that the options of a task ask for; `BeginsStage`, `StageReturns` and `FinishesStage` are
the writes around one `_run_stage`, `MovesAside` and `MovesIn` the two renames of
`publish_tree`, `WritesOutcome`, `WritesBook` and `WritesEvidence` the end of a run.
The batch command skips what is ready, refuses what it must (a manifest of its own, then a record),
launches a pipeline and records what its manifest says. The records of an earlier batch stay until the first
task of the new one has ended. A stage ends ready, failed, rejected or out of time; the manifest lists these
apart (`failed`, `rejected`, `late`), and only failures and rejections count at the end (`Outcome`).
After a reconstruction that failed and was tolerated the conversion of its mesh is passed over
(`PassesOver`). Both processes may be killed between any two writes, those of `publish_tree` included:
`backup` is what lies aside then.

## 3. What is checked

Passing runs. State counts are distinct states; every run is exhaustive.

| Run | Instance | Shows |
|---|---|---|
| `fencing` (866 363 states) | 1 local stage, 2 attempts, 2 slots, every kind of failure, 2 commands that may die between any two transactions | `SucceededIffCommitted`, `CommitIsFinal`: journal and attempts agree, publication is final. `FencedSpec`: the queue implements `FencedPublication` |
| `remote` (549 450) | a local and a remote stage sharing 1 slot, 2 attempts each, one command at a time, `LiveSpec` | `TypeOK`, `SuccessBacked`, `ResourceExclusion`. `ExpiredIsSettled`: no attempt stays in flight without a lease |
| `group` (1 145 646) | 2 groups of 2 candidates, 4 attempts, 2 worker processes, both edit policies, leases expire, workers die, one command | `CandidateExclusive`, `ReviewSound`, `ImagesKept` |
| `attempt` (2 970 154) | 2 attempts, the wrapper and 2 recovery commands, every call and process may fail | `TypeOK`, `ResultNotDiscarded`, and `SlotSpec`: the attempts implement `OccupiedSlot` |
| `image_queue` (234 075) | 2 processes that die and restart, 2 images of 2 tries, an adaptive and a fixed manifest, leases are lost | `TypeOK` (a limit never reaches 0), `OneController`: one process at a time sends through the bucket. `WithinQuota`: its open requests stay within the maximum of the row. `BilledOnce`: an image is not asked for again while an earlier request may have been taken |
| `batch_run` (161 321) | 2 tasks of 5 stages, waves of 2, one death of the command, one more picture and one more attempt on request, resume, retry, cancel, review and evaluate beside it, `LiveSpec` | `TypeOK`. `ScoredTogether`: no finalizer succeeds before the evidence of all tasks. `OutputKept`: an output directory keeps the files of one attempt. `NeverRepeated`: what has succeeded runs again only after an operator asked. `BatchSettles`: a running batch ends or comes to something only an operator decides |
| `evaluation` (289 532) | 2 commands started 3 times, 2 tasks, a paid model and a rehearsal of another in a second directory, 1 retry, `LiveSpec` | `TypeOK` (who holds which lock and finalizer). `PaidOnce`: no answer is bought twice. `FinalizedScored`: a finalizer cites complete scores, as they are in the cache. `EvaluationEnds`: no command waits for ever |
| `pipeline` (2 588 086) | a full task, continued on errors, and a single object, the batch command given twice with `--skip-ready`, 2 pipelines in all, every process may be killed | `PipelineTypeOK`. `ReadySound`: a ready manifest is of one run with all its outputs, but for a reconstruction that it says was out of time. `RecordSound`: a ready record has its evidence, and its manifest says the same. `PublishedKept`: published diagnostics are never lost |
| `local_attempt` (292 196) | 2 attempts, Windows and WSL, a cleaning command and gc beside | `TypeOK`. `OneUnity`: two Unity processes never have the project open. `ReleasedDead`: a lease is not given up over a living process. `SucceededAtRest`: what has succeeded has its directory, and nothing that may write to it |
| `store_schema` (4 163) | 3 commands, 2 leases, a file of any version from 0 to 4 | `SchemaSound`: the version promises nothing that is not there. `VersionRises`. `LeasesKept`: a migration killed anywhere loses no lease and brings none back |
| `stage_inputs` (76 472) | 1 task through 13 stages, 2 pictures, 1 file left out by a tool at a time (`OneLost`), 1 retry | `InputsTypeOK`. `RightInputs`: every plan takes the files it was meant to take. `ChainFits`: a stage is refused its inputs only for a named reason |

Why the bounds are enough. Every hazard of the queue needs an old attempt, a new one and
at most two commands between them, hence two attempts and two commands.
A second stage is needed for order, a second group for regeneration, a second candidate
for anything in which siblings disturb each other. Two commands cover every pairing of
recover, retry, terminal and cancel on one attempt; a third would repeat one of them.
`MaxTries`, `Tries` and `Groups` bound counters the operator can drive for ever; an action
that would exceed them is disabled, and `GroupEnds` names its bound in the formula.
In `MCImageQueue` two tries show a repeat, two processes every takeover of a bucket; a
maximum of 2 with a clean window of 1 lets the limit grow, be halved, and grow again.
`BatchRun` needs two tasks, because a finalizer depends on the evidence of others, and one
stage of each kind: picture, gate, remote, evidence, finalizer. `Evaluation` needs a second
command for the locks, a second start for a restart after a death. A pipeline
that fails over what another left needs two runs. Three processes in `StoreSchema` let two
migrate while one works; two retries in `StageInputs` repeat what one does.
`Commands` in `MCRemoteAttempt` is a symmetry over interchangeable commands, used only
for safety; so are `Interchangeable` in `MCImageQueue` and `Symmetry` in `MCStoreSchema`
and `MCStageInputs`.

`CHECK_DEADLOCK FALSE` is set everywhere because the systems really stop: a settled
stage, a canceled or finished batch, a command that has ended has no step left.

Fairness.
* `LeaseScheduler`: a command that has begun takes its next step (the
  process is not blocked by anybody; SQLite transactions are serialised by a lock with a
  timeout, not held by people), and `resume` is run again and again, strongly fair because
  other commands may be running: `worker run` starts with it, and so does the handling of
  every failed submission (`worker.py:134`, `:230`). Nothing is assumed of workers or
  processes.
* `ImageEdit`: workers go on leasing, every call of the API ends (it has a timeout),
  commands go on.
* `BatchRun`: run-all is started again when it has ended, and moves unless it waits for a
  stage of its wave; stages end (each has a timeout); what is due on a clock happens; the
  operator attends, again and again, to what waits for a review or in recovery; and scores asked
  for again and again are one day complete (strong, since a request fails as often as it likes).
* `Evaluation`: a command that can go on does. A lock is waited for, and its holder ends or
  dies, which frees it.
* The other modules state safety only.

### Disagreements between the code and its documentation

One is a listed run with the property it violates:

* `incomplete_batch`: a task rejected at the gate keeps its finalizer pending, so
  `_skip_incomplete_evaluation` never skips those of its peers, and the batch stays running with
  nothing left to run; `scheduler.py:2147` says that this is what the function prevents.

The others are kept as configurations, to be replayed with `tlc -config X.cfg M`. Each breaks a
property that a document, a comment or a reader expects; the instances of the
passing runs exclude what leads there.

| Configuration | Module | Violates | What happens | Said otherwise |
|---|---|---|---|---|
| `MCCancelResume` | `MCLeaseScheduler` | `CanceledNotQueued` | `recover_expired` revokes a lease in one transaction and writes `ready` in another; a cancel in between is undone | `docs/cli-reference.md:29` |
| `MCUnknown` | `MCImageEdit` | `UnknownStaysBlocked` | the commit of one candidate takes the stage out of the `waiting_manual` that another one's unclear delivery put it into | `scheduler.py:602` |
| `MCResumeStrands` | `MCImageEdit` | `QueuedIsServable` | `recover_expired` queues `image_edit` again and leaves its candidates `running`; nothing of the stage can be leased any more | `docs/cli-reference.md:26` |
| `MCProbeRace` | `MCRemoteAttempt` | `ResultNotDiscarded` | the probe tests for the result before the process; an adapter that ends in between is reported `EXITED` and its result is given up | `docs/cli-reference.md:133` |
| `MCLateStart` | `MCRemoteAttempt` | `GpuHeld` | `MISSING` means only that the start script has not come to its lock yet; a start that arrives later starts an attempt whose slot was given away | `docs/troubleshooting.md:43` |
| `MCReviewsFirst` | `MCBatchRun` | `ReviewsFirst` | reviews are looked at once per round, and a pass of the worker leases wave after wave | `cli.py:1237` |
| `MCWaveFenced` | `MCBatchRun` | `ResultsLand` | outcomes of a wave are submitted after its slowest stage; the lease of a stage that ended early has run out by then, and it is done again | `docs/cli-reference.md:115`, `:121` |
| `MCDeadFinalizer` | `MCBatchRun` | `FinalizerResumed` | run-all goes to the evaluation without a worker pass, and so without a resume: a finalizer leased by a command that died stays leased | `docs/cli-reference.md:156` |
| `MCBundleLost` | `MCBatchRun` | `BundleLeasable` | the failure that makes the debug bundle ready also ends the batch, and a batch that has ended leases nothing | `scheduler.py:2083` |
| `MCSecondBundle` | `MCBatchRun` | `PublishNotRefused` | a bundle is made ready without a new idempotency key; after a retry and a second failure its output directory exists already | `scheduler.py:1917` |
| `MCLimited` | `MCEvaluation` | `FinalizedScored` | a command with `--limit` writes its summary over that of a full one between writing and citing | the docstring of the gate, `cli.py:2042` |
| `MCTwoModels` | `MCEvaluation` | `OneSummary` | finalizers are committed one by one; after a death another model commits the rest | `cli.py:1254` |
| `MCPipelineGaps` | `MCPipeline` | `RejectedSound` | a pipeline that ends before it writes its manifest is recorded as rejected when an earlier run was: the status of the manifest goes before the exit code | `tools/run_insert_batch.py:528` |
| the same, with `EndIsShown` | `MCPipeline` | `EndIsShown` | `finish_stage` writes the end of an attempt into `attempts/manifest.json` (`tools/workspace.py:126` takes the parent of the attempt), so that `stages/<s>/manifest.json` goes on saying running | `tools/workspace.py:4` |
| the same, with `SkippedProven` | `MCPipeline` | `SkippedProven` | a ready manifest whose evidence was never written is skipped as done | |
| the same, with `ReadyInTime` | `MCPipeline` | `ReadyInTime` | a stage that is out of time gets the status timeout (`run_insert_pipeline.py:445`), which is not among the failed ones at the end (`:1973`): with `--continue-on-error` and an older `sample.ply` the manifest says ready | |
| the same, with `RecordsCurrent` | `MCPipeline` | `RecordsCurrent` | a record of an earlier batch says ready of a task that has been refused, begun or failed since | |
| the same, with `StaysInPlace` as PROPERTY | `MCPipeline` | `StaysInPlace` | a kill between the two renames of `publish_tree` leaves the diagnostics aside and nothing in place | `tools/workspace.py:193` |
| `MCInputGaps` (with `-continue`) | `MCStageInputs` | `CachesAllowed`, `UploadsRepeat`, `TargetAccepted` | the check of ring6/model counts caches and cut uploads the comment exempts; a picture is taken by position when the gate has none | `tools/stage_adapter.py:769`, `remote_worker.py:588`, `stage_wiring.py:406` |

One more configuration passes: `MCGroupEnds` (`MCImageEdit`, 7 070 states, `LiveSpec`) checks
`GroupEnds`, that a queued group ends in a review, a failure, a wait for the operator or a
cancel, as long as leases do not expire; with expiry it is false, which is `MCResumeStrands`.

Formulas without a configuration, to be put into one of the above.

| Formula | Put into | Constants to change | Verdict |
|---|---|---|---|
| `SingleAuthority`, `AuthorityInFlight`, `EndedStaysEnded` | `MCFencing` | | hold |
| `GpuGivenUp`, `RecoveringHeld`, `PredecessorsDone`, `CanceledNotQueued` | `MCRemote` | | hold |
| `GpuGivenUp` without its second line | `MCRemote` | `StoreFaults = TRUE` | violated: a database error in a heartbeat frees the slot under a running process |
| `GpuGivenUp` without its third line | `MCRemote` | `SPECIFICATION Spec`, `Ctl = {c1, c2}` | violated: two resumes have one submission in hand; the first fails it, a retry leases the stage again, and the second deletes the lease of the new attempt under its process (`scheduler.py:2055`) |
| `ExpiredIsSettled` | `MCRemote` | `CtlMayDie = TRUE` | violated: revoked leases are not selected again |
| `GateAccepted` | `MCGroup` | | holds; violated with `ServesGate = TRUE` |
| `PublishedImageKept`, `RetryGenerates`, `CanceledTaskRests` | `MCGroup` | | violated: two workers commit siblings at once; a retry queues a stage with no candidate to make; a decision on a pending review revives a canceled task |
| `GpuHeld`, `SettledOnce` | `MCAttempt` | | hold; `GpuHeld` is violated with `Orphans = TRUE`, with "leaked" in `Refusable`, and with `Operator = {c1, c2, c3}`: one command archives the directory a second is about to move away, which the third then reports as invalid, and a leaked result is taken for a failure |
| `RecoverableResult`, `EvidenceKept` | `MCAttempt` | | violated: a download that dies halfway leaves directories that `recover_result` refuses; one recovery archives what another has just downloaded |
| `BilledOnce` | `MCImageQueue` | `StoreFaults` or `CutAnswers = TRUE` | violated: an answer cut off in its body raises `IncompleteRead`, no `OSError`, and passes `apiyi.py:117` (`docs/apiyi-image-api.md:15`); a database error in a heartbeat does the same |
| `SlotsReturned`, `UpstreamWithinQuota`, `NoCrashNoLoss`, `FixedAtOne` | `MCImageQueue` | for `FixedAtOne`: `Image = {i1, i2, i3}` | violated: a heartbeat outside the try block leaks the slot; a timeout gives the slot back while the API works on; a second worker uses the tries of an image up; the row keeps the limits of the first manifest |
| `PaidOnce` | `MCEvaluation` | `SPECIFICATION Spec`, `Invocation <- Simple`, `StoreFaults = TRUE` | violated: a paid answer whose file cannot be written is taken for a failed call and bought again (`docs/evaluation.md:111`) |
| `ScoredTogether` | `MCSecondBundle` | `Remote = {3}`, `Slots = 2`, `MaxTries <- Patient`, `Outcome <- BundleToo` | violated: after a retry of the whole batch a task runs on from its bundle while the stage before it runs again; that one fails when the scores are made, and a second retry takes back evidence they rest on (`scheduler.py:1005`) |
| `RealScores` | `MCEvaluation` | `Invocation <- Rehearsed` | violated: fixed scores lie under the keys of the paid ones (`docs/evaluation.md:57`) |
| `ReadyLeasable` | `MCLocalAttempt` | `LeaseDies = TRUE` | violated: the directory made by a lease that was rolled back blocks every later lease |
| `ReleasedEmpty` | `MCLocalAttempt` | | violated: children of a root that is gone are not waited for |
| `LeasesKept` | `MCStoreSchema` | `QuietUpgrade = FALSE` | violated: a lease taken between the copy and the drop of the old table is lost |
| `OpensTogether` | `MCStoreSchema` | `Versions <- New` | violated: two commands read version 0 and both migrate; the second fails at the first CREATE TABLE (`store.py:30`) |
| `OneUnity` | `MCLocalAttempt` | `SlowStart = TRUE` | violated: a lease that ends before the process it started is recorded lets the next attempt start beside it |
| `ReleasedDead` | `MCLocalAttempt` | `Platforms <- Wsl`, `StoreFaults <- Wsl` | violated: a database error in a heartbeat becomes a worker_crash reported as clean, over a wrapper that lives (`worker.py:317`) |
| `GcSparesHeld` | `MCLocalAttempt` | | violated: gc asks for the active attempts and then for the directories; a lease taken in between is not in the first answer |
| `RecordSound` without `Listed` | `MCPipeline` | `Tasks` the sequence of one task twice, `SkipReady = FALSE` | violated: the second pipeline opens the manifest that the record of the first speaks of; `load_job_file` looks at no task twice |

So the passing runs assume, by the constants of their instances: no database error inside a heartbeat
(`StoreFaults`, for `local_attempt` under WSL only) nor in the writing of a response; for `remote` one
command at a time, which does not die; for `attempt` that a start command does not outlive its ssh client
(`LateStart`), that the stage process dies with its adapter (`Orphans`), that a probe is not overtaken
(`SlowProbe`), and that the results of leaking attempts are not refused (`Refusable`); for `image_queue` no
answer that ends in its body (`CutAnswers`); for `evaluation` that commands in one directory are called
alike; for `local_attempt` that a start takes no longer than a lease (`SlowStart`); for `store_schema` that
nobody writes while another migrates (`QuietUpgrade`). What remains true without these assumptions is proved
where it could be stated (section 4: `GpuGivenUpRarely`, `SeenResultKept`, `GpuGivenUpQuietly`,
`BilledRepeatsAsCrash`, `NoScoreBefore`, `CommittedScores`). `SingleAuthority` holds for one
stage; with routing (`_route_debug_bundle`), retry of an earlier stage and two slots it does not: retry
resets later stages that are being worked on.

## 4. What is proved

`LeaseSchedulerProofs` proves, for every batch, chain of stages, resources, capacities,
budgets, bound on retries and any set of commands, dying or not:

| Theorem | Statement |
|---|---|
| `TypeCorrect` | `Spec => []TypeOK` |
| `QueueCorrect` | `Spec => []QueueInv`, the inductive invariant |
| `JournalAgrees` | `Spec => []SucceededIffCommitted` |
| `PublishedForGood` | `Spec => CommitIsFinal` |
| `SuccessIsBacked` | `Spec => []SuccessBacked` |
| `CapacityRespected` | `Spec => []ResourceExclusion` |
| `FenceCorrect` | `Spec => []FenceInv`, the inductive invariant of fencing |
| `LockedFenced` | `Spec => LockedPublication!Spec` |
| `GpuGivenUpRarely` | `Spec => GpuGivenUp` |

The assumptions are `DagAssumption` and `SchedulerAssumption`: finitely many tasks,
positions within the chain, a budget between one and the bound, functions of the right
shape. TLC evaluates both on every run.

The argument. `SucceededIffCommitted` is not inductive. An attempt could be finalized twice, or
be failed after it was committed, unless nobody can act on a committed attempt any more; that
is `Closed` (a committed attempt has no lease row), and every action that writes an
attempt's status either requires a lease row, or looks at the journal first. Nor may an old
row reappear under a new attempt: `lease_next` numbers an attempt COUNT(\*) + 1, which is a
fresh number only if numbers have no gaps (`Numbered`) and if nothing (lease, journal row,
worker, or a command's selection) exists for an attempt without a row (`Unmade`).
`QueueInv` is the conjunction of these with `TypeOK`. `StepKeeps` shows once, with one step
per action, what every action other than `lease_next` keeps (`Kept`: no lease row appears, no attempt
appears or vanishes, publication stays, only a publication makes a stage succeed);
`LeaseNextKeeps` treats the remaining action. The theorems follow from these two. `CapacityRespected`
needs only that rows appear in `lease_next` alone, one at a time and under `Free`
(`OneMore`); counting revoked rows is what makes it true.

Fencing. A stage is `Locked` if it allocates a resource of capacity 1: the Unity stages, which take
`project_lock` (`dag.py:18`), and the GPU stages of a pool of one GPU. `LockedPublication` is
`FencedPublication` of these stages alone, and `LockedFenced` says that they implement it
in every batch, whatever the stages without a lock do. `FenceInv` has two parts: `RowInv` (a locked
stage has one lease row, revoked ones included, so that a new lease means no other attempt of it
has authority) and `BusyInv` (an attempt a recovery or cancel has read keeps its lease revoked
until that command is done with it; no second recovery has it, and nothing can reactivate it). The
resources `ssh_io`, `remote_cpu`, `remote_io` and `evaluation_api` have capacities above 1
(`scheduler.py:2211`), and a stage that takes only such is not locked. The run `fencing` shows
`FencedSpec` for one such stage with two slots, which no theorem covers; with more
stages it is false (section 3, `SingleAuthority`).

The GPU. As long as the process of a remote attempt may run its lease row keeps others from the GPU, and
`GpuGivenUp` names the only two steps that take the row away: the report of a database error in a heartbeat
as a crash, and `_fail_artifact_commit` of *another* attempt of the stage, which deletes leases by stage
(`scheduler.py:2055`). Both do happen (section 3). The theorem has no premise: any number of commands may
run beside each other and die. Nothing else can take the row: expiry and recovery revoke the leases of remote
stages and keep them, a cancel leaves remote stages alone, and what is finalized or aborted has been
submitted, so that its process has ended. The last is `SubmitInv`; `HandsInv` says that what a command
has in hand since an earlier transaction still is what it selected: submissions when it reconciles, local
attempts when it cancels.

`ImageQueueProofs` proves, for every set of processes, finite set of images, number of tries,
set of settings and clean window:

| Theorem | Statement |
|---|---|
| `TypeCorrect` | `Spec => []TypeOK`: among the types, a limit between 1 and its maximum |
| `OneControllerHolds` | `Spec => []OneController` |
| `WithinQuotaHolds` | `Spec => []WithinQuota` |
| `BilledRepeatsAsCrash` | `Spec => RepeatedAsCrash` |

Its assumption is `QueueAssumption`. The argument: `OneController` follows from `OwnerOpen` (an open queue
is the owner's), since `Dies` closes the queue it frees. `WithinQuota` follows from `GateCounts`: the
gate counts at least the calls that hold a slot, and never more than the maximum; a leaked
slot only makes it count more. That needs `Opened` (whoever waits has a row), and
`AdaptedStays` for what `release` does to the row. `BilledOnce` is false when transactions may fail or
answers may be cut (see the table above). What is proved for these cases, too, is by which way a
request that may be billed leads to another one for the same image: only by the report of the call that has
its lease, as a crash of its worker, after such a fault (`RepeatedAsCrash`); a refusal, a lost connection, a
lost lease or a dead process never does. That needs `Sole`: of an image at most one call is under way, none
while the image is in the queue, and a call that still has its lease and may be billed ends in an
outcome that is not retried, or in that crash (`NotRepeated`).

`ServerProofs` proves of `RemoteAttempt`, for every number of attempts and every set of recovery
commands:

| Theorem | Statement |
|---|---|
| `TypeCorrect` | `Spec => []TypeOK` |
| `AttemptSettledOnce` | `Spec => SettledOnce` |
| `SeenResultKept` | `Spec => ResultSeenKept` |
| `GpuGivenUpQuietly` | `Spec => QuietRelease` |

None has a premise: starts may be late, probes slow, adapters die without their children, any results be
refused, and any number of commands run. `ResultNotDiscarded` and `SlotSpec`, which the run checks, are false
then (section 3). The theorems say what can break them, and that nothing else can. `ResultSeenKept`: a
finished result is given up only by the decision of a command whose probe began before the result was there.
`QuietRelease`: the slot is given up under something that runs, or is about to be launched, only by such a
decision on a probe, or with a tree put aside as invalid; never by a report of how the stage ended, be it the
wrapper's or one recovered later, nor by a report that nothing was started. The argument goes in layers.
`Owner`: the wrapper works on the newest attempt, under its lease, and no command beside it. `ServerInv`:
nothing of an attempt has run before its script launched the adapter, and a result is there only when the
adapter is gone. `DecidesInv`: who settles has seen no result when it began. `StagedInv` and `HandInv` follow
the manifest through staging to the hands of wrapper and command: one that says how the stage ended is the one
the server wrote. `EndedInv`: a result that does not admit to a leak was written when nothing of the attempt
ran any more.

The second half of `ServerProofs` is about `Pipeline`: for every job file, all options of its tasks,
and any number of batches and runs, killed between any two of their writes:

| Theorem | Statement |
|---|---|
| `AlwaysSound` | `PipelineSpec => []Sound`, the inductive invariant |
| `PipelineTypesHold` | `PipelineSpec => []PipelineTypeOK` |
| `ReadyIsOneRun` | `PipelineSpec => []ReadySound` |
| `ReadyRecords` | `PipelineSpec => []RecordSound` |
| `PublishedStays` | `PipelineSpec => PublishedKept` |

The assumption is that of the module: a non-empty list of tasks with options (`load_job_file`, `main`). A
workspace is shared with every earlier run, so nothing that lies in it tells by itself whose it
is. `Owned` says that while stages run the manifest is that of the run at hand and open; `Progress`, that as
long as it counts no failure and no rejection every stage behind has succeeded in this run (its outputs,
its attempt and, for `sags`, what is published) or is a reconstruction that was out of time, which the
manifest lists (`Heard`). A manifest comes to say ready only where the plan
is at its end, so `Progress` is `ReadySound` there, and elsewhere a ready manifest is of a task that
no pipeline is working on. That the record of an attempt still is the one its stage has left needs
that no plan names a stage twice (`PlanStretch`), on every route and for every provider. `Numbered`
keeps run numbers apart. For `RecordSound`, `Closing` says that an exit code of 0 speaks for the manifest of this
run and for its evidence, and `Recorded` that the records of the batch at hand are of tasks behind it: tasks
still to come have none, or that of an earlier batch, of which `RecordSound` promises the evidence alone.
Nothing refuses a job file that lists a task twice; then the second of its pipelines
opens the manifest the first record speaks of, and `RecordSound` speaks of the manifest only where the task
is listed once. For `PublishedKept`, a tree that is moved aside is among the `backup`s until another
is in its place.

`ImageEditProofs` proves, for every number of workers, slots, attempts and groups and both edit
policies, with expiry, deaths and commands:

| Theorem | Statement |
|---|---|
| `OneAttemptPerCandidate` | `Spec => []CandidateExclusive` |
| `ReviewsAreSound` | `Spec => []ReviewSound` |
| `ImagesStay` | `Spec => ImagesKept` |
| `GateOpensOnAcceptance` | `~ServesGate` implies `Spec => []GateAccepted` |

The invariant of the first three is `Typed /\ MadeInv /\ LeaseInv /\ ReviewInv`. `CandidateExclusive` needs
that a lease row is of a running candidate of the current group (`LeaseInv`), which a sibling's commit, a
failure and `recover_expired` each have to keep; `ReviewSound` needs that a group with a review has no
candidate left to make (`ReviewInv`), whichever of its candidates was settled last. `GateAccepted` reads the
review of the newest attempt that has one, and a refresh in any later transaction may act on it. `GroupInv`
makes this the review of the current group: attempts come in the order of their groups, and a group is
reviewed once. `GateInv` says that image_edit has only succeeded with such a review, that one which accepts
has images to take the accepted one from, and that under the manual policy the gate is open already when a
refresh sees an acceptance, so that only an automatic policy chooses the image there. The fake worker
(`--fake`) leases every ready stage, and with it a gate that a retry has made ready; hence the premise.

The first half of `StageProofs` is about `LocalAttempt`. It proves, for every number of attempts, under Windows and WSL:

| Theorem | Statement |
|---|---|
| `TypeCorrect` | `Spec => []TypeOK` |
| `LeaseReleasedDead` | `StoreFaults \subseteq {"windows"}` implies `Spec => ReleasedDead` |
| `OneUnityOpen` | the same and `~SlowStart` imply `Spec => []OneUnity` |
| `SucceedsAtRest` | `Spec => []SucceededAtRest` |

Without the premises the second and the third are false (section 3). `LeaseInv` ties
the row of the lease to the newest attempt and to what a cleaning command has read of it. `ProcessInv`
says what worker and cleaning command know when they are about to give the lease up: the process recorded in it is
gone. `StartInv` says that only the newest attempt can be starting Unity, and that none
starts while another has the project open. `SucceedsAtRest` has no premise, and gc may delete what is
leased meanwhile: `RestInv` says that under Windows what was started is in its job before the worker waits for
it, so that it is gone when the worker reads the result, and that a directory deleted before its
attempt was submitted is not published, so that the attempt does not succeed.

The second half of `StageProofs` is about `StageInputs`: for every set of pictures, any number of retries
and whatever `LostOf` lets a tool leave out, with no further premise:

| Theorem | Statement |
|---|---|
| `InputsTyped` | `InputsSpec => []InputsTypeOK` |
| `InputsRight` | `InputsSpec => []RightInputs` |
| `InputsFit` | `InputsSpec => []ChainFits` |

The run lets a tool leave out one file, the theorems any set of them, so that a result with several holes
is covered too. The lemmas `SceneName` to `InputName` say, for each name a plan asks for, which file can have it,
and so what a plan takes is a matter of which files are committed: `Named` finds the one file of that
stage, directory, view and kind, or nothing. `FilesInv` keeps the files of a stage its own, of the kinds
it writes. `HandedInv` is what the stages behind the task have left: the candidates and the accepted picture, the
reconstruction, all that the render owes the next stages, the masks, the matches, the pose, the object.
It must say so in terms of what is committed, because a promise depends on files: masks of the
views are promised only if Unity exported all three pictures, matches only of the pairs there are. The rest is
about stages at work: `PoseInv`, what a running pose estimation has found, and `WorkInv`, that the files before
the next one of the workspace are there and only a manifest is ever torn. `ChainFits` is itself a part
of `InputsInv`, since `why` outlasts the refusal and the excuse must do so too: it does because a stage that
failed commits nothing, what lies astray stays, and a torn manifest is never repaired.

`EvaluationProofs` proves, for every set of commands, tasks, directories and models, any number
of retries and restarts:

| Theorem | Statement |
|---|---|
| `TypeCorrect` | `Spec => []TypeOK` |
| `NeverPaidTwice` | `~StoreFaults` implies `Spec => []PaidOnce` |
| `CommittedScores` | `Spec => []RowsStored` |

`CommittedScores` is about all commands, also about those that write into one directory with other models,
settings or limits. `FinalizedScored`, that what a finalizer cites is complete, is false then
(`MCLimited`); what remains is `RowsStored`: every committed finalizer has all responses of its own task, and
its row and what it cites hold nothing but responses of the cache under the settings they name, so that no
failure passes for a score, and no score for one of another model.
`LockInv`: the holder of a lock is at that request, and the cache had no answer when it took
the lock. `PaidInv` counts: an answer was bought once if it is in the cache or in the hands
of the holder who is about to store it, and not at all otherwise. `ScoreInv` follows the scores
from the cache over the summary and the task files, through the hands of commands, to the finalizer that
cites them; it lasts because an answer in the cache is never replaced (`CacheGrows`).

`StoreSchemaProofs` proves, for every set of commands and leases and any set of versions the
database may have at first:

| Theorem | Statement |
|---|---|
| `AlwaysSchemaSound` | `Spec => []SchemaSound` |
| `VersionNeverFalls` | `Spec => VersionRises` |
| `NoLeaseLost` | `QuietUpgrade` implies `Spec => []LeasesKept` |

The first lemmas say what the four scripts consist of. `ScriptInv`: a process past the first
statement of one of the first three scripts runs it alone, at the version the script starts from. That
is so because the first statement creates an object that is there for good, so that a second process
fails at it; at the last statement everything the new version promises has
been made. The fourth script ends in a rename and can be begun again; there `ExchangeInv` says that
one process at a time exchanges the table of leases, and that the copy is empty or complete.

`BatchRunProofs` proves, for every set of tasks, every chain of stages with its bundle, any numbers of attempts,
lease rows and parallel stages, and any deaths, reviews and commands in between:

| Theorem | Statement |
|---|---|
| `RunSound` | `Spec => []RunInv`, the inductive invariant |
| `TypeCorrect` | `Spec => []TypeOK` |
| `OutputsKept` | `Spec => []OutputKept` |
| `SuccessNotRepeated` | `Spec => NeverRepeated` |
| `NoScoreBefore` | `Spec => []ScoredOnce` |

Its assumption, `BatchRunAssumption`, is the shape of `dag.py:18`: the gate comes after a picture and before
`unity_eval6`, the finalizer is last, the evidence stages lie between gate and bundle, the worker
serves neither gate nor finalizer; numbers of attempts are positive.

None of the properties is inductive. That the files of an attempt which succeeded stay where they are
(`DirInv`) needs that an attempt is published before it is committed, by whoever does either:
`WaveInv` says so of the command between the two, and that the attempts it holds were made; `Clash`
says so of resume and recover-remote. A stage can only succeed out of a worker's hands, so
`HeldInv` says what has a lease and that the gate never has one. `NeverRepeated` needs `ChainInv`:
what has been reached has succeeded stages before it, all of them, or those up to the gate when a failure
has made the bundle ready; so a `retry`, which selects stages that ended badly, takes a success back only
behind one of them, and a regeneration, by `ReviewInv`, only the picture of a gate nobody has passed. Each step of
the command, the clock and the operator is a lemma, and most of them end in the same one
(`KeepsStep`): attempts and directories are only added, no finalizer is closed, what has
succeeded stays.

`NoScoreBefore` adds `ScoreInv`: a finalizer is reached only over published evidence of its own task, and once
scores are asked for, or a finalizer is out or closed, evidence of every task has been published. Directories
stay, so this outlasts every reset, and the theorem needs no premise on the chain or the commands. The
run's `ScoredTogether` says more, that the evidence still is the current one, and is false with a bundle
in the chain: when a failed stage and the bundle after it have both failed, a
retry of the whole batch leaves both ready (`scheduler.py:992` updates row after row), the bundle succeeds, the
chain goes on over it to the scores while the stage before it still runs, and when that one fails a second
retry resets evidence that scores were made of (section 3). The chain of the run has no bundle.

Only model-checked: `FencedSpec` where a stage has no lock, and the further formulas of
`LeaseScheduler` in section 3; `ResultNotDiscarded`, `SlotSpec`, `BilledOnce`, `FinalizedScored` and
`ScoredTogether`, which hold under the constants of their runs and are false without;
and all liveness (`BatchSettles`, `EvaluationEnds`): TLAPS has no proofs about
ENABLED and fairness here. Induction over what a recursive definition computes is out of reach too; where a
least element is enough (`ForemostRow`) it comes from the well-foundedness of the numbers.


## 5. Not modelled, and why

Left out of the modules above:

* `BatchRun`: a call of resume, retry or cancel is one step (`LeaseScheduler` takes them apart); a task has
  one candidate picture; of the resources only the remote slots; the batch check and the resume of a pass are
  one step; a retry that would reset a leased debug bundle, or a leased stage behind it, is left out
  (`BundleLeased`; in the chain of the run there is none, and behind a stage that ended badly nothing else has
  a lease; `LeaseScheduler` has that retry, see `SingleAuthority`); the order of leasing is open, and so is
  the order in which a retry of several stages of one task resets them (the query has none,
  `scheduler.py:992`); a lease outlasts the steps of one submission; `max_steps` is ignored.
* `Evaluation`: the lock of a request waits about ten seconds on Windows and then fails, here it
  waits; `--limit` takes any requests, the code takes the first; leases of finalizers do not
  expire; changed evidence only stops later commands.
* `Pipeline`: one batch at a time per run root; copies inside a stage are part of it;
  stages end.
* `LocalAttempt`: Unity needs PowerShell, so no plain Linux; that killing the wrapper closes
  its job handle is taken from `processes.py:45`; no reboot, no restart of WSL, no retry by an
  operator; the two phases of a commit are one step; one cleaning command at a time.
* `StoreSchema`: the refusal of a version newer than the program.
* `StageInputs`: failures and rejections of the edit are `ImageEdit`'s, those of the transfer
  `RemoteAttempt`'s, the debug bundle after a failure `BatchRun`'s, the evaluation stages
  `Evaluation`'s; depths of the ring views and `stageOptions` set by the user.
* `ImageEdit`, `RemoteAttempt`, `ImageQueue`: see section 2.

Known disagreements of the queue that no model reaches: `decide_edit` does not look at
the task and may race a cancel (`scheduler.py:868`); an attempt fenced under another code than
`delivery_unknown` is refused by every recovery command (`remote_recovery.py:268`);
`terminate_group` never prints CLEANED (`remote_worker.py:540`); the slot of the gate leaks
when a heartbeat raises (`local_workers.py:297`, as `SlotsReturned`).

Not modelled at all:

* Contracts and credentials: they accept or refuse; a refusal appears as an outcome of a stage.
* Model center, runtime synchronisation, debug bundle contents, release checks: sequential
  programs over files without a protocol with others.
* The Unity commands, geometry, rendering, matching, segmentation: numerical programs.
* The clock: a lease may run out at any moment, which covers every clock.

## 6. Plan

Done, in this order: `StageDag`, `LeaseScheduler` with `FencedPublication`,
`LeaseSchedulerProofs`, `ImageEdit`, `RemoteAttempt` with `OccupiedSlot`, `ImageQueue`
with `ImageQueueProofs`, `BatchRun`, `Evaluation`, `LocalAttempt`, `StoreSchema`, `StageInputs`,
`Pipeline`; then the proofs about `RemoteAttempt`, `ImageEdit`, `LocalAttempt`, `Evaluation`,
`StoreSchema`, the fencing of `LeaseScheduler`, `BatchRun`, `Pipeline` and `StageInputs`.

Next are more proofs, most important first:

1. `LeaseScheduler`: fencing of a first stage without a lock, which nothing before it can reset.
