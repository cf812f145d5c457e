------------------------------ MODULE BatchRun ------------------------------
(***************************************************************************)
(* One batch from its first "run-all" to its scores: the loop of _run_all  *)
(* (insertany3d/cli.py) over reviews, worker passes and the evaluation,    *)
(* and BatchWorker.run (insertany3d/worker.py), which leases a wave of     *)
(* stages, runs them side by side and submits their outcomes only when the *)
(* slowest has ended.  The command may die anywhere and is started again;  *)
(* the operator's commands come in between.                                *)
(*                                                                         *)
(* LeaseScheduler and ImageEdit take the scheduler's transactions apart.   *)
(* Here a call of resume, retry or cancel is one step on the database db,  *)
(* a task has one candidate picture, and what is added is what those       *)
(* modules leave out: the wave, the loop around it, the evaluation gate    *)
(* with its finalizers, and the output directories named by the            *)
(* idempotency key.                                                        *)
(***************************************************************************)
EXTENDS StageDag, Sequences

CONSTANTS
  Remote,       \* positions of the REMOTE_PROCESS_STAGES
  Slots,        \* how many lease rows of remote stages there may be
  Served,       \* positions the executor supports (supported_stages)
  Budget,       \* Budget[s]: max_attempts of StageSpec s
  MaxTries,     \* bound: MaxTries[i] attempts are ever made of i
  MaxParallel,  \* --max-parallel: stages in one wave
  Outcome,      \* Outcome[s]: what executing stage s may come to
  Ops,          \* commands given beside run-all: "resume", "cancel", "retry"
  MaxCrashes,   \* bound: deaths of the command
  SameBytes     \* do all attempts of a stage write the same bytes?

Eval6 == Evaluate - 1       \* position of unity_eval6

Outcomes == {"ok", "retry", "later", "terminal", "rejected", "unknown", "unclean"}

ASSUME BatchRunAssumption ==
  /\ 1 < Gate /\ Gate < Evaluate - 1 /\ Evaluate = Last
  /\ Remote \subseteq Stage /\ Served \subseteq Stage
  /\ Gate \notin Served /\ Gate \notin Remote /\ Gate - 1 \notin Remote
  /\ Evaluate \notin Served          \* "a controller finalizer, not a worker stage"
  /\ Debug = 0 \/ (Debug \in (Gate + 1)..Eval6 /\ Evidence \subseteq (Gate + 1)..(Debug - 1))
  /\ {Slots, MaxCrashes} \subseteq Nat
  /\ MaxParallel \in Nat \ {0}
  /\ MaxTries \in [Item -> Nat \ {0}] /\ Budget \in [Stage -> Nat \ {0}]
  /\ \A i \in Item : Budget[i[2]] <= MaxTries[i]
  /\ Outcome \in [Stage -> SUBSET Outcomes]
  /\ SameBytes \in BOOLEAN
  /\ Ops \subseteq {"resume", "cancel", "retry"}

VARIABLES
  db,           \* the database and the output directories
  pc,           \* where the run-all command is, "off" when none runs
  wave,         \* the leased stages of the pass, in the order of submission
  todo,         \* what the command read before its loop: tasks or finalizers
  crashes

vars == <<db, pc, wave, todo, crashes>>

-----------------------------------------------------------------------------
(* The database.                                                           *)

Picture(t) == <<t, Gate - 1>>
IsPicture(i) == i[2] = Gate - 1

\* dirs holds <<stage, key, attempt>> for each output directory: where it is
\* and whose files it contains.
Moved(d, i, n)   == \E x \in d.dirs : x[1] = i /\ x[3] = n
DirExists(d, i, key) == \E x \in d.dirs : x[1] = i /\ x[2] = key
Unrevoked(d, i)  == d.held[i] \in {"live", "expired"}
\* A row of artifact_commits that resume still looks at: a lease not revoked.
Journaled(d, i)  == d.stage[i] = "committing" /\ Unrevoked(d, i)

\* _refresh_idempotency_key: what the pending stage i is computed from.
Bytes(d, i)  == IF SameBytes /\ d.made[i] > 0 THEN 1 ELSE d.made[i]
Digest(d, st, i) ==
  [choice |-> IF i[2] < Gate THEN d.from[i[1]] ELSE d.accepted[i[1]],
   bytes  |-> [s \in 1..(i[2] - 1) |-> Bytes(d, <<i[1], s>>)],
   done   |-> {s \in 1..(i[2] - 1) : st[<<i[1], s>>] = "succeeded"}]

\* _refresh_ready
Refresh(d) ==
  LET st == Refreshed(d.stage, d.review)
  IN  [d EXCEPT !.stage = st,
                !.key   = [i \in Item |-> IF st[i] # d.stage[i] /\ st[i] \in {"ready", "succeeded"}
                                          THEN Digest(d, st, i) ELSE d.key[i]]]

\* _update_aggregate_status
Aggregate(d) ==
  LET st == EvaluationSkipped(d.stage)
  IN  [d EXCEPT !.stage = st, !.batch = BatchStatus(st)]

\* _finalize_artifact_commit of attempt n for each stage in I.
Committed(d, I) ==
  LET ends == [i \in Item |-> IF i \in I THEN "succeeded" ELSE d.stage[i]]
      now  == [d EXCEPT !.stage  = ends,
                        !.made   = [i \in Item |-> IF i \in I THEN d.tries[i] ELSE d.made[i]],
                        !.held   = [i \in Item |-> IF i \in I THEN "none" ELSE d.held[i]],
                        !.cand   = [t \in Task |-> IF Picture(t) \in I THEN "done" ELSE d.cand[t]],
                        !.review = [t \in Task |-> IF Picture(t) \in I THEN "pending" ELSE d.review[t]]]
  IN  Refresh(now)

\* reconcile_artifact_commits: each open journal is published and committed, or
\* given up (_fail_artifact_commit, which routes nothing) when both its staging
\* directory and its output directory exist.
Clash(d, i) == ~Moved(d, i, d.tries[i]) /\ DirExists(d, i, d.out[i])

\* Mutant of Reconciled: the journal is closed and the files stay where they are.
ReconciledUnmoved(d) ==
  LET open == {i \in Item : Journaled(d, i)}
  IN  IF open = {} THEN d ELSE Aggregate(Committed(d, open))

Reconciled(d) ==
  LET open == {i \in Item : Journaled(d, i)}
      lost == {i \in open : Clash(d, i)}
      kept == open \ lost
      now  == [d EXCEPT
                 !.stage = [i \in Item |-> IF i \in lost THEN "failed_terminal" ELSE d.stage[i]],
                 !.held  = [i \in Item |-> IF i \in lost THEN "none" ELSE d.held[i]],
                 !.dirs  = @ \cup {<<i, d.out[i], d.tries[i]>> :
                                     i \in {j \in kept : ~Moved(d, j, d.tries[j])}}]
  IN  IF kept = {} THEN now ELSE Aggregate(Committed(now, kept))

\* recover_expired: a remote attempt waits for its recovery, another is given back.
Expired(d) == {i \in Item : d.held[i] = "expired"}
Settled(d, out, held) ==
  LET next(i) == IF i[2] \in Remote THEN "recovering"
                 ELSE IF d.tries[i] < d.budget[i] THEN "ready" ELSE "failed_terminal"
  IN  Aggregate([d EXCEPT
        !.stage = [i \in Item |-> IF i \in out THEN next(i) ELSE d.stage[i]],
        !.held  = [i \in Item |-> IF i \notin held THEN d.held[i]
                                  ELSE IF i[2] \in Remote THEN "revoked" ELSE "none"]])

\* Mutant of Recovered: the lease goes, the stage is forgotten.
RecoveredLeaseOnly(d) == Settled(d, {}, Expired(d))
\* Mutant of Recovered: only remote attempts are looked at.
RecoveredRemoteOnly(d) ==
  LET out == {i \in Expired(d) : i[2] \in Remote} IN Settled(d, out, out)
Recovered(d) == Settled(d, Expired(d), Expired(d))

Resumed(d) == Aggregate(Refresh(Recovered(Reconciled(d))))

-----------------------------------------------------------------------------
(* lease_next and the reports of a worker, as functions of the database.   *)

SlotFree(d, i) ==
  i[2] \in Remote => Cardinality({j \in Item : j[2] \in Remote /\ d.held[j] # "none"}) < Slots

\* A row lease_next looks at, after its own _refresh_ready.
Leasable(d, i) ==
  /\ d.batch = "running"
  /\ d.stage[i] = "ready" /\ i \notin d.later
  /\ SlotFree(d, i)
  /\ IsPicture(i) => d.cand[i[1]] # "running"

\* Attempts count against max_attempts; those of a picture only from its last
\* regeneration on.
TriesLeft(d, i) == d.tries[i] - (IF IsPicture(i) THEN d.from[i[1]] ELSE 0) < d.budget[i]
Exhausted(d, i) == ~TriesLeft(d, i) \/ (IsPicture(i) /\ d.cand[i[1]] = "spent")

Leased(d, i) ==
  [d EXCEPT !.stage[i] = IF IsPicture(i) THEN "running" ELSE "leased",
            !.tries[i] = @ + 1,
            !.held[i]  = "live",
            !.out[i]   = d.key[i],
            !.cand     = [t \in Task |-> IF Picture(t) = i THEN "running" ELSE @[t]]]

\* fail() of an executed stage.  Attempts are compared as in TriesLeft, the one
\* under way included.
NextState(d, i, outcome) ==
  CASE outcome = "unknown" -> IF i[2] \in Remote THEN "recovering" ELSE "waiting_manual"
    [] outcome = "unclean" -> "recovering_other"
    [] outcome = "rejected" -> "rejected"
    [] outcome \in {"retry", "later"} /\ TriesLeft(d, i) -> "ready"
    [] OTHER -> "failed_terminal"

Failed(d, i, outcome) ==
  LET s == NextState(d, i, outcome)
  IN  Aggregate([d EXCEPT
        !.stage   = Ended(d.stage, i, s),
        !.held[i] = IF s \in {"recovering", "recovering_other"} THEN "revoked" ELSE "none",
        !.later   = IF s = "ready" /\ outcome = "later" THEN @ \cup {i} ELSE @ \ {i},
        !.cand    = [t \in Task |-> IF Picture(t) # i THEN @[t]
                                    ELSE IF s = "ready" THEN "open" ELSE "spent"]])

\* _require_lease of attempt n of stage i.
HasLease(d, i, n) == d.held[i] = "live" /\ d.tries[i] = n

-----------------------------------------------------------------------------
(* The state.                                                              *)

NoDigest == [choice |-> 0, bytes |-> <<>>, done |-> {}]

\* What the database holds after "batch plan"; the first stage is ready.
Planned ==
  [batch    |-> "planned",
   stage    |-> [i \in Item |-> IF i[2] = 1 THEN "ready" ELSE "pending"],
   review   |-> [t \in Task |-> "none"],
   cand     |-> [t \in Task |-> "open"],
   from     |-> [t \in Task |-> 0],       \* regeneratedFromAttempt
   accepted |-> [t \in Task |-> 0],       \* acceptedGenerationPath, as its attempt
   tries    |-> [i \in Item |-> 0],
   budget   |-> [i \in Item |-> Budget[i[2]]],
   made     |-> [i \in Item |-> 0],       \* the last attempt that succeeded
   key      |-> [i \in Item |-> NoDigest],
   out      |-> [i \in Item |-> NoDigest],  \* output_dir of the last attempt
   held     |-> [i \in Item |-> "none"],
   later    |-> {},                       \* stages whose not_before is ahead
   dirs     |-> {}]

Init ==
  /\ db = Planned
  /\ pc = "off" /\ wave = <<>> /\ todo = {} /\ crashes = 0

PcState == {"off", "top", "deciding", "lease", "exec", "submit", "publish", "finalize",
            "return", "score", "scoring", "finalizers"}
\* by: which of the two commits, the worker or the evaluation.
Entry   == [item : Item, n : Nat \ {0}, res : {"running"} \cup Outcomes, by : {"worker", "evaluate"}]
Key     == [choice : Nat, bytes : Seq(Nat), done : SUBSET Stage]

\* Types, and how the parts of the database hang together: a stage in a worker's
\* hands has a lease, a stage that succeeded has an attempt that did, and the
\* directory of an attempt is its own.
TypeOK ==
  /\ db.batch \in {"planned", "running", "succeeded", "failed", "canceled"}
  /\ db.stage \in [Item -> StageState]
  /\ db.review \in [Task -> Decision]
  /\ db.cand \in [Task -> {"open", "running", "done", "spent"}]
  /\ {db.from[t] : t \in Task} \cup {db.accepted[t] : t \in Task} \subseteq Nat
  /\ \A i \in Item : db.tries[i] \in 0..MaxTries[i] /\ db.made[i] \in 0..db.tries[i]
  /\ \A i \in Item : db.key[i] \in Key /\ db.out[i] \in Key
  /\ db.held \in [Item -> {"none", "live", "expired", "revoked"}]
  /\ \A i \in Item : db.stage[i] \in {"leased", "committing"} => Unrevoked(db, i)
  /\ db.later \subseteq Item
  /\ pc \in PcState
  /\ wave \in Seq(Entry) /\ Len(wave) <= MaxParallel
  /\ todo \subseteq Item /\ crashes \in 0..MaxCrashes

-----------------------------------------------------------------------------
(* The run-all command between worker passes.                              *)

PendingReviews == {t \in Task : db.review[t] = "pending"}
Eval6Complete  == \A t \in Task : db.stage[<<t, Eval6>>] = "succeeded"
Ends == pc' = "off" /\ wave' = <<>> /\ todo' = {}
Goto(p) == pc' = p /\ UNCHANGED <<wave, todo>>

\* A first invocation starts the batch, a later one takes it as it is.
Begin ==
  /\ pc = "off"
  /\ db' = IF db.batch = "planned" THEN [db EXCEPT !.batch = "running"] ELSE db
  /\ Goto("top") /\ UNCHANGED crashes

Dies ==
  /\ pc # "off" /\ crashes < MaxCrashes
  /\ crashes' = crashes + 1
  /\ Ends /\ UNCHANGED db

\* Reviews come before leasing: they are asked at a terminal, and end a command
\* that has none (or runs with --non-interactive).
MeetsReviews ==
  /\ pc = "top" /\ PendingReviews # {}
  /\ \/ pc' = "deciding" /\ todo' = {Picture(t) : t \in PendingReviews} /\ UNCHANGED wave
     \/ Ends
  /\ UNCHANGED <<db, crashes>>

MeetsEval6 ==
  /\ pc = "top" /\ PendingReviews = {} /\ Eval6Complete
  /\ Goto("score") /\ UNCHANGED <<db, crashes>>

\* BatchWorker.run refuses a batch that is not running, and resumes one that is.
BeginsPass ==
  /\ pc = "top" /\ PendingReviews = {} /\ ~Eval6Complete
  /\ IF db.batch = "running" THEN Goto("lease") /\ db' = Resumed(db) ELSE Ends /\ UNCHANGED db
  /\ UNCHANGED crashes

\* The worker has come back: to the scores, to a review, or with a reason why
\* nothing can be leased.
PassReturns ==
  /\ pc = "return"
  /\ IF Eval6Complete THEN Goto("score")
     ELSE IF db.batch = "running" /\ PendingReviews # {} THEN Goto("top") ELSE Ends
  /\ UNCHANGED <<db, crashes>>

-----------------------------------------------------------------------------
(* decide_edit, from the interactive loop or from "batch review".          *)

AtLeast(n, m) == IF n < m THEN m ELSE n
MayTry(i) == db.tries[i] < MaxTries[i]

Decided(d, t, decision) ==
  LET gate == <<t, Gate>>
      pic  == Picture(t)
      noted == [d EXCEPT !.review[t] = IF decision \in {"accepted", "rejected"} THEN decision ELSE "other"]
      now  ==
        CASE decision = "accepted" ->
               LET picked == [noted EXCEPT !.stage[gate] = "succeeded", !.accepted[t] = d.made[pic]]
               IN  [picked EXCEPT !.key[gate] = Digest(picked, picked.stage, gate)]
          [] decision = "rejected" -> [noted EXCEPT !.stage[gate] = "rejected"]
          [] decision = "canceled" ->
               [noted EXCEPT !.stage = [i \in Item |->
                  IF i = gate \/ (i \in After(gate) /\ d.stage[i] \notin TerminalStates)
                  THEN "canceled" ELSE d.stage[i]]]
          [] decision = "regenerate" ->
               LET again == [noted EXCEPT !.stage[pic] = "ready", !.stage[gate] = "pending",
                               !.from[t] = d.made[pic], !.cand[t] = "open",
                               !.later = @ \ {pic}, !.budget[pic] = AtLeast(@, d.tries[pic] + 1)]
               IN  [again EXCEPT !.key[pic] = Digest(again, again.stage, pic)]
  IN  Aggregate(Refresh(now))

Decides(t) ==
  \E decision \in {"accepted", "rejected", "canceled", "regenerate"} :
    /\ decision = "regenerate" => MayTry(Picture(t))
    /\ db' = Decided(db, t, decision)

\* The loop works off the list it captured; a review decided meanwhile by
\* someone else is refused, and ends the command.
DecidesNext(i) ==
  /\ pc = "deciding" /\ i \in todo
  /\ IF db.review[i[1]] = "pending"
     THEN /\ Decides(i[1])
          /\ todo' = todo \ {i} /\ pc' = IF todo = {i} THEN "top" ELSE pc
          /\ UNCHANGED wave
     ELSE Ends /\ UNCHANGED db
  /\ UNCHANGED crashes

ReviewCommand(t) ==
  /\ db.review[t] = "pending"
  /\ Decides(t)
  /\ UNCHANGED <<pc, wave, todo, crashes>>

-----------------------------------------------------------------------------
(* One pass of BatchWorker.run.                                            *)

InWave(i) == \E k \in 1..Len(wave) : wave[k].item = i
Takes(i, who, res) ==
  LET d == Refresh(db)
  IN  /\ db' = Leased(d, i)
      /\ wave' = Append(wave, [item |-> i, n |-> d.tries[i] + 1, res |-> res, by |-> who])

Candidates(d) == {i \in Item : i[2] \in Served /\ Leasable(d, i)}

\* lease_next for the wave: any leasable stage (the code's order is by
\* stage name, then by the time the task was last served).
LeaseForWave(i) ==
  /\ pc = "lease" /\ Len(wave) < MaxParallel
  /\ i \in Candidates(Refresh(db)) /\ ~Exhausted(db, i) /\ MayTry(i)
  /\ Takes(i, "worker", "running")
  /\ UNCHANGED <<pc, todo, crashes>>

\* A stage whose attempts, or whose only candidate, are used up fails when its
\* turn comes; nothing is routed or aggregated.
LeaseExhausts(i) ==
  /\ pc = "lease" /\ Len(wave) < MaxParallel
  /\ i \in Candidates(Refresh(db)) /\ Exhausted(db, i)
  /\ db' = [Refresh(db) EXCEPT !.stage[i] = "failed_terminal"]
  /\ UNCHANGED <<pc, wave, todo, crashes>>

\* The wave is full or nothing is leasable (or all of it is at the bound).
WaveFull ==
  /\ pc = "lease"
  /\ \/ Len(wave) = MaxParallel
     \/ \A i \in Candidates(Refresh(db)) : ~Exhausted(db, i) /\ ~MayTry(i)
  /\ db' = IF Len(wave) < MaxParallel THEN Refresh(db) ELSE db
  /\ Goto(IF wave = <<>> THEN "return" ELSE "exec") /\ UNCHANGED crashes

\* _execute_safely ends for one member of the wave.
ExecEnds(k) ==
  /\ pc = "exec" /\ wave[k].res = "running"
  /\ \E outcome \in Outcome[wave[k].item[2]] : wave' = [wave EXCEPT ![k].res = outcome]
  /\ UNCHANGED <<db, pc, todo, crashes>>

\* pool.map returns when every member has ended.
WaveEnds ==
  /\ pc = "exec" /\ \A k \in 1..Len(wave) : wave[k].res # "running"
  /\ Goto("submit") /\ UNCHANGED <<db, crashes>>

\* Nobody sends heartbeats for a stage that has ended while others of its wave
\* run, nor for one whose command died: the lease runs out.  The steps of one
\* submission take less time than a lease lasts.
Expire(i) ==
  /\ db.held[i] = "live"
  /\ \A k \in 1..Len(wave) : wave[k].item = i /\ wave[k].n = db.tries[i] =>
        wave[k].res # "running" /\ \E m \in 1..Len(wave) : wave[m].res = "running"
  /\ db' = [db EXCEPT !.held[i] = "expired"]
  /\ UNCHANGED <<pc, wave, todo, crashes>>

-----------------------------------------------------------------------------
(* Submitting the head of the wave.                                        *)

Me == Head(wave)
Next1(w) == IF Me.by = "evaluate" THEN "finalizers" ELSE IF w = <<>> THEN "lease" ELSE "submit"
Submitted == wave' = Tail(wave) /\ pc' = Next1(Tail(wave)) /\ UNCHANGED todo

\* A StoreError: the worker resumes the batch and goes on with the next outcome
\* (_record_submission_error); the evaluation ends with it.
Refused ==
  IF Me.by = "worker" THEN db' = Resumed(db) /\ Submitted ELSE Ends /\ UNCHANGED db

ReportsFailure ==
  /\ pc = "submit" /\ Me.res # "ok"
  /\ IF HasLease(db, Me.item, Me.n)
     THEN db' = Failed(db, Me.item, Me.res) /\ Submitted
     ELSE Refused
  /\ UNCHANGED crashes

Prepares ==
  /\ pc = "submit" /\ Me.res = "ok"
  /\ IF HasLease(db, Me.item, Me.n)
     THEN db' = [db EXCEPT !.stage[Me.item] = "committing"] /\ Goto("publish")
     ELSE Refused
  /\ UNCHANGED crashes

\* _publish_commit_files: the staging directory becomes the output directory,
\* unless resume has already moved it.
MayPublish(d, i) == ~DirExists(d, i, d.out[i])

Publishes ==
  /\ pc = "publish"
  /\ IF Moved(db, Me.item, Me.n) THEN Goto("finalize") /\ UNCHANGED db
     ELSE IF MayPublish(db, Me.item)
     THEN /\ db' = [db EXCEPT !.dirs = @ \cup {<<Me.item, db.out[Me.item], Me.n>>}]
          /\ Goto("finalize")
     ELSE Refused
  /\ UNCHANGED crashes

\* _finalize_artifact_commit: nothing is left to do when resume has committed.
Finalizes ==
  /\ pc = "finalize"
  /\ IF db.made[Me.item] = Me.n THEN Submitted /\ UNCHANGED db
     ELSE IF HasLease(db, Me.item, Me.n) /\ db.stage[Me.item] = "committing"
     THEN db' = Aggregate(Committed(db, {Me.item})) /\ Submitted
     ELSE Refused
  /\ UNCHANGED crashes

-----------------------------------------------------------------------------
(* The evaluation: _evaluation_queue_gate, the scores, and                 *)
(* _commit_evaluation_stages, one finalizer after the other.               *)

FinalizerStates == {db.stage[i] : i \in Finalizers}

\* Mutant of GateOpen: one scored task is enough.
GateOpenForOne == "ready" \in FinalizerStates
GateOpen == FinalizerStates \subseteq {"ready", "succeeded"}

\* A batch that failed or was canceled is not scored, one with a finalizer that
\* is neither ready nor done is refused.
MeetsGate ==
  /\ pc = "score"
  /\ IF db.batch \notin {"failed", "canceled"} /\ GateOpen THEN Goto("scoring") ELSE Ends
  /\ UNCHANGED <<db, crashes>>

\* The requests fail or leave a partial result, and the command ends ...
ScoresMissing == pc = "scoring" /\ Ends /\ UNCHANGED <<db, crashes>>

\* ... or every task has its scores, and the finalizers ready by now are listed.
ScoresMade ==
  /\ pc = "scoring"
  /\ pc' = "finalizers" /\ todo' = {i \in Finalizers : db.stage[i] = "ready"}
  /\ UNCHANGED <<db, wave, crashes>>

\* "batch evaluate": the same without a look at unity_eval6; of a planned batch it
\* makes scores that touch no stage.
EvaluateCommand ==
  /\ pc = "off" /\ db.batch # "planned" /\ GateOpen
  /\ Goto("scoring") /\ UNCHANGED <<db, crashes>>

\* lease_next of one listed finalizer, and its outcome; none is an error.
TakesFinalizer(i) ==
  /\ pc = "finalizers" /\ i \in todo
  /\ LET d == Refresh(db)
     IN  IF Leasable(d, i) /\ ~Exhausted(d, i) /\ MayTry(i)
         THEN Takes(i, "evaluate", "ok") /\ pc' = "submit" /\ todo' = todo \ {i}
         ELSE /\ db' = IF Leasable(d, i) /\ Exhausted(d, i)
                       THEN [d EXCEPT !.stage[i] = "failed_terminal"] ELSE d
              /\ Ends
  /\ UNCHANGED crashes

Scored == pc = "finalizers" /\ todo = {} /\ Ends /\ UNCHANGED <<db, crashes>>

-----------------------------------------------------------------------------
(* The operator's other commands, each as one step, and time.              *)

\* A delayed retry (not_before) is due.
Due ==
  /\ db.later # {}
  /\ db' = [db EXCEPT !.later = {}]
  /\ UNCHANGED <<pc, wave, todo, crashes>>

\* resume, when there is something for it to do.
ResumeCommand ==
  /\ "resume" \in Ops
  /\ \/ \E i \in Item : db.held[i] = "expired" \/ db.stage[i] = "committing"
     \/ \E i \in Item : db.stage[i] = "pending" /\ PredecessorOk(db.stage, i)
     \/ db.batch # BatchStatus(db.stage)
  /\ db' = Resumed(db)
  /\ UNCHANGED <<pc, wave, todo, crashes>>

\* Mutant of Cancelable: what has succeeded is canceled too.
CancelableAny(i) == db.stage[i] # "canceled"
Cancelable(i) == db.stage[i] \notin TerminalStates

\* cancel refuses while a remote stage of the tasks has a lease row.
CancelCommand(T) ==
  LET gone == {i \in Item : i[1] \in T /\ Cancelable(i)}
  IN  /\ "cancel" \in Ops /\ gone # {}
      /\ \A i \in gone : i[2] \in Remote => db.held[i] = "none"
      /\ db' = Aggregate([db EXCEPT
                  !.stage = [i \in Item |-> IF i \in gone THEN "canceled" ELSE @[i]],
                  !.held  = [i \in Item |-> IF i \in gone THEN "none" ELSE @[i]]])
      /\ UNCHANGED <<pc, wave, todo, crashes>>

\* bound: a leased bundle, and what comes after it, is not retried from under its
\* worker (LeaseScheduler has that retry).  What ended badly before it can be, and
\* nothing else behind it has a lease.
BundleLeased(reset) == Debug # 0 /\ \E i \in reset : i[2] >= Debug /\ db.held[i] # "none"

\* retry of the stages that ended badly, of one task or of all, of one position
\* or of all.
RetryCommand(T, S) ==
  LET rows == {i \in T \X S : db.stage[i] \in {"failed_terminal", "rejected", "waiting_manual"}}
      reset == rows \cup UNION {After(i) : i \in rows}
  IN  /\ "retry" \in Ops /\ rows # {}
      /\ \A i \in rows  : MayTry(i)
      /\ ~BundleLeased(reset)
      /\ \E kept \in LeftReady(rows) :
           db' = [db EXCEPT
             !.batch  = "running",
             !.stage  = Retried(@, rows, kept),
             !.later  = @ \ reset,
             !.budget = [i \in Item |-> IF i \in rows THEN AtLeast(@[i], db.tries[i] + 1) ELSE @[i]]]
      /\ UNCHANGED <<pc, wave, todo, crashes>>

\* recover-remote of an attempt fenced as delivery_unknown: given back, given up,
\* or its result fetched and committed (all but the last step, when the output
\* directory is taken).
RecoverRemote(i) ==
  /\ db.stage[i] = "recovering" /\ db.held[i] = "revoked"
  /\ \/ /\ MayTry(i)
        /\ db' = Aggregate(Refresh([db EXCEPT !.stage[i] = "ready", !.held[i] = "none",
                    !.later = @ \ {i}, !.budget[i] = AtLeast(@, db.tries[i] + 1)]))
     \/ db' = Aggregate(Refresh([db EXCEPT !.stage = Ended(@, i, "failed_terminal"), !.held[i] = "none"]))
     \/ db' = IF Clash(db, i) THEN [db EXCEPT !.stage[i] = "committing", !.held[i] = "live"]
              ELSE Aggregate(Committed([db EXCEPT !.dirs = @ \cup {<<i, db.out[i], db.tries[i]>>}], {i}))
  /\ UNCHANGED <<pc, wave, todo, crashes>>

-----------------------------------------------------------------------------

BetweenPasses == Begin \/ MeetsReviews \/ MeetsEval6 \/ BeginsPass \/ PassReturns
                   \/ \E i \in Item : DecidesNext(i)
Pass       == (\E i \in Item : LeaseForWave(i) \/ LeaseExhausts(i)) \/ WaveFull \/ WaveEnds
Submission == ReportsFailure \/ Prepares \/ Publishes \/ Finalizes
Evaluation == MeetsGate \/ ScoresMissing \/ ScoresMade \/ (\E i \in Item : TakesFinalizer(i)) \/ Scored
Command    == BetweenPasses \/ Pass \/ Submission \/ Evaluation
Executing  == \E k \in 1..MaxParallel : k <= Len(wave) /\ ExecEnds(k)
Operator ==
  \/ ResumeCommand
  \/ EvaluateCommand
  \/ \E T \in {Task} \cup {{t} : t \in Task} :
       CancelCommand(T) \/ \E S \in {Stage} \cup {{s} : s \in Stage} : RetryCommand(T, S)

Attention == (\E t \in Task : ReviewCommand(t)) \/ (\E i \in Item : RecoverRemote(i))

Next == Command \/ Executing \/ Dies \/ Due \/ Operator \/ Attention \/ \E i \in Item : Expire(i)

Spec == Init /\ [][Next]_vars

-----------------------------------------------------------------------------
(* Safety.                                                                 *)

\* A finalizer closes with the scores of the whole batch: none has succeeded
\* unless the evidence of every task is committed, whoever cancels, retries or
\* regenerates while the scores are made.
ScoredTogether ==
  (\E i \in Finalizers : db.stage[i] = "succeeded")
    => \A t \in Task : db.stage[<<t, Eval6>>] = "succeeded"

\* An output directory holds the files of one attempt for good: what a stage has
\* published is not replaced by another attempt of it under the same key.
OutputKept ==
  /\ \A x, y \in db.dirs : x[1] = y[1] /\ x[2] = y[2] => x = y
  /\ \A i \in Item : db.stage[i] = "succeeded" /\ i[2] # Gate => Moved(db, i, db.made[i])

\* "A second invocation ... never repeats a succeeded stage or an accepted edit
\* attempt": what has succeeded is leased again only after an operator has
\* retried or regenerated something before it.
NeverRepeated ==
  [][\A i \in Item : db.stage[i] = "succeeded" /\ db'.stage[i] # "succeeded" =>
        \E s \in 1..i[2] : db'.budget[<<i[1], s>>] > db.tries[<<i[1], s>>]
                              /\ db'.stage[<<i[1], s>>] = "ready"]_vars

\* _skip_incomplete_evaluation: "once every finalizer is ready/succeeded/canceled,
\* no complete evaluation set can exist and the remaining finalizers must be
\* canceled instead of leaving the batch permanently runnable".  When one task has
\* ended without scores and nothing of any task can run any more but finalizers,
\* the batch does not stay running.
TaskOver(t) ==
  /\ \A s \in Served : db.stage[<<t, s>>] \in TerminalStates \cup {"pending"}
  /\ db.review[t] # "pending"
IncompleteBatchEnds ==
  (/\ \A t \in Task : TaskOver(t)
   /\ \E t \in Task : \E s \in 1..Eval6 : db.stage[<<t, s>>] \in {"failed_terminal", "rejected"})
    => db.batch # "running"

\* "run-all ... never repeats a succeeded stage", with several stages in a wave
\* (--max-parallel): a stage that ended well is not fenced out by its own command,
\* as long as that lives and nobody interferes.
ResultsLand ==
  pc = "submit" /\ Me.res = "ok" /\ Me.by = "worker" /\ crashes = 0 => HasLease(db, Me.item, Me.n)

\* "Review gates are operator work and must take precedence over leasing more
\* stages."
ReviewsFirst == [][Len(wave') > Len(wave) => PendingReviews = {}]_vars

\* "best-effort debug after upstream failure": a debug bundle made ready by a
\* failure before it has a running batch to be leased in, ...
BundleLeasable == \A t \in Task : Debug > 0 /\ db.stage[<<t, Debug>>] = "ready" => db.batch = "running"

\* ... and what an attempt has produced finds its output directory free.
PublishNotRefused == pc = "publish" => Moved(db, Me.item, Me.n) \/ MayPublish(db, Me.item)

-----------------------------------------------------------------------------
(* Liveness.  The command is run again whenever it has ended, and each of  *)
(* its steps is eventually taken; stages end; clocks run; an operator      *)
(* reviews what waits for a review and settles what waits in recovery; the *)
(* scores, asked for again and again, are one day complete.                *)
(* The first is WF_vars(Command) spelled out: the command can always go on  *)
(* but while it waits for its wave, and only its own steps, other than its  *)
(* death, move it.                                                          *)

CommandWaits == pc = "exec" /\ \E k \in 1..Len(wave) : wave[k].res = "running"
CommandMoves == crashes' = crashes /\ <<pc, Len(wave), todo>>' # <<pc, Len(wave), todo>>
Attended     == \A t \in Task : /\ db.review[t] # "pending"
                                /\ \A i \in TaskItems(t) : db.stage[i] # "recovering"

Fairness ==
  /\ []<>CommandWaits \/ []<><<CommandMoves>>_vars
  /\ []<>Attended
  /\ WF_vars(Executing)
  /\ SF_vars(ScoresMade)
  /\ WF_vars(Due \/ \E i \in Item : Expire(i))

LiveSpec == Spec /\ Fairness

\* What only an operator's retry or cancel can take further: a delivery nobody
\* knows the fate of, a process that was not cleaned up, the only candidate of a
\* picture spent or lost with its worker, a gate that retry made ready, scores that wait for
\* a task that will not have any (see IncompleteBatchEnds), and a finalizer whose
\* command died (see FinalizerResumed).
Closed(i) == db.stage[i] \in {"failed_terminal", "rejected"} \cup CanceledStates
NeedsOperator ==
  \/ \E i \in Item : db.stage[i] \in {"waiting_manual", "recovering_other"}
  \/ \E t \in Task : db.cand[t] \in {"running", "spent"} /\ db.held[Picture(t)] = "none"
  \/ \E t \in Task : db.stage[<<t, Gate>>] = "ready"
  \/ (\E i \in Item : Closed(i)) /\ "ready" \in FinalizerStates
  \/ \E i \in Finalizers : db.held[i] = "expired"

\* A running batch comes to an end, or to something an operator must decide.
BatchSettles == db.batch = "running" ~> (db.batch # "running" \/ NeedsOperator)

\* "A second invocation resumes the same database": a finalizer left in the hands
\* of a command that died is taken back when run-all is run again.
FinalizerResumed ==
  \A i \in Item : i \in Finalizers /\ db.held[i] = "expired" ~> db.held[i] # "expired"
=============================================================================
