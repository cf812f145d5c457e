------------------------------ MODULE ImageEdit ------------------------------
(***************************************************************************)
(* The image_edit stage of one task and the edit_gate behind it.           *)
(*                                                                         *)
(* image_edit is the one stage with several leases at a time: the stage    *)
(* row stands for a group of candidate images, each generated by attempts  *)
(* of its own, all of them writing the one state of the stage.  When the   *)
(* group is complete a review is opened; the reviewer accepts a candidate, *)
(* rejects the task, cancels it, or asks for a new group.                  *)
(*                                                                         *)
(* The chain of StageDag has three positions here: image_edit, edit_gate   *)
(* and the first stage behind the gate, which this module never leases.    *)
(* Attempts of image_edit have no process (the API is called from a thread *)
(* of the worker), so cleaning up after a lost lease always succeeds.      *)
(* Reconciling one attempt is one step: LeaseScheduler splits it.          *)
(***************************************************************************)
EXTENDS StageDag

CONSTANTS
  TheTask,      \* the task
  Count,        \* generation_count: candidates of a group
  Groups,       \* bound: groups a reviewer may ask for
  Tries,        \* bound: attempts of image_edit
  Budget,       \* max_attempts of image_edit
  Slots,        \* capacity of image_api
  Worker,       \* worker processes
  Modes,        \* the values of editPolicy.mode to consider
  ServesGate,   \* do workers lease edit_gate?  (the fake one does, the real one does not)
  MayExpire     \* may a lease run out, or a worker die?

ASSUME ImageEditAssumption ==
  /\ Task = {TheTask} /\ Last = 3 /\ Gate = 2
  /\ Evidence = {} /\ Debug = 0 /\ Download = 0 /\ Evaluate = 0
  /\ {Count, Groups, Tries, Budget, Slots} \subseteq Nat \ {0}
  /\ Modes \subseteq {"manual", "automatic"}
  /\ {ServesGate, MayExpire} \subseteq BOOLEAN

VARIABLES
  mode,         \* batches.edit_mode, which never changes
  batch,        \* batches.status
  stage,        \* stages.state of the three stages
  budget,       \* stages.max_attempts of image_edit
  group,        \* editGenerationGroup in the effective config of image_edit
  gen,          \* image_edit_generations.status
  cand,         \* attempts: the group and candidate of each attempt
  holder,       \* the worker process that leased the attempt
  lease,        \* the lease row of the attempt
  commit,       \* artifact_commits.state of the attempt
  worker,       \* where the holder is with the attempt
  review,       \* edit_reviews: what the review of the attempt says
  accepted,     \* acceptedGenerationPath in the config of edit_gate
  ctl           \* a control process running resume or cancel

queue == <<batch, stage, budget, group>>
made  == <<gen, cand, holder>>
gate  == <<review, accepted>>
vars  == <<mode, queue, made, lease, commit, worker, gate, ctl>>

Edit     == <<TheTask, 1>>
GateItem == <<TheTask, 2>>
Try      == 1..Tries
Candidate   == (1..Groups) \X (1..Count)
NoCandidate == <<0, 0>>

GenState    == {"none", "pending", "running", "succeeded", "failed_retryable", "failed_terminal", "superseded"}
ReviewState == {"none", "pending", "accepted", "rejected", "canceled", "regenerate"}
Idle        == [op |-> "idle", todo |-> {}, cur |-> {}]

TypeOK ==
  /\ mode \in Modes
  /\ batch \in {"running", "succeeded", "failed", "canceled"}
  /\ stage \in [Item -> StageState]
  /\ budget \in Nat
  /\ group \in 1..Groups
  /\ gen \in [Candidate -> GenState]
  /\ cand \in [Try -> Candidate \cup {NoCandidate}]
  /\ holder \in [Try -> SUBSET Worker]
  /\ lease \in [Try -> {"none", "live", "expired", "revoked"}]
  /\ commit \in [Try -> {"none", "prepared", "published", "committed", "failed"}]
  /\ worker \in [Try -> {"off", "exec", "publish", "finalize"}]
  /\ review \in [Try -> ReviewState]
  /\ accepted \in Candidate \cup {NoCandidate}
  /\ ctl \in [op : {"idle", "recover", "cancel"}, todo : SUBSET Try, cur : SUBSET Try]

Init ==
  /\ mode \in Modes
  /\ batch = "running"
  /\ stage = [i \in Item |-> IF i = Edit THEN "ready" ELSE "pending"]
  /\ budget = Budget
  /\ group = 1
  /\ gen = [c \in Candidate |-> "none"]
  /\ cand = [n \in Try |-> NoCandidate]
  /\ holder = [n \in Try |-> {}]
  /\ lease = [n \in Try |-> "none"]
  /\ commit = [n \in Try |-> "none"]
  /\ worker = [n \in Try |-> "off"]
  /\ review = [n \in Try |-> "none"]
  /\ accepted = NoCandidate
  /\ ctl = Idle

-----------------------------------------------------------------------------
Made        == {n \in Try : cand[n] # NoCandidate}
TriesOf(c)  == {n \in Try : cand[n] = c}
Members(g)  == {g} \X (1..Count)
Rows        == {n \in Try : lease[n] # "none"}
Unrevoked(n) == lease[n] \in {"live", "expired"}
Latest(S)   == CHOOSE n \in S : \A m \in S : m <= n

\* SELECT ... FROM leases WHERE stage_id=?, by way of the index leases_stage:
\* unrevoked rows first, the oldest of them first.
IsFirstLease(n) ==
  /\ n \in Rows
  /\ \A m \in Rows : IF Unrevoked(n) <=> Unrevoked(m) THEN n <= m ELSE Unrevoked(n)

\* A worker process submits the results of its wave one after the other, and
\* leases again only when it has submitted them all.
Submitting(w) == \E n \in Try : holder[n] = {w} /\ worker[n] \in {"publish", "finalize"}
Submits(n) ==
  /\ worker[n] = "exec"
  /\ lease[n] = "live"
  /\ \A w \in holder[n] : ~Submitting(w)

NoRows   == [n \in Try |-> "none"]
Revoked  == [n \in Try |-> IF n \in Rows THEN "revoked" ELSE "none"]

\* Mutant of Unfinished: a candidate that is being generated is not waited for.
UnfinishedButRunning == {"pending", "failed_retryable"}
Unfinished == {"pending", "running", "failed_retryable"}

SucceededIn(g, gs) == {c \in Members(g) : gs[c] = "succeeded"}
Complete(g, gs)    == \/ Cardinality(SucceededIn(g, gs)) >= Count
                      \/ \A c \in Members(g) : gs[c] \notin Unfinished

\* _create_edit_review; an automatic policy decides at once.
Opened == IF mode = "automatic" THEN "accepted" ELSE "pending"

\* _refresh_ready reads the review of the latest attempt that has one.
Reviewed(rv) == {n \in Try : rv[n] # "none"}
LatestDecision(rv) ==
  IF Reviewed(rv) = {} THEN "none"
  ELSE LET r == rv[Latest(Reviewed(rv))]
       IN  IF r \in {"canceled", "regenerate"} THEN "other" ELSE r
RefreshAll(st, rv) == Refreshed(st, [t \in Task |-> LatestDecision(rv)])

\* Passing the gate under an automatic policy records the first image.
FirstSucceeded(g, gs) == CHOOSE c \in SucceededIn(g, gs) : \A d \in SucceededIn(g, gs) : c[2] <= d[2]
PolicyAccepts(st, rv, gs) ==
  IF mode = "automatic" /\ stage[GateItem] # "succeeded" /\ st[GateItem] = "succeeded"
  THEN FirstSucceeded(cand[Latest(Reviewed(rv))][1], gs)
  ELSE accepted

\* _refresh_ready and _update_aggregate_status at the end of a transaction.
Settled(st, rv, gs) ==
  LET now == RefreshAll(st, rv)
  IN  /\ stage' = now
      /\ accepted' = PolicyAccepts(now, rv, gs)
      /\ batch' = BatchStatus(now)

Aggregate(st) == stage' = st /\ batch' = BatchStatus(st)

-----------------------------------------------------------------------------
(* lease_next                                                              *)

\* INSERT OR IGNORE of the rows of the current group.
Materialized == [c \in Candidate |-> IF c[1] = group /\ gen[c] = "none" THEN "pending" ELSE gen[c]]

\* Mutant of Leasable: a candidate that is being generated may be leased again.
LeasableRunning(gs) == {c \in Members(group) : gs[c] \in {"pending", "failed_retryable", "running"}}
Leasable(gs) == {c \in Members(group) : gs[c] \in {"pending", "failed_retryable"}}

LeaseNext(w) ==
  LET gs == Materialized
      st == RefreshAll(stage, review)
      n  == Cardinality(Made) + 1
      c  == CHOOSE x \in Leasable(gs) : \A y \in Leasable(gs) : x[2] <= y[2]
      done == SucceededIn(group, gs)
      top  == CHOOSE x \in done : \A y \in done : y[2] <= x[2]
  IN  /\ batch = "running"
      /\ st[Edit] \in {"ready", "leased", "running"}
      /\ Cardinality(Rows) < Slots
      /\ ~Submitting(w)
      /\ accepted' = PolicyAccepts(st, review, gs)
      /\ \/ \* the first candidate without an image is leased to a new attempt
            /\ Leasable(gs) # {}
            /\ IF Cardinality(TriesOf(c)) >= budget
               THEN /\ gen' = [gs EXCEPT ![c] = "failed_terminal"]
                    /\ stage' = st
                    /\ UNCHANGED <<cand, holder, lease, worker>>
               ELSE /\ n \in Try
                    /\ gen' = [gs EXCEPT ![c] = "running"]
                    /\ stage' = [st EXCEPT ![Edit] = "running"]
                    /\ cand' = [cand EXCEPT ![n] = c]
                    /\ holder' = [holder EXCEPT ![n] = {w}]
                    /\ lease' = [lease EXCEPT ![n] = "live"]
                    /\ worker' = [worker EXCEPT ![n] = "exec"]
            /\ UNCHANGED review
         \/ \* nothing is left to generate: review what there is, or fail
            /\ \A x \in Members(group) : gs[x] \notin Unfinished
            /\ gen' = gs
            /\ IF done # {}
               THEN /\ stage' = [st EXCEPT ![Edit] = "succeeded"]
                    /\ review' = [review EXCEPT ![Latest(TriesOf(top))] = Opened]
               ELSE /\ stage' = [st EXCEPT ![Edit] = "failed_terminal"]
                    /\ UNCHANGED review
            /\ UNCHANGED <<cand, holder, lease, worker>>
      /\ UNCHANGED <<batch, budget, group, commit, ctl>>

\* A retried gate is an ordinary ready stage.  A worker that leases every stage
\* commits an empty result for it; lease, execution and commit are one step here.
ServeGate ==
  /\ ServesGate
  /\ batch = "running"
  /\ stage[GateItem] = "ready"
  /\ Settled([stage EXCEPT ![GateItem] = "succeeded"], review, gen)
  /\ UNCHANGED <<budget, group, made, lease, commit, worker, review, ctl>>

-----------------------------------------------------------------------------
(* commit_success                                                          *)

Prepare(n) ==
  /\ Submits(n)
  /\ commit[n] = "none"
  /\ commit' = [commit EXCEPT ![n] = "prepared"]
  /\ stage' = [stage EXCEPT ![Edit] = "committing"]
  /\ worker' = [worker EXCEPT ![n] = "publish"]
  /\ UNCHANGED <<batch, budget, group, made, lease, gate, ctl>>

Publish(n) ==
  /\ worker[n] = "publish"
  /\ commit' = [commit EXCEPT ![n] = IF @ = "committed" THEN @ ELSE "published"]
  /\ worker' = [worker EXCEPT ![n] = "finalize"]
  /\ UNCHANGED <<queue, made, lease, gate, ctl>>

\* The tail of _finalize_artifact_commit: the candidate has its image, and the
\* stage is either queued again for the rest of the group or opens the review.
Finalize(n) ==
  LET gs == [gen EXCEPT ![cand[n]] = "succeeded"]
      whole == Complete(cand[n][1], gs)
      rv == IF whole THEN [review EXCEPT ![n] = Opened] ELSE review
  IN  /\ gen' = gs
      /\ commit' = [commit EXCEPT ![n] = "committed"]
      /\ lease' = [lease EXCEPT ![n] = "none"]
      /\ review' = rv
      /\ Settled([stage EXCEPT ![Edit] = IF whole THEN "succeeded" ELSE "ready"], rv, gs)
      /\ UNCHANGED <<budget, group, cand, holder>>

WorkerFinalize(n) ==
  /\ worker[n] = "finalize"
  /\ worker' = [worker EXCEPT ![n] = "off"]
  /\ IF commit[n] # "committed" /\ lease[n] = "live" /\ stage[Edit] = "committing"
     THEN Finalize(n) /\ UNCHANGED ctl
     ELSE UNCHANGED <<queue, made, lease, commit, gate, ctl>>

-----------------------------------------------------------------------------
(* fail: what the API said decides what becomes of candidate and stage.    *)

Failure == {"retryable", "terminal", "delivery_unknown"}

FailState(n, failure) ==
  CASE failure = "delivery_unknown" -> "waiting_manual"
    [] failure = "retryable" /\ Cardinality(TriesOf(cand[n])) < budget -> "ready"
    [] OTHER -> "failed_terminal"

\* A group that ended with an image is reviewed, one without any has failed.
Reviewable(g, gs) == Complete(g, gs) /\ SucceededIn(g, gs) # {}

Fail(n, failure) ==
  LET state == FailState(n, failure)
      g  == cand[n][1]
      gs == [gen EXCEPT ![cand[n]] = IF state = "ready" THEN "failed_retryable" ELSE "failed_terminal"]
      images  == {m \in Made : cand[m] \in SucceededIn(g, gs)}
      partial == state = "failed_terminal" /\ Reviewable(g, gs)
  IN  /\ Submits(n)
      /\ worker' = [worker EXCEPT ![n] = "off"]
      /\ gen' = gs
      /\ lease' = [lease EXCEPT ![n] = "none"]
      /\ review' = IF partial THEN [review EXCEPT ![Latest(images)] = Opened] ELSE review
      /\ Aggregate([stage EXCEPT ![Edit] =
            IF partial THEN "succeeded"
            ELSE IF state = "failed_terminal" /\ ~Complete(g, gs) THEN "ready" ELSE state])
      /\ UNCHANGED <<budget, group, cand, holder, commit, accepted, ctl>>

\* A heartbeat, prepare_artifact_commit or fail is refused; so is the report of
\* the refusal, and the worker goes on to resume.
Fenced(n) ==
  /\ worker[n] = "exec"
  /\ lease[n] # "live"
  /\ worker' = [worker EXCEPT ![n] = "off"]
  /\ UNCHANGED <<queue, made, lease, commit, gate, ctl>>

\* A lease runs out when its holder is late or gone.
Expire(n) ==
  /\ MayExpire
  /\ lease[n] = "live"
  /\ lease' = [lease EXCEPT ![n] = "expired"]
  /\ UNCHANGED <<queue, made, commit, worker, gate, ctl>>

WorkerDies(w) ==
  /\ MayExpire
  /\ \E n \in Try : holder[n] = {w} /\ worker[n] # "off"
  /\ worker' = [n \in Try |-> IF holder[n] = {w} THEN "off" ELSE worker[n]]
  /\ UNCHANGED <<queue, made, lease, commit, gate, ctl>>

-----------------------------------------------------------------------------
(* resume: reconcile_artifact_commits, recover_expired, _refresh_ready.    *)

Reconcile(n) ==
  /\ ctl = Idle
  /\ commit[n] \in {"prepared", "published"}
  /\ Unrevoked(n)
  /\ IF stage[Edit] = "committing"
     THEN Finalize(n)
     ELSE /\ commit' = [commit EXCEPT ![n] = "failed"]
          /\ stage' = [stage EXCEPT ![Edit] = "failed_terminal"]
          /\ lease' = NoRows
          /\ UNCHANGED <<batch, budget, group, made, gate>>
  /\ UNCHANGED <<worker, ctl>>

RecoverBegins ==
  /\ ctl = Idle
  /\ \E n \in Try : lease[n] = "expired"
  /\ ctl' = [op |-> "recover", todo |-> {n \in Try : lease[n] = "expired"}, cur |-> {}]
  /\ UNCHANGED <<queue, made, lease, commit, worker, gate>>

\* The lease of one attempt ran out; every lease of the stage is revoked.
RecoverRevokes(n) ==
  /\ ctl.op = "recover" /\ ctl.cur = {} /\ n \in ctl.todo
  /\ IF IsFirstLease(n) /\ Unrevoked(n)
     THEN /\ lease' = Revoked
          /\ ctl' = [ctl EXCEPT !.todo = @ \ {n}, !.cur = {n}]
     ELSE /\ ctl' = [ctl EXCEPT !.todo = @ \ {n}]
          /\ UNCHANGED lease
  /\ UNCHANGED <<queue, made, commit, worker, gate>>

\* The second transaction of recover_expired and of cancel, for the stage.
RecoverSettles(n) ==
  /\ ctl.op = "recover" /\ ctl.cur = {n}
  /\ IF IsFirstLease(n)
     THEN /\ stage' = [stage EXCEPT ![Edit] = IF n < budget THEN "ready" ELSE "failed_terminal"]
          /\ lease' = NoRows
     ELSE UNCHANGED <<stage, lease>>
  /\ ctl' = [ctl EXCEPT !.cur = {}]
  /\ UNCHANGED <<batch, budget, group, made, commit, worker, gate>>

ResumeEnds ==
  /\ ctl.op = "recover" /\ ctl.todo = {} /\ ctl.cur = {}
  /\ Settled(stage, review, gen)
  /\ ctl' = Idle
  /\ UNCHANGED <<budget, group, made, lease, commit, worker, review>>

Refresh ==
  /\ ctl = Idle
  /\ RefreshAll(stage, review) # stage
  /\ Settled(stage, review, gen)
  /\ UNCHANGED <<budget, group, made, lease, commit, worker, review, ctl>>

-----------------------------------------------------------------------------
(* cancel of the task                                                      *)

CancelBegins ==
  /\ ctl = Idle
  /\ \E i \in Item : stage[i] \notin TerminalStates
  /\ stage' = [i \in Item |-> IF stage[i] \in TerminalStates THEN stage[i] ELSE "canceled"]
  /\ IF stage[Edit] \in TerminalStates
     THEN UNCHANGED lease /\ ctl' = [Idle EXCEPT !.op = "cancel"]
     ELSE /\ lease' = Revoked
          /\ ctl' = [Idle EXCEPT !.op = "cancel", !.cur = {n \in Try : IsFirstLease(n)}]
  /\ UNCHANGED <<batch, budget, group, made, commit, worker, gate>>

CancelEnds ==
  /\ ctl.op = "cancel"
  /\ lease' = IF \E n \in ctl.cur : IsFirstLease(n) THEN NoRows ELSE lease
  /\ Aggregate(stage)
  /\ ctl' = Idle
  /\ UNCHANGED <<budget, group, made, commit, worker, gate>>

-----------------------------------------------------------------------------
(* retry, and the four decisions of decide_edit                            *)

AtLeast(n, m) == IF n < m THEN m ELSE n

Retry(S) ==
  LET rows == {i \in S : stage[i] \in {"failed_terminal", "rejected", "waiting_manual"}}
  IN  /\ rows # {}
      /\ \E kept \in LeftReady(rows) : stage' = Retried(stage, rows, kept)
      /\ budget' = IF Edit \in rows THEN AtLeast(budget, Cardinality(Made) + 1) ELSE budget
      /\ batch' = "running"
      /\ UNCHANGED <<group, made, lease, commit, worker, gate, ctl>>

Selectable(n) == SucceededIn(cand[n][1], gen)

Accept(n, c) ==
  LET rv == [review EXCEPT ![n] = "accepted"]
      now == RefreshAll([stage EXCEPT ![GateItem] = "succeeded"], rv)
  IN  /\ review[n] = "pending"
      /\ c \in Selectable(n)
      /\ review' = rv
      /\ accepted' = c
      /\ Aggregate(now)
      /\ UNCHANGED <<budget, group, made, lease, commit, worker, ctl>>

Reject(n) ==
  LET rv == [review EXCEPT ![n] = "rejected"]
  IN  /\ review[n] = "pending"
      /\ review' = rv
      /\ Settled([stage EXCEPT ![GateItem] = "rejected"], rv, gen)
      /\ UNCHANGED <<budget, group, made, lease, commit, worker, ctl>>

CancelTask(n) ==
  LET rv == [review EXCEPT ![n] = "canceled"]
  IN  /\ review[n] = "pending"
      /\ review' = rv
      /\ Settled([i \in Item |-> IF i = GateItem \/ (i[2] > Gate /\ stage[i] \notin TerminalStates)
                                 THEN "canceled" ELSE stage[i]], rv, gen)
      /\ UNCHANGED <<budget, group, made, lease, commit, worker, ctl>>

\* Mutant of SupersededGroup: the images of the old group are dropped as well.
SupersededGroupWhole(g) == Members(g)
SupersededGroup(g) == Members(g) \ SucceededIn(g, gen)

Regenerate(n) ==
  LET rv == [review EXCEPT ![n] = "regenerate"]
      gs == [c \in Candidate |-> IF c \in SupersededGroup(cand[n][1]) THEN "superseded" ELSE gen[c]]
  IN  /\ review[n] = "pending"
      /\ group < Groups
      /\ group' = group + 1
      /\ review' = rv
      /\ gen' = gs
      /\ budget' = AtLeast(budget, Cardinality(Made) + 1)
      /\ Settled([stage EXCEPT ![Edit] = "ready", ![GateItem] = "pending"], rv, gs)
      /\ UNCHANGED <<cand, holder, lease, commit, worker, ctl>>

-----------------------------------------------------------------------------
AttemptStep(n) ==
  \/ Prepare(n) \/ Publish(n) \/ WorkerFinalize(n) \/ Fenced(n)
  \/ \E failure \in Failure : Fail(n, failure)

WorkerStep == (\E w \in Worker : LeaseNext(w)) \/ (\E n \in Try : AttemptStep(n))

ResumeStep ==
  \/ RecoverBegins \/ ResumeEnds \/ Refresh
  \/ \E n \in Try : Reconcile(n) \/ RecoverRevokes(n) \/ RecoverSettles(n)

Decide == \E n \in Try :
  \/ \E c \in Candidate : Accept(n, c)
  \/ Reject(n) \/ CancelTask(n) \/ Regenerate(n)

Operator == \/ CancelBegins \/ CancelEnds \/ Decide
            \/ \E S \in {Item, {Edit}, {GateItem}} : Retry(S)

Environment == \/ \E n \in Try : Expire(n)
               \/ \E w \in Worker : WorkerDies(w)

Next == /\ WorkerStep \/ ServeGate \/ ResumeStep \/ Operator \/ Environment
        /\ UNCHANGED mode

Spec == Init /\ [][Next]_vars

-----------------------------------------------------------------------------
(* What the candidates and their review promise.                           *)

\* No two attempts hold an unrevoked lease for the same candidate: one image is
\* never paid for twice at the same time, whatever expiry and recovery do.
CandidateExclusive ==
  \A n, m \in Try : Unrevoked(n) /\ Unrevoked(m) /\ cand[n] = cand[m] => n = m

\* A review that waits for a decision has images to choose from, is the only one
\* that waits, and nothing of its group is still being generated.
ReviewSound ==
  \A n \in Try : review[n] = "pending" =>
    /\ SucceededIn(cand[n][1], gen) # {}
    /\ \A m \in Try \ {n} : review[m] # "pending"
    /\ \A m \in Try : Unrevoked(m) => cand[m][1] # cand[n][1]

\* What passed the gate is an image: one the latest review accepted, out of the
\* group that review was opened for.
GateAccepted ==
  stage[GateItem] = "succeeded" =>
    /\ LatestDecision(review) = "accepted"
    /\ accepted \in SucceededIn(cand[Latest(Reviewed(review))][1], gen)

\* An image once generated stays available: no failure of a sibling, recovery or
\* regeneration takes the candidate back, and a decided review stays decided.
ImagesKept ==
  [][/\ \A c \in Candidate : gen[c] = "succeeded" => gen'[c] = "succeeded"
     /\ \A n \in Try : review[n] \notin {"none", "pending"} => review'[n] = review[n]]_vars

\* A delivery that may have been billed blocks the stage until an operator acts:
\* only retry and cancel take image_edit out of waiting_manual.
UnknownStaysBlocked ==
  [][stage[Edit] = "waiting_manual" => stage'[Edit] \in {"waiting_manual", "ready", "canceled"}]_vars

\* A published image is never written off because a sibling was committed.
PublishedImageKept ==
  [][\A n \in Try : commit[n] = "published" => commit'[n] \in {"published", "committed"}]_vars

\* When resume has queued image_edit again, some candidate can be leased, is
\* being generated under a lease, or the group can be closed.
QueuedIsServable ==
  ctl = Idle /\ stage[Edit] = "ready" =>
    \/ Leasable(Materialized) # {}
    \/ \E n \in Try : Unrevoked(n)
    \/ \A c \in Members(group) : Materialized[c] \notin Unfinished

\* Retrying a failed image_edit gives it a candidate to generate.
RetryGenerates ==
  [][stage[Edit] = "failed_terminal" /\ stage'[Edit] = "ready" =>
       \E c \in Members(group) : gen'[c] \in {"pending", "failed_retryable"}]_vars

\* After a cancel of the task nothing queues its image_edit again.
CanceledTaskRests ==
  [][batch = "canceled" /\ ctl = Idle => stage'[Edit] # "ready"]_vars

-----------------------------------------------------------------------------
(* What must eventually happen.  Workers go on leasing and every call of   *)
(* the API ends; a command that has begun takes its next step, and resume  *)
(* runs at the start of every worker and after every failed submission.    *)

Fairness ==
  /\ \A w \in Worker : WF_vars(LeaseNext(w) /\ UNCHANGED mode)
  /\ \A n \in Try : WF_vars(AttemptStep(n) /\ UNCHANGED mode)
  /\ WF_vars(ResumeStep /\ UNCHANGED mode) /\ WF_vars(CancelEnds /\ UNCHANGED mode)

LiveSpec == Spec /\ Fairness

\* As long as leases hold, a queued candidate group does not stay in the queue:
\* it ends in a review, a failure, a cancel or the wait for an operator, unless
\* the bound on attempts stops it.
GroupEnds ==
  stage[Edit] \in {"ready", "running", "committing"} ~>
    (stage[Edit] \in TerminalStates \cup {"waiting_manual"} \/ Cardinality(Made) = Tries)
=============================================================================
