------------------------ MODULE LeaseSchedulerProofs ------------------------
(***************************************************************************)
(* What holds of the lease queue for every batch, chain of stages,         *)
(* capacity, retry bound and set of concurrent commands.                   *)
(***************************************************************************)
EXTENDS LeaseScheduler, FiniteSetTheorems, TLAPS

-----------------------------------------------------------------------------
(* The functions on the table of stages.                                   *)

Table == [Item -> StageState]

\* Items and attempts determine each other's components.
LEMMA ItemFacts ==
  /\ \A a \in Attempt : ItemOf(a) \in Item
  /\ \A i \in Item : i[1] \in Task /\ i[2] \in Stage /\ i = <<i[1], i[2]>>
  /\ \A i \in Item, n \in 1..MaxTries :
       <<i[1], i[2], n>> \in Attempt /\ ItemOf(<<i[1], i[2], n>>) = i
BY DEF Attempt, Item, ItemOf

\* _refresh_ready keeps the table a table.
LEMMA RefreshAllType == ASSUME NEW st \in Table PROVE RefreshAll(st) \in Table
<1>1. ASSUME NEW x \in Table PROVE RefreshOnce(x, NoReview) \in Table
  <2>1. ASSUME NEW i \in Item PROVE Unblocked(x, NoReview, i) \in StageState
    <3>1. NoReview[i[1]] = "none"
      BY ItemFacts DEF NoReview
    <3> QED BY <3>1 DEF Unblocked, GateState, StageState, Table, TerminalStates, ActiveStates
  <2> QED BY <2>1 DEF RefreshOnce, Table
<1> QED BY <1>1 DEF RefreshAll, Refreshed

LEMMA EvaluationSkippedType == ASSUME NEW st \in Table PROVE EvaluationSkipped(st) \in Table
BY DEF EvaluationSkipped, Finalizers, Table, StageState, TerminalStates, CanceledStates

LEMMA EndedType ==
  ASSUME NEW st \in Table, NEW i \in Item, NEW s \in StageState
  PROVE  Ended(st, i, s) \in Table
BY DEF Ended, Routed, Table, StageState, TerminalStates, CanceledStates

LEMMA BatchStatusType == ASSUME NEW st PROVE BatchStatus(st) \in BatchState
BY DEF BatchStatus, BatchState

LEMMA RetriedType ==
  ASSUME NEW st \in Table, NEW rows, NEW kept PROVE Retried(st, rows, kept) \in Table
BY DEF Retried, Table, StageState

LEMMA AggregateType ==
  ASSUME NEW st \in Table, Aggregate(st)
  PROVE  stage' \in Table /\ batch' \in BatchState
BY EvaluationSkippedType, BatchStatusType DEF Aggregate

-----------------------------------------------------------------------------
(* Type correctness.                                                       *)

LEMMA TypeInit == Init => TypeOK
BY DagAssumption, SchedulerAssumption
   DEF Init, TypeOK, Item, Stage, StageState, BatchState, AttemptState, LeaseState,
       CommitState, WorkerState, ProcState, CtlState, Working, Idle

\* The bound on retries makes the set of attempts finite.
LEMMA AttemptFinite ==
  /\ IsFiniteSet(Attempt)
  /\ \A i \in Item : IsFiniteSet(AttemptsOf(i)) /\ Tried(i) \in Nat
<1> DEFINE Triple == [p \in Item \X (1..MaxTries) |-> <<p[1][1], p[1][2], p[2]>>]
<1>1. IsFiniteSet(Item \X (1..MaxTries))
  <2>1. IsFiniteSet(Stage) /\ IsFiniteSet(1..MaxTries)
    BY FS_Interval, DagAssumption, SchedulerAssumption DEF Stage
  <2>2. IsFiniteSet(Item)
    BY <2>1, FS_Product, DagAssumption DEF Item
  <2> QED BY <2>1, <2>2, FS_Product
<1>2. Triple \in Surjection(Item \X (1..MaxTries), Attempt)
  <2>1. Triple \in [Item \X (1..MaxTries) -> Attempt]
    BY DEF Item, Attempt
  <2>2. ASSUME NEW a \in Attempt PROVE \E p \in Item \X (1..MaxTries) : Triple[p] = a
    <3>1. <<ItemOf(a), a[3]>> \in Item \X (1..MaxTries)
      BY DEF Attempt, Item, ItemOf
    <3>2. Triple[<<ItemOf(a), a[3]>>] = <<a[1], a[2], a[3]>>
      BY <3>1 DEF ItemOf
    <3>3. a = <<a[1], a[2], a[3]>>
      BY DEF Attempt
    <3> QED BY <3>1, <3>2, <3>3
  <2> QED BY <2>1, <2>2 DEF Surjection
<1>3. IsFiniteSet(Attempt)
  BY <1>1, <1>2, FS_Surjection
<1>4. ASSUME NEW i \in Item PROVE IsFiniteSet(AttemptsOf(i)) /\ Tried(i) \in Nat
  <2>1. AttemptsOf(i) \subseteq Attempt
    BY DEF AttemptsOf
  <2>2. IsFiniteSet(AttemptsOf(i))
    BY <1>3, <2>1, FS_Subset
  <2>3. IsFiniteSet({a \in AttemptsOf(i) : attempt[a] # "absent"})
    BY <2>2, FS_Subset
  <2> QED BY <2>2, <2>3, FS_CardinalityType DEF Tried
<1> QED BY <1>3, <1>4

\* A control process that goes on to its next step stays well-typed.
LEMMA CtlType ==
  ASSUME ctl \in [Ctl -> CtlState], NEW c \in Ctl
  PROVE  /\ CurrentDone(c) => ctl' \in [Ctl -> CtlState]
         /\ \A pc \in {"finalize", "abort", "cleanup", "settle"} : Step(c, pc) => ctl' \in [Ctl -> CtlState]
         /\ \A pc \in {"publish", "revoke", "cleanup"} : Pick(c, pc) => ctl' \in [Ctl -> CtlState]
<1>1. \A op \in {"idle", "reconcile", "recover", "refresh", "cancel"}, todo, cur \in SUBSET Attempt, clean \in BOOLEAN,
         pc \in {"next", "publish", "finalize", "abort", "revoke", "cleanup", "settle"} :
         [op |-> op, todo |-> todo, cur |-> cur, pc |-> pc, clean |-> clean] \in CtlState
  BY DEF CtlState
<1>2. /\ ctl[c] = [op |-> ctl[c].op, todo |-> ctl[c].todo, cur |-> ctl[c].cur, pc |-> ctl[c].pc, clean |-> ctl[c].clean]
      /\ ctl[c].todo \in SUBSET Attempt /\ ctl[c].cur \in SUBSET Attempt /\ ctl[c].clean \in BOOLEAN
      /\ ctl[c].op \in {"idle", "reconcile", "recover", "refresh", "cancel"}
  BY DEF CtlState
<1>3. CurrentDone(c) => ctl' \in [Ctl -> CtlState]
  BY <1>2 DEF CurrentDone, Working, CtlState
<1>4. ASSUME NEW pc \in {"finalize", "abort", "cleanup", "settle"}, Step(c, pc) PROVE ctl' \in [Ctl -> CtlState]
  BY <1>4, <1>2 DEF Step, CtlState
<1>5. ASSUME NEW pc \in {"publish", "revoke", "cleanup"}, Pick(c, pc) PROVE ctl' \in [Ctl -> CtlState]
  BY <1>5, <1>2 DEF Pick, CtlState
<1> QED BY <1>3, <1>4, <1>5

\* What fail stores in attempts.status: recovering, or a word of an ended attempt.
LEMMA FailOutcome ==
  ASSUME NEW a, NEW failure \in Failure
  PROVE  /\ failure \in {"unknown", "unclean"} => AttemptOutcome(NextState(a, failure)) = "recovering"
         /\ failure \notin {"unknown", "unclean"} =>
              /\ AttemptOutcome(NextState(a, failure)) \in EndedStates \ {"succeeded"}
              /\ NextState(a, failure) \notin {"recovering", "recovering_other"}
         /\ AttemptOutcome(NextState(a, failure)) \in AttemptState \ {"absent", "succeeded"}
BY DEF NextState, AttemptOutcome, Failure, EndedStates, AttemptState, InFlight

LEMMA TypeNext == TypeOK /\ [Next]_vars => TypeOK'
<1> SUFFICES ASSUME TypeOK, [Next]_vars PROVE TypeOK'
  OBVIOUS
<1> USE DEF TypeOK
<1>t. stage \in Table
  BY DEF Table
<1>f. \A i \in Item : Tried(i) \in Nat
  BY AttemptFinite
<1>i. \A a \in Attempt : ItemOf(a) \in Item
  BY ItemFacts
<1>1. ASSUME NEW c \in Ctl, Start(c) PROVE TypeOK'
  BY <1>1 DEF Start, BatchState
<1>2. ASSUME NEW i \in Item, LeaseNext(i) PROVE TypeOK'
  BY <1>2, <1>t, RefreshAllType DEF LeaseNext, Table, StageState, ActiveStates, TerminalStates, AttemptState, InFlight,
       LeaseState, WorkerState
<1>3. ASSUME NEW a \in Attempt, Spawn(a) PROVE TypeOK'
  BY <1>3 DEF Spawn, ProcState
<1>4. ASSUME NEW a \in Attempt, MarkRunning(a) PROVE TypeOK'
  BY <1>4 DEF MarkRunning, RequireLease, ProcState, AttemptState, InFlight, StageState, ActiveStates
<1>5. ASSUME NEW a \in Attempt, ProcessExits(a) PROVE TypeOK'
  BY <1>5 DEF ProcessExits, ProcState
<1>6. ASSUME NEW a \in Attempt, Expire(a) PROVE TypeOK'
  BY <1>6 DEF Expire, LeaseState
<1>7. ASSUME NEW a \in Attempt, Fenced(a) PROVE TypeOK'
  BY <1>7 DEF Fenced, WorkerState
<1>8. ASSUME NEW a \in Attempt, WorkerDies(a) PROVE TypeOK'
  BY <1>8 DEF WorkerDies, WorkerState
<1>9. ASSUME NEW a \in Attempt, Prepare(a) PROVE TypeOK'
  BY <1>9 DEF Prepare, CommitState, AttemptState, InFlight, StageState, ActiveStates, WorkerState
<1>10. ASSUME NEW a \in Attempt, WorkerPublish(a) PROVE TypeOK'
  BY <1>10 DEF WorkerPublish, MarkPublished, CommitState, WorkerState
<1>11. ASSUME NEW a \in Attempt, WorkerGivesUp(a) PROVE TypeOK'
  BY <1>11 DEF WorkerGivesUp, WorkerState
<1>fin. ASSUME NEW a \in Attempt, Finalize(a)
       PROVE  /\ stage' \in Table /\ batch' \in BatchState
              /\ commit' \in [Attempt -> CommitState] /\ attempt' \in [Attempt -> AttemptState]
              /\ lease' \in [Attempt -> LeaseState]
  <2>1. [stage EXCEPT ![ItemOf(a)] = "succeeded"] \in Table
    BY DEF Table, StageState, TerminalStates
  <2>2. stage' \in Table /\ batch' \in BatchState
    BY <1>fin, <2>1, RefreshAllType, AggregateType DEF Finalize
  <2> QED BY <1>fin, <2>2 DEF Finalize, CommitState, AttemptState, EndedStates, LeaseState
<1>12. ASSUME NEW a \in Attempt, WorkerFinalize(a) PROVE TypeOK'
  BY <1>12, <1>fin DEF WorkerFinalize, Table, WorkerState
<1>13. ASSUME NEW a \in Attempt, NEW failure \in Failure, Fail(a, failure) PROVE TypeOK'
  <2>1. NextState(a, failure) \in StageState
    BY <1>13 DEF NextState, Failure, StageState, ActiveStates, TerminalStates, CanceledStates
  <2>2. stage' \in Table /\ batch' \in BatchState
    BY <1>13, <1>t, <1>i, <2>1, EndedType, AggregateType DEF Fail
  <2>3. AttemptOutcome(NextState(a, failure)) \in AttemptState
    BY FailOutcome
  <2> QED BY <1>13, <2>2, <2>3 DEF Fail, Table, LeaseState, WorkerState
<1>14. ASSUME NEW c \in Ctl, CtlDies(c) PROVE TypeOK'
  <2>1. ctl' \in [Ctl -> CtlState]
    BY <1>14 DEF CtlDies, CtlState, Working, Idle
  <2> QED BY <1>14, <2>1 DEF CtlDies
<1>15. ASSUME NEW c \in Ctl, ResumeBegins(c) PROVE TypeOK'
  <2>1. ctl' \in [Ctl -> CtlState]
    BY <1>15 DEF ResumeBegins, CtlState, Working, Idle
  <2> QED BY <1>15, <2>1 DEF ResumeBegins
<1>16. ASSUME NEW c \in Ctl, ReconcilePicks(c) PROVE TypeOK'
  <2>1. ctl' \in [Ctl -> CtlState]
    BY <1>16, CtlType DEF ReconcilePicks
  <2> QED BY <1>16, <2>1 DEF ReconcilePicks
<1>17. ASSUME NEW c \in Ctl, NEW a \in Attempt, ReconcilePublish(c, a) PROVE TypeOK'
  <2>1. ctl' \in [Ctl -> CtlState]
    BY <1>17, CtlType DEF ReconcilePublish
  <2> QED BY <1>17, <2>1 DEF ReconcilePublish, MarkPublished, CommitState
<1>18. ASSUME NEW c \in Ctl, NEW a \in Attempt, ReconcilePublishFails(c, a) PROVE TypeOK'
  <2>1. ctl' \in [Ctl -> CtlState]
    BY <1>18, CtlType DEF ReconcilePublishFails
  <2> QED BY <1>18, <2>1 DEF ReconcilePublishFails
<1>19. ASSUME NEW c \in Ctl, NEW a \in Attempt, ReconcileFinalize(c, a) PROVE TypeOK'
  <2>1. ctl' \in [Ctl -> CtlState]
    BY <1>19, CtlType DEF ReconcileFinalize
  <2> QED BY <1>19, <2>1, <1>fin DEF ReconcileFinalize, Table
<1>20. ASSUME NEW c \in Ctl, NEW a \in Attempt, ReconcileAborts(c, a) PROVE TypeOK'
  <2>1. ctl' \in [Ctl -> CtlState]
    BY <1>20, CtlType DEF ReconcileAborts
  <2> QED BY <1>20, <2>1 DEF ReconcileAborts, CommitState, AttemptState, EndedStates, StageState, TerminalStates,
             DropLeasesOf, LeaseState
<1>21. ASSUME NEW c \in Ctl, RecoverBegins(c) PROVE TypeOK'
  <2>1. ctl' \in [Ctl -> CtlState]
    BY <1>21 DEF RecoverBegins, Working, CtlState
  <2> QED BY <1>21, <2>1 DEF RecoverBegins
<1>22. ASSUME NEW c \in Ctl, RecoverPicks(c) PROVE TypeOK'
  <2>1. ctl' \in [Ctl -> CtlState]
    BY <1>22, CtlType DEF RecoverPicks
  <2> QED BY <1>22, <2>1 DEF RecoverPicks
<1>23. ASSUME NEW c \in Ctl, NEW a \in Attempt, RecoverRevokes(c, a) PROVE TypeOK'
  <2>1. ctl' \in [Ctl -> CtlState]
    BY <1>23, CtlType DEF RecoverRevokes
  <2> QED BY <1>23, <2>1 DEF RecoverRevokes, RevokeLeasesOf, LeaseState
<1>24. ASSUME NEW c \in Ctl, NEW a \in Attempt, CleansUp(c, a) PROVE TypeOK'
  <2>1. ctl' \in [Ctl -> CtlState]
    <3>1. /\ [ctl[c] EXCEPT !.pc = "settle"] \in CtlState
          /\ [ctl[c] EXCEPT !.pc = "settle", !.clean = FALSE] \in CtlState
      BY DEF CtlState
    <3>2. \/ ctl' = [ctl EXCEPT ![c] = [ctl[c] EXCEPT !.pc = "settle"]]
          \/ ctl' = [ctl EXCEPT ![c] = [ctl[c] EXCEPT !.pc = "settle", !.clean = FALSE]]
      BY <1>24 DEF CleansUp, CtlState
    <3> QED BY <3>1, <3>2
  <2> QED BY <1>24, <2>1 DEF CleansUp, ProcState
<1>25. ASSUME NEW c \in Ctl, NEW a \in Attempt, RecoverSettles(c, a) PROVE TypeOK'
  <2>1. ctl' \in [Ctl -> CtlState]
    BY <1>25, CtlType DEF RecoverSettles
  <2> QED BY <1>25, <2>1 DEF RecoverSettles, AttemptState, EndedStates, StageState, ActiveStates, TerminalStates,
             DropLeasesOf, LeaseState
<1>26. ASSUME NEW c \in Ctl, RecoverEnds(c) PROVE TypeOK'
  <2>1. ctl' \in [Ctl -> CtlState]
    BY <1>26 DEF RecoverEnds, Working, CtlState
  <2> QED BY <1>26, <2>1, <1>t, AggregateType DEF RecoverEnds, Table
<1>27. ASSUME NEW c \in Ctl, Refresh(c) PROVE TypeOK'
  <2>1. ctl' \in [Ctl -> CtlState]
    BY <1>27 DEF Refresh, CtlState, Working, Idle
  <2> QED BY <1>27, <2>1, <1>t, RefreshAllType, AggregateType DEF Refresh, Table
<1>28. ASSUME NEW c \in Ctl, NEW T \in SUBSET Task, CancelBegins(c, T) PROVE TypeOK'
  <2>1. ctl' \in [Ctl -> CtlState]
    BY <1>28 DEF CancelBegins, CtlState, Working, Idle
  <2> QED BY <1>28, <2>1 DEF CancelBegins, StageState, TerminalStates, CanceledStates, RevokeLeasesOf, LeaseState
<1>29. ASSUME NEW c \in Ctl, CancelPicks(c) PROVE TypeOK'
  <2>1. ctl' \in [Ctl -> CtlState]
    BY <1>29, CtlType DEF CancelPicks
  <2> QED BY <1>29, <2>1 DEF CancelPicks
<1>30. ASSUME NEW c \in Ctl, NEW a \in Attempt, CancelSettles(c, a) PROVE TypeOK'
  <2>1. ctl' \in [Ctl -> CtlState]
    BY <1>30, CtlType DEF CancelSettles
  <2> QED BY <1>30, <2>1 DEF CancelSettles, AttemptState, EndedStates, StageState, TerminalStates, DropLeasesOf, LeaseState
<1>31. ASSUME NEW c \in Ctl, CancelEnds(c) PROVE TypeOK'
  <2>1. ctl' \in [Ctl -> CtlState]
    BY <1>31 DEF CancelEnds, CtlState, Working, Idle
  <2> QED BY <1>31, <2>1, <1>t, AggregateType DEF CancelEnds, Table
<1>32. ASSUME NEW c \in Ctl, NEW T \in SUBSET Task, NEW S \in SUBSET Stage, Retry(c, T, S) PROVE TypeOK'
  <2>1. \A rows, kept : Retried(stage, rows, kept) \in Table
    BY <1>t, RetriedType
  <2> QED BY <1>32, <1>f, <2>1 DEF Retry, AtLeast, Table, BatchState
<1>33. ASSUME NEW c \in Ctl, NEW a \in Attempt, Reactivate(c, a) PROVE TypeOK'
  BY <1>33 DEF Reactivate, AttemptState, InFlight, StageState, ActiveStates, LeaseState, WorkerState
<1>34. ASSUME NEW c \in Ctl, NEW a \in Attempt, NEW action \in {"retry", "terminal"}, Resolve(c, a, action)
      PROVE  TypeOK'
  <2> DEFINE next == IF action = "retry" THEN "ready" ELSE "failed_terminal"
  <2>1. next \in StageState
    BY DEF StageState, TerminalStates
  <2>2. stage' \in Table /\ batch' \in BatchState
    BY <1>34, <1>t, <1>i, <2>1, EndedType, RefreshAllType, AggregateType DEF Resolve
  <2>3. a[3] + 1 \in Nat
    BY DEF Attempt
  <2> QED BY <1>34, <1>i, <2>2, <2>3 DEF Resolve, AtLeast, AttemptState, EndedStates, LeaseState, Table
<1>35. CASE UNCHANGED vars
  BY <1>35 DEF vars
<1> QED
  BY <1>1, <1>2, <1>3, <1>4, <1>5, <1>6, <1>7, <1>8, <1>9, <1>10, <1>11, <1>12, <1>13, <1>14, <1>15, <1>16, <1>17, <1>18, <1>19, <1>20, <1>21, <1>22, <1>23, <1>24, <1>25, <1>26, <1>27, <1>28, <1>29, <1>30, <1>31, <1>32, <1>33, <1>34, <1>35
  DEF Next, WorkerStep, Environment, CtlStep, ResumeStep, CancelStep

\* Every variable keeps its type, whatever workers and commands do.
THEOREM TypeCorrect == Spec => []TypeOK
  BY TypeInit, TypeNext, PTL DEF Spec

-----------------------------------------------------------------------------
(* Attempts are numbered as they are made, and the journal, the attempt    *)
(* table and the leases agree on which of them published.                  *)

\* The attempts of a stage are numbered 1, 2, ... without a gap, so the number
\* lease_next takes (COUNT(*) + 1) is a new one.
Made(i)  == {a \in AttemptsOf(i) : attempt[a] # "absent"}
Numbered == \A i \in Item : Made(i) = {<<i[1], i[2], n>> : n \in 1..Tried(i)}

\* The attempts a command still has before it.
Before(c) == ctl[c].todo \cup ctl[c].cur

\* What there is of an attempt exists only once its row does.
Unmade ==
  /\ \A a \in Attempt : attempt[a] = "absent" =>
       lease[a] = "none" /\ commit[a] = "none" /\ worker[a] = "off"
  /\ \A c \in Ctl : \A a \in Before(c) : attempt[a] # "absent"

\* Publishing gives the lease back, so nobody can act on a published attempt.
Closed == \A a \in Attempt : commit[a] = "committed" => lease[a] = "none"

Journal == Unmade /\ Closed /\ SucceededIffCommitted

\* What every step but lease_next keeps: no lease row appears, no attempt
\* appears or disappears, a publication stays, and only a publication makes a
\* stage succeed.
Kept ==
  /\ \A a \in Attempt : lease'[a] # "none" => lease[a] # "none"
  /\ \A a \in Attempt : attempt'[a] = "absent" <=> attempt[a] = "absent"
  /\ \A a \in Attempt : commit[a] = "committed" => commit'[a] = "committed" /\ attempt'[a] = "succeeded"
  /\ \A i \in Item : stage'[i] = "succeeded" =>
       stage[i] = "succeeded" \/ \E a \in AttemptsOf(i) : commit'[a] = "committed"

\* Without a decided review, refreshing makes no stage succeed.
LEMMA RefreshAddsNoSuccess ==
  ASSUME NEW st \in Table, NEW i \in Item, RefreshAll(st)[i] = "succeeded"
  PROVE  st[i] = "succeeded"
<1>1. ASSUME NEW x \in Table, RefreshOnce(x, NoReview)[i] = "succeeded" PROVE x[i] = "succeeded"
  <2>1. NoReview[i[1]] = "none"
    BY ItemFacts DEF NoReview
  <2>2. RefreshOnce(x, NoReview)[i] = Unblocked(x, NoReview, i)
    BY DEF RefreshOnce
  <2> QED BY <1>1, <2>1, <2>2 DEF Unblocked, GateState
<1>2. RefreshOnce(st, NoReview) \in Table
  <2>1. ASSUME NEW j \in Item PROVE Unblocked(st, NoReview, j) \in StageState
    <3>1. NoReview[j[1]] = "none"
      BY ItemFacts DEF NoReview
    <3> QED BY <3>1 DEF Unblocked, GateState, StageState, Table, TerminalStates, ActiveStates
  <2> QED BY <2>1 DEF RefreshOnce, Table
<1> QED BY <1>1, <1>2 DEF RefreshAll, Refreshed

\* Neither does updating the aggregate status, ...
LEMMA AggregateAddsNoSuccess ==
  ASSUME NEW st \in Table, Aggregate(st), NEW i \in Item, stage'[i] = "succeeded"
  PROVE  st[i] = "succeeded"
BY DEF Aggregate, EvaluationSkipped, Table

\* ... nor ending a stage.
LEMMA EndedAddsNoSuccess ==
  ASSUME NEW st \in Table, NEW j \in Item, NEW s \in StageState, s # "succeeded",
         NEW i \in Item, Ended(st, j, s)[i] = "succeeded"
  PROVE  st[i] = "succeeded"
BY DEF Ended, Routed, Table

LEMMA CtlShrinks ==
  ASSUME ctl \in [Ctl -> CtlState], NEW c \in Ctl
  PROVE  /\ CurrentDone(c) => \A d \in Ctl : Before(d)' \subseteq Before(d)
         /\ \A pc : Step(c, pc) => \A d \in Ctl : Before(d)' \subseteq Before(d)
         /\ \A pc : Pick(c, pc) => \A d \in Ctl : Before(d)' \subseteq Before(d)
<1>1. /\ ctl[c] = [op |-> ctl[c].op, todo |-> ctl[c].todo, cur |-> ctl[c].cur, pc |-> ctl[c].pc, clean |-> ctl[c].clean]
      /\ ctl[c].todo \in SUBSET Attempt /\ ctl[c].cur \in SUBSET Attempt
  BY DEF CtlState
<1>2. CurrentDone(c) => \A d \in Ctl : Before(d)' \subseteq Before(d)
  BY <1>1 DEF CurrentDone, Working, Before
<1>3. ASSUME NEW pc, Step(c, pc) PROVE \A d \in Ctl : Before(d)' \subseteq Before(d)
  BY <1>1, <1>3 DEF Step, Before, CtlState
<1>4. ASSUME NEW pc, Pick(c, pc) PROVE \A d \in Ctl : Before(d)' \subseteq Before(d)
  <2>1. PICK a \in ctl[c].todo :
          ctl' = [ctl EXCEPT ![c].todo = @ \ {a}, ![c].cur = {a}, ![c].pc = pc]
    BY <1>4 DEF Pick
  <2> QED BY <1>1, <2>1 DEF Before, CtlState
<1> QED BY <1>2, <1>3, <1>4

-----------------------------------------------------------------------------
(* Every action but lease_next.                                               *)

LEMMA StepKeeps ==
  ASSUME TypeOK, Journal, [Next]_vars, \A i \in Item : ~LeaseNext(i)
  PROVE  Journal' /\ Kept
<1> USE DEF TypeOK, Journal, Unmade, Closed, SucceededIffCommitted, Kept
<1>t. stage \in Table
  BY DEF Table
<1>i. \A a \in Attempt : ItemOf(a) \in Item /\ a \in AttemptsOf(ItemOf(a))
  BY ItemFacts DEF AttemptsOf
<1>b. \A d \in Ctl : Before(d) \subseteq Attempt
  BY DEF Before, CtlState
\* Steps that only move a worker, a process or a command.
<1>1. ASSUME NEW a \in Attempt, Spawn(a) PROVE Journal' /\ Kept
  BY <1>1 DEF Spawn, Before
<1>2. ASSUME NEW a \in Attempt, ProcessExits(a) PROVE Journal' /\ Kept
  BY <1>2 DEF ProcessExits, Before
<1>3. ASSUME NEW a \in Attempt, Fenced(a) PROVE Journal' /\ Kept
  BY <1>3 DEF Fenced, Before
<1>4. ASSUME NEW a \in Attempt, WorkerDies(a) PROVE Journal' /\ Kept
  BY <1>4 DEF WorkerDies, Before
<1>5. ASSUME NEW a \in Attempt, WorkerGivesUp(a) PROVE Journal' /\ Kept
  BY <1>5 DEF WorkerGivesUp, Before
<1>6. ASSUME NEW a \in Attempt, Expire(a) PROVE Journal' /\ Kept
  BY <1>6 DEF Expire, Before
<1>7. ASSUME NEW a \in Attempt, MarkRunning(a) PROVE Journal' /\ Kept
  BY <1>7 DEF MarkRunning, RequireLease, Before
<1>8. ASSUME NEW a \in Attempt, Prepare(a) PROVE Journal' /\ Kept
  BY <1>8 DEF Prepare, RequireLease, Before
<1>9. ASSUME NEW a \in Attempt, WorkerPublish(a) PROVE Journal' /\ Kept
  BY <1>9 DEF WorkerPublish, MarkPublished, Before
<1>fin. ASSUME NEW a \in Attempt, attempt[a] # "absent", Finalize(a)
       PROVE  /\ \A i \in Item : stage'[i] = "succeeded" =>
                   stage[i] = "succeeded" \/ \E b \in AttemptsOf(i) : commit'[b] = "committed"
              /\ \A b \in Attempt : b # a =>
                   commit'[b] = commit[b] /\ attempt'[b] = attempt[b] /\ lease'[b] = lease[b]
              /\ commit'[a] = "committed" /\ attempt'[a] = "succeeded" /\ lease'[a] = "none"
  <2> DEFINE st == [stage EXCEPT ![ItemOf(a)] = "succeeded"]
  <2>1. st \in Table
    BY DEF Table, StageState, TerminalStates
  <2>2. Aggregate(RefreshAll(st))
    BY <1>fin DEF Finalize
  <2>3. commit'[a] = "committed"
    BY <1>fin DEF Finalize
  <2>4. ASSUME NEW i \in Item, stage'[i] = "succeeded"
        PROVE  stage[i] = "succeeded" \/ \E b \in AttemptsOf(i) : commit'[b] = "committed"
    <3>1. RefreshAll(st) \in Table
      BY <2>1, RefreshAllType
    <3>2. RefreshAll(st)[i] = "succeeded"
      BY <2>2, <2>4, <3>1, AggregateAddsNoSuccess
    <3>3. st[i] = "succeeded"
      BY <2>1, <3>2, RefreshAddsNoSuccess
    <3> QED BY <1>i, <2>3, <3>3
  <2> QED BY <1>fin, <2>4 DEF Finalize
<1>10. ASSUME NEW a \in Attempt, WorkerFinalize(a) PROVE Journal' /\ Kept
  <2>1. attempt[a] # "absent"
    BY <1>10 DEF WorkerFinalize
  <2>2. UNCHANGED ctl /\ \A b \in Attempt : b # a => worker'[b] = worker[b]
    BY <1>10 DEF WorkerFinalize
  <2>3. Finalize(a)
    BY <1>10 DEF WorkerFinalize
  <2>4. Unmade'
    BY <1>b, <2>1, <2>2, <2>3, <1>fin DEF Before
  <2>5. Closed' /\ SucceededIffCommitted' /\ Kept
    BY <2>1, <2>3, <1>fin
  <2> QED BY <2>4, <2>5
<1>11. ASSUME NEW a \in Attempt, NEW failure \in Failure, Fail(a, failure) PROVE Journal' /\ Kept
  <2>1. NextState(a, failure) \in StageState /\ NextState(a, failure) # "succeeded"
    BY <1>11 DEF NextState, Failure, StageState, ActiveStates, TerminalStates, CanceledStates
  <2>2. Ended(stage, ItemOf(a), NextState(a, failure)) \in Table
    BY <1>t, <1>i, <2>1, EndedType
  <2>3. \A i \in Item : stage'[i] = "succeeded" => stage[i] = "succeeded"
    BY <1>11, <1>t, <1>i, <2>1, <2>2, AggregateAddsNoSuccess, EndedAddsNoSuccess DEF Fail
  <2>4. AttemptOutcome(NextState(a, failure)) \notin {"absent", "succeeded"}
    BY FailOutcome
  <2> QED BY <1>11, <2>3, <2>4 DEF Fail, RequireLease, Before
<1>12. ASSUME NEW c \in Ctl, Start(c) PROVE Journal' /\ Kept
  BY <1>12 DEF Start, Before
<1>13. ASSUME NEW c \in Ctl, CtlDies(c) PROVE Journal' /\ Kept
  BY <1>13 DEF CtlDies, Before, Idle, Working
<1>14. ASSUME NEW c \in Ctl, ResumeBegins(c) PROVE Journal' /\ Kept
  <2>1. \A d \in Ctl : \A a \in Before(d)' : a \in Before(d) \/ lease[a] # "none"
    BY <1>14 DEF ResumeBegins, Before, Working, Reconcilable, Unrevoked
  <2>2. \A d \in Ctl : \A a \in Before(d)' : a \in Attempt
    BY <1>14 DEF ResumeBegins, Before, Working, CtlState
  <2> QED BY <1>14, <2>1, <2>2 DEF ResumeBegins
<1>15. ASSUME NEW c \in Ctl, ReconcilePicks(c) PROVE Journal' /\ Kept
  <2>1. \A d \in Ctl : Before(d)' \subseteq Before(d)
    BY <1>15, CtlShrinks DEF ReconcilePicks
  <2> QED BY <1>15, <2>1 DEF ReconcilePicks
<1>16. ASSUME NEW c \in Ctl, NEW a \in Attempt, ReconcilePublish(c, a) PROVE Journal' /\ Kept
  <2>1. \A d \in Ctl : Before(d)' \subseteq Before(d)
    BY <1>16, CtlShrinks DEF ReconcilePublish
  <2> QED BY <1>16, <2>1 DEF ReconcilePublish, MarkPublished, Before
<1>17. ASSUME NEW c \in Ctl, NEW a \in Attempt, ReconcilePublishFails(c, a) PROVE Journal' /\ Kept
  <2>1. \A d \in Ctl : Before(d)' \subseteq Before(d)
    BY <1>17, CtlShrinks DEF ReconcilePublishFails
  <2> QED BY <1>17, <2>1 DEF ReconcilePublishFails
<1>18. ASSUME NEW c \in Ctl, NEW a \in Attempt, ReconcileFinalize(c, a) PROVE Journal' /\ Kept
  <2>1. \A d \in Ctl : Before(d)' \subseteq Before(d)
    BY <1>18, CtlShrinks DEF ReconcileFinalize
  <2>2. attempt[a] # "absent"
    BY <1>18 DEF ReconcileFinalize, Before
  <2>3. UNCHANGED worker
    BY <1>18 DEF ReconcileFinalize
  <2>4. CASE UNCHANGED <<stage, attempt, lease, commit>>
    BY <2>1, <2>3, <2>4
  <2>5. CASE Finalize(a)
    <3>1. Unmade'
      BY <1>b, <2>1, <2>2, <2>3, <2>5, <1>fin
    <3>2. Closed' /\ SucceededIffCommitted' /\ Kept
      BY <2>2, <2>5, <1>fin
    <3> QED BY <3>1, <3>2
  <2> QED BY <1>18, <2>4, <2>5 DEF ReconcileFinalize
<1>19. ASSUME NEW c \in Ctl, NEW a \in Attempt, ReconcileAborts(c, a) PROVE Journal' /\ Kept
  <2>1. \A d \in Ctl : Before(d)' \subseteq Before(d)
    BY <1>19, CtlShrinks DEF ReconcileAborts
  <2>2. attempt[a] # "absent" /\ UNCHANGED worker
    BY <1>19 DEF ReconcileAborts, Before
  <2>3. CASE commit[a] = "committed"
    BY <1>19, <2>1, <2>2, <2>3 DEF ReconcileAborts
  <2>4. CASE commit[a] # "committed"
    <3>1. /\ commit' = [commit EXCEPT ![a] = "failed"]
          /\ attempt' = [attempt EXCEPT ![a] = "failed_terminal"]
          /\ stage' = [stage EXCEPT ![ItemOf(a)] = "failed_terminal"]
          /\ lease' = DropLeasesOf(ItemOf(a), lease)
      BY <1>19, <2>4 DEF ReconcileAborts
    <3>2. \A b \in Attempt : lease'[b] \in {"none", lease[b]}
      BY <3>1 DEF DropLeasesOf
    <3>3. \A i \in Item : stage'[i] = "succeeded" => stage[i] = "succeeded"
      BY <3>1
    <3> QED BY <1>b, <2>1, <2>2, <2>4, <3>1, <3>2, <3>3
  <2> QED BY <2>3, <2>4
<1>20. ASSUME NEW c \in Ctl, RecoverBegins(c) PROVE Journal' /\ Kept
  <2>1. \A d \in Ctl : \A a \in Before(d)' : a \in Before(d) \/ lease[a] # "none"
    BY <1>20 DEF RecoverBegins, Before, Working, RanOut
  <2>2. \A d \in Ctl : \A a \in Before(d)' : a \in Attempt
    BY <1>20 DEF RecoverBegins, Before, Working, CtlState
  <2> QED BY <1>20, <2>1, <2>2 DEF RecoverBegins
<1>21. ASSUME NEW c \in Ctl, RecoverPicks(c) PROVE Journal' /\ Kept
  <2>1. \A d \in Ctl : Before(d)' \subseteq Before(d)
    BY <1>21, CtlShrinks DEF RecoverPicks
  <2> QED BY <1>21, <2>1 DEF RecoverPicks
<1>22. ASSUME NEW c \in Ctl, NEW a \in Attempt, RecoverRevokes(c, a) PROVE Journal' /\ Kept
  <2>1. \A d \in Ctl : Before(d)' \subseteq Before(d)
    BY <1>22, CtlShrinks DEF RecoverRevokes
  <2> QED BY <1>22, <2>1 DEF RecoverRevokes, RevokeLeasesOf
<1>23. ASSUME NEW c \in Ctl, NEW a \in Attempt, CleansUp(c, a) PROVE Journal' /\ Kept
  <2>1. \A d \in Ctl : Before(d)' \subseteq Before(d)
    BY <1>23 DEF CleansUp, Before, CtlState
  <2> QED BY <1>23, <2>1 DEF CleansUp
<1>24. ASSUME NEW c \in Ctl, NEW a \in Attempt, RecoverSettles(c, a) PROVE Journal' /\ Kept
  <2>1. \A d \in Ctl : Before(d)' \subseteq Before(d)
    BY <1>24, CtlShrinks DEF RecoverSettles
  <2>2. UNCHANGED <<worker, commit>>
    BY <1>24 DEF RecoverSettles
  <2>3. CASE ~IsFirstLease(a)
    BY <1>24, <2>1, <2>2, <2>3 DEF RecoverSettles
  <2>4. CASE IsFirstLease(a)
    <3>1. lease[a] # "none"
      BY <2>4 DEF IsFirstLease, HasRow
    <3>2. /\ \A b \in Attempt : b # a => attempt'[b] = attempt[b]
          /\ attempt'[a] \in {"lease_expired", "recovering"}
          /\ \A b \in Attempt : lease'[b] \in {"none", lease[b]}
          /\ \A i \in Item : stage'[i] = "succeeded" => stage[i] = "succeeded"
      BY <1>24, <2>4, <1>i DEF RecoverSettles, DropLeasesOf
    <3> QED BY <1>b, <2>1, <2>2, <3>1, <3>2
  <2> QED BY <2>3, <2>4
<1>25. ASSUME NEW c \in Ctl, RecoverEnds(c) PROVE Journal' /\ Kept
  <2>1. \A d \in Ctl : Before(d)' \subseteq Before(d)
    BY <1>25 DEF RecoverEnds, Before, Working, Idle, CtlState
  <2>2. \A i \in Item : stage'[i] = "succeeded" => stage[i] = "succeeded"
    BY <1>25, <1>t, AggregateAddsNoSuccess DEF RecoverEnds
  <2> QED BY <1>25, <2>1, <2>2 DEF RecoverEnds
<1>26. ASSUME NEW c \in Ctl, Refresh(c) PROVE Journal' /\ Kept
  <2>1. \A d \in Ctl : Before(d)' \subseteq Before(d)
    BY <1>26 DEF Refresh, Before, Working, Idle, CtlState
  <2>2. \A i \in Item : stage'[i] = "succeeded" => stage[i] = "succeeded"
    BY <1>26, <1>t, RefreshAllType, RefreshAddsNoSuccess, AggregateAddsNoSuccess DEF Refresh
  <2> QED BY <1>26, <2>1, <2>2 DEF Refresh
<1>27. ASSUME NEW c \in Ctl, NEW T \in SUBSET Task, CancelBegins(c, T) PROVE Journal' /\ Kept
  <2>1. \A d \in Ctl : \A a \in Before(d)' : a \in Before(d) \/ lease[a] # "none"
    BY <1>27 DEF CancelBegins, Before, Working, IsFirstLease, HasRow
  <2>2. \A d \in Ctl : \A a \in Before(d)' : a \in Attempt
    BY <1>27 DEF CancelBegins, Before, Working, CtlState
  <2> QED BY <1>27, <2>1, <2>2 DEF CancelBegins, RevokeLeasesOf
<1>28. ASSUME NEW c \in Ctl, CancelPicks(c) PROVE Journal' /\ Kept
  <2>1. \A d \in Ctl : Before(d)' \subseteq Before(d)
    BY <1>28, CtlShrinks DEF CancelPicks
  <2> QED BY <1>28, <2>1 DEF CancelPicks
<1>29. ASSUME NEW c \in Ctl, NEW a \in Attempt, CancelSettles(c, a) PROVE Journal' /\ Kept
  <2>1. \A d \in Ctl : Before(d)' \subseteq Before(d)
    BY <1>29, CtlShrinks DEF CancelSettles
  <2>2. UNCHANGED <<worker, commit>>
    BY <1>29 DEF CancelSettles
  <2>3. CASE ~IsFirstLease(a)
    BY <1>29, <2>1, <2>2, <2>3 DEF CancelSettles
  <2>4. CASE IsFirstLease(a)
    <3>1. lease[a] # "none"
      BY <2>4 DEF IsFirstLease, HasRow
    <3>2. /\ \A b \in Attempt : b # a => attempt'[b] = attempt[b]
          /\ attempt'[a] \in {"canceled"}
          /\ \A b \in Attempt : lease'[b] \in {"none", lease[b]}
          /\ \A i \in Item : stage'[i] = "succeeded" => stage[i] = "succeeded"
      BY <1>29, <2>4, <1>i DEF CancelSettles, DropLeasesOf
    <3> QED BY <1>b, <2>1, <2>2, <3>1, <3>2
  <2> QED BY <2>3, <2>4
<1>30. ASSUME NEW c \in Ctl, CancelEnds(c) PROVE Journal' /\ Kept
  <2>1. \A d \in Ctl : Before(d)' \subseteq Before(d)
    BY <1>30 DEF CancelEnds, Before, Working, Idle, CtlState
  <2>2. \A i \in Item : stage'[i] = "succeeded" => stage[i] = "succeeded"
    BY <1>30, <1>t, AggregateAddsNoSuccess DEF CancelEnds
  <2> QED BY <1>30, <2>1, <2>2 DEF CancelEnds
<1>31. ASSUME NEW c \in Ctl, NEW T \in SUBSET Task, NEW S \in SUBSET Stage, Retry(c, T, S) PROVE Journal' /\ Kept
  <2>1. \A i \in Item : stage'[i] = "succeeded" => stage[i] = "succeeded"
    BY <1>31 DEF Retry, Retried
  <2> QED BY <1>31, <2>1 DEF Retry, Before
<1>32. ASSUME NEW c \in Ctl, NEW a \in Attempt, Reactivate(c, a) PROVE Journal' /\ Kept
  BY <1>32 DEF Reactivate, Settleable, Before
<1>33. ASSUME NEW c \in Ctl, NEW a \in Attempt, NEW action \in {"retry", "terminal"}, Resolve(c, a, action) PROVE Journal' /\ Kept
  <2> DEFINE next == IF action = "retry" THEN "ready" ELSE "failed_terminal"
  <2>1. next \in StageState /\ next # "succeeded"
    BY DEF StageState, TerminalStates
  <2>2. Ended(stage, ItemOf(a), next) \in Table
    BY <1>t, <1>i, <2>1, EndedType
  <2>3. RefreshAll(Ended(stage, ItemOf(a), next)) \in Table
    BY <2>2, RefreshAllType
  <2>4. Aggregate(RefreshAll(Ended(stage, ItemOf(a), next)))
    BY <1>33 DEF Resolve
  <2>5. ASSUME NEW i \in Item, stage'[i] = "succeeded" PROVE stage[i] = "succeeded"
    <3>1. RefreshAll(Ended(stage, ItemOf(a), next))[i] = "succeeded"
      BY <2>3, <2>4, <2>5, AggregateAddsNoSuccess
    <3>2. Ended(stage, ItemOf(a), next)[i] = "succeeded"
      BY <2>2, <3>1, RefreshAddsNoSuccess
    <3> QED BY <1>t, <1>i, <2>1, <3>2, EndedAddsNoSuccess
  <2> QED BY <1>33, <2>5 DEF Resolve, Settleable, Before
<1>34. CASE UNCHANGED vars
  BY <1>34 DEF vars, Before
<1> QED
  BY <1>1, <1>2, <1>3, <1>4, <1>5, <1>6, <1>7, <1>8, <1>9, <1>10, <1>11, <1>12, <1>13, <1>14, <1>15, <1>16, <1>17, <1>18, <1>19, <1>20, <1>21, <1>22, <1>23, <1>24, <1>25, <1>26, <1>27, <1>28, <1>29, <1>30, <1>31, <1>32, <1>33, <1>34
  DEF Next, WorkerStep, Environment, CtlStep, ResumeStep, CancelStep

-----------------------------------------------------------------------------
(* lease_next, and the invariants of the queue.                           *)

\* The number lease_next takes belongs to no attempt yet.
LEMMA FreshAttempt ==
  ASSUME TypeOK, Numbered, NEW i \in Item
  PROVE  \A n \in 1..MaxTries : n = Tried(i) + 1 => attempt[<<i[1], i[2], n>>] = "absent"
<1> SUFFICES ASSUME NEW n \in 1..MaxTries, n = Tried(i) + 1, attempt[<<i[1], i[2], n>>] # "absent"
             PROVE  FALSE
  OBVIOUS
<1>1. <<i[1], i[2], n>> \in Made(i)
  BY ItemFacts DEF Made, AttemptsOf
<1>2. n \in 1..Tried(i)
  BY <1>1 DEF Numbered
<1>3. Tried(i) \in Nat
  BY AttemptFinite
<1> QED BY <1>2, <1>3

\* A step that makes no attempt and loses none leaves the numbers alone.
LEMMA KeptNumbers == Numbered /\ Kept => Numbered'
<1> SUFFICES ASSUME Numbered, Kept, NEW i \in Item
             PROVE  Made(i)' = {<<i[1], i[2], n>> : n \in 1..(Tried(i))'}
  BY DEF Numbered
<1>1. Made(i)' = Made(i)
  BY DEF Kept, Made, AttemptsOf
<1>2. Tried(i)' = Tried(i)
  <2>1. {a \in AttemptsOf(i) : attempt[a] # "absent"}' = {a \in AttemptsOf(i) : attempt[a] # "absent"}
    BY <1>1 DEF Made
  <2> QED BY <2>1 DEF Tried
<1> QED BY <1>1, <1>2 DEF Numbered

LEMMA LeaseNextKeeps ==
  ASSUME TypeOK, Numbered, Journal, NEW i \in Item, LeaseNext(i)
  PROVE  /\ Numbered' /\ Journal'
         /\ \A a \in Attempt : commit[a] = "committed" => commit'[a] = "committed" /\ attempt'[a] = "succeeded"
         /\ \A j \in Item : stage'[j] = "succeeded" => stage[j] = "succeeded"
<1> DEFINE n == Tried(i) + 1
           a == <<i[1], i[2], n>>
<1> USE DEF TypeOK
<1>t. stage \in Table /\ RefreshAll(stage) \in Table
  BY RefreshAllType DEF Table
<1>n. Tried(i) \in Nat
  BY AttemptFinite
<1>1. \A j \in Item : stage'[j] = "succeeded" => stage[j] = "succeeded"
  <2>1. \A j \in Item : stage'[j] = "succeeded" => RefreshAll(stage)[j] = "succeeded"
    BY <1>t DEF LeaseNext, Table
  <2> QED BY <1>t, <2>1, RefreshAddsNoSuccess
<1>2. CASE n > budget[i]
  <2>1. UNCHANGED <<attempt, lease, commit, worker, ctl>>
    BY <1>2 DEF LeaseNext
  <2>2. Made(i)' = Made(i) /\ Numbered'
    BY <2>1 DEF Numbered, Made, Tried
  <2> QED BY <1>1, <2>1, <2>2 DEF Journal, Unmade, Closed, SucceededIffCommitted, Before
<1>3. CASE ~(n > budget[i])
  <2>1. /\ n \in 1..MaxTries
        /\ attempt' = [attempt EXCEPT ![a] = "leased"]
        /\ lease' = [lease EXCEPT ![a] = "live"]
        /\ worker' = [worker EXCEPT ![a] = "exec"]
        /\ UNCHANGED <<commit, ctl>>
    BY <1>3, <1>n, SchedulerAssumption DEF LeaseNext
  <2>2. a \in Attempt /\ ItemOf(a) = i
    BY <2>1, ItemFacts
  <2>3. attempt[a] = "absent" /\ commit[a] = "none"
    BY <2>1, <2>2, FreshAttempt DEF Journal, Unmade
  <2>4. Numbered'
    <3>1. ASSUME NEW j \in Item PROVE Made(j)' = {<<j[1], j[2], m>> : m \in 1..(Tried(j))'}
      <4>1. CASE j # i
        <5>1. Made(j)' = Made(j)
          BY <2>1, <2>2, <4>1 DEF Made, AttemptsOf
        <5>2. Tried(j)' = Tried(j)
          BY <5>1 DEF Tried, Made
        <5> QED BY <5>1, <5>2 DEF Numbered
      <4>2. CASE j = i
        <5>1. Made(i)' = Made(i) \cup {a}
          BY <2>1, <2>2 DEF Made, AttemptsOf
        <5>2. a \notin Made(i) /\ IsFiniteSet(Made(i))
          <6>1. Made(i) \subseteq Attempt
            BY DEF Made, AttemptsOf
          <6> QED BY <2>3, <6>1, AttemptFinite, FS_Subset DEF Made
        <5>3. Cardinality(Made(i) \cup {a}) = Cardinality(Made(i)) + 1
          BY <5>2, FS_AddElement
        <5>4. Tried(i)' = n
          BY <5>1, <5>3 DEF Tried, Made
        <5>5. Made(i) = {<<i[1], i[2], m>> : m \in 1..Tried(i)}
          BY DEF Numbered
        <5>6. 1..n = (1..Tried(i)) \cup {n}
          BY <1>n
        <5>7. {<<i[1], i[2], m>> : m \in 1..n} = Made(i) \cup {a}
          BY <5>5, <5>6
        <5> QED BY <4>2, <5>1, <5>4, <5>7
      <4> QED BY <4>1, <4>2
    <3> QED BY <3>1 DEF Numbered
  <2>5. Journal'
    <3>1. Unmade'
      BY <2>1, <2>2, <2>3 DEF Journal, Unmade, Before
    <3>2. Closed'
      BY <2>1, <2>2, <2>3 DEF Journal, Unmade, Closed
    <3>3. SucceededIffCommitted'
      BY <2>1, <2>2, <2>3 DEF Journal, Unmade, SucceededIffCommitted
    <3> QED BY <3>1, <3>2, <3>3 DEF Journal
  <2>6. \A b \in Attempt : commit[b] = "committed" => commit'[b] = "committed" /\ attempt'[b] = "succeeded"
    BY <2>1, <2>2, <2>3 DEF Journal, SucceededIffCommitted
  <2> QED BY <1>1, <2>4, <2>5, <2>6
<1> QED BY <1>2, <1>3

-----------------------------------------------------------------------------
(* The theorems.                                                           *)

\* Attempts are numbered without gaps, and journal, attempts and leases agree:
\* the invariant the theorems below rest on.
QueueInv == TypeOK /\ Numbered /\ Journal

LEMMA QueueInit == Init => QueueInv
<1> SUFFICES ASSUME Init PROVE QueueInv
  OBVIOUS
<1>1. TypeOK
  BY TypeInit
<1>2. ASSUME NEW i \in Item PROVE Made(i) = {<<i[1], i[2], n>> : n \in 1..Tried(i)}
  <2>1. Made(i) = {}
    BY DEF Init, Made, AttemptsOf
  <2>2. Tried(i) = 0
    BY <2>1, FS_EmptySet DEF Tried, Made
  <2> QED BY <2>1, <2>2
<1>3. Journal
  BY DEF Init, Journal, Unmade, Closed, SucceededIffCommitted, Before, Idle, Working
<1> QED BY <1>1, <1>2, <1>3 DEF QueueInv, Numbered

LEMMA QueueNext == QueueInv /\ [Next]_vars => QueueInv'
<1> SUFFICES ASSUME QueueInv, [Next]_vars PROVE QueueInv'
  OBVIOUS
<1>1. TypeOK'
  BY TypeNext DEF QueueInv
<1>2. CASE \E i \in Item : LeaseNext(i)
  BY <1>1, <1>2, LeaseNextKeeps DEF QueueInv
<1>3. CASE \A i \in Item : ~LeaseNext(i)
  BY <1>1, <1>3, StepKeeps, KeptNumbers DEF QueueInv
<1> QED BY <1>2, <1>3

\* The inductive invariant: attempts are numbered without gaps, nothing exists of
\* an attempt that was never leased, a committed attempt has no lease row.
THEOREM QueueCorrect == Spec => []QueueInv
BY QueueInit, QueueNext, PTL DEF Spec

\* The artifact journal and the attempt table never disagree on what was
\* published (_finalize_artifact_commit, _fail_artifact_commit).
THEOREM JournalAgrees == Spec => []SucceededIffCommitted
<1>1. QueueInv => SucceededIffCommitted
  BY DEF QueueInv, Journal
<1> QED BY <1>1, QueueCorrect, PTL

\* No publisher, reconciler, canceler or recovery, in any number and at any
\* point of their work, takes back a published result.
THEOREM PublishedForGood == Spec => CommitIsFinal
<1>1. QueueInv /\ [Next]_vars =>
        [\A a \in Attempt : commit[a] = "committed" =>
           commit'[a] = "committed" /\ attempt'[a] = "succeeded"]_vars
  <2> SUFFICES ASSUME QueueInv, [Next]_vars, NEW a \in Attempt, commit[a] = "committed"
               PROVE  commit'[a] = "committed" /\ attempt'[a] = "succeeded"
    OBVIOUS
  <2>1. CASE \E i \in Item : LeaseNext(i)
    BY <2>1, LeaseNextKeeps DEF QueueInv
  <2>2. CASE \A i \in Item : ~LeaseNext(i)
    BY <2>2, StepKeeps DEF QueueInv, Kept
  <2> QED BY <2>1, <2>2
<1> QED BY <1>1, QueueCorrect, PTL DEF Spec, CommitIsFinal

\* A stage counts as succeeded only on the strength of a committed attempt.
THEOREM SuccessIsBacked == Spec => []SuccessBacked
<1>1. Init => SuccessBacked
  BY DEF Init, SuccessBacked
<1>2. QueueInv /\ SuccessBacked /\ [Next]_vars => SuccessBacked'
  <2> SUFFICES ASSUME QueueInv, SuccessBacked, [Next]_vars,
                      NEW i \in Item, stage'[i] = "succeeded", i[2] # Gate
               PROVE  \E a \in AttemptsOf(i) : commit'[a] = "committed"
    BY DEF SuccessBacked
  <2>1. /\ \A a \in Attempt : commit[a] = "committed" => commit'[a] = "committed"
        /\ stage[i] = "succeeded" \/ \E a \in AttemptsOf(i) : commit'[a] = "committed"
    <3>1. CASE \E j \in Item : LeaseNext(j)
      BY <3>1, LeaseNextKeeps DEF QueueInv
    <3>2. CASE \A j \in Item : ~LeaseNext(j)
      BY <3>2, StepKeeps DEF QueueInv, Kept
    <3> QED BY <3>1, <3>2
  <2>2. AttemptsOf(i) \subseteq Attempt
    BY DEF AttemptsOf
  <2> QED BY <2>1, <2>2 DEF SuccessBacked
<1> QED BY <1>1, <1>2, QueueCorrect, PTL DEF Spec

\* One more element adds at most one to the cardinality.
LEMMA OneMore ==
  ASSUME NEW S, NEW x, IsFiniteSet(S)
  PROVE  IsFiniteSet(S \cup {x}) /\ Cardinality(S \cup {x}) <= Cardinality(S) + 1
<1>1. Cardinality(S) \in Nat
  BY FS_CardinalityType
<1>2. Cardinality(S \cup {x}) = IF x \in S THEN Cardinality(S) ELSE Cardinality(S) + 1
  BY FS_AddElement
<1>3. IsFiniteSet(S \cup {x})
  BY FS_AddElement
<1> QED BY <1>1, <1>2, <1>3

\* Capacities are respected: no interleaving of workers and commands puts more
\* lease rows, revoked ones included, on a resource than it has slots.
THEOREM CapacityRespected == Spec => []ResourceExclusion
<1>f. ASSUME NEW r PROVE IsFiniteSet(Holders(r)) /\ IsFiniteSet(Holders(r)')
  <2>1. Holders(r) \subseteq Attempt /\ Holders(r)' \subseteq Attempt
    BY DEF Holders
  <2> QED BY <2>1, AttemptFinite, FS_Subset
<1>1. Init => ResourceExclusion
  <2> SUFFICES ASSUME Init, NEW r \in Resource PROVE Cardinality(Holders(r)) <= Capacity[r]
    BY DEF ResourceExclusion
  <2>1. Holders(r) = {}
    BY DEF Init, Holders, HasRow
  <2> QED BY <2>1, FS_EmptySet, SchedulerAssumption
<1>2. QueueInv /\ ResourceExclusion /\ [Next]_vars => ResourceExclusion'
  <2> SUFFICES ASSUME QueueInv, ResourceExclusion, [Next]_vars, NEW r \in Resource
               PROVE  Cardinality(Holders(r)') <= Capacity[r]
    BY DEF ResourceExclusion, Holders
  <2>n. Cardinality(Holders(r)) \in Nat /\ Cardinality(Holders(r)') \in Nat /\ Capacity[r] \in Nat
    BY <1>f, FS_CardinalityType, SchedulerAssumption
  <2>1. CASE Holders(r)' \subseteq Holders(r)
    BY <1>f, <2>1, <2>n, FS_Subset DEF ResourceExclusion
  <2>2. CASE \A i \in Item : ~LeaseNext(i)
    <3>1. Holders(r)' \subseteq Holders(r)
      BY <2>2, StepKeeps DEF QueueInv, Kept, Holders, HasRow
    <3> QED BY <2>1, <3>1
  <2>3. ASSUME NEW i \in Item, LeaseNext(i) PROVE Cardinality(Holders(r)') <= Capacity[r]
    <3> DEFINE a == <<i[1], i[2], Tried(i) + 1>>
    <3>1. \A b \in Attempt : lease'[b] # "none" => lease[b] # "none" \/ b = a
      BY <2>3 DEF LeaseNext, QueueInv, TypeOK
    <3>2. CASE r \notin Uses[i]
      <4>1. \A b \in Attempt : b = a => ItemOf(b) = i
        BY ItemFacts DEF Attempt, ItemOf
      <4>2. Holders(r)' \subseteq Holders(r)
        BY <3>1, <3>2, <4>1 DEF Holders, HasRow
      <4> QED BY <2>1, <4>2
    <3>3. CASE r \in Uses[i]
      <4>1. Cardinality(Holders(r)) < Capacity[r]
        BY <2>3, <3>3 DEF LeaseNext, Free
      <4>2. Holders(r)' \subseteq Holders(r) \cup {a}
        BY <3>1 DEF Holders, HasRow
      <4>3. IsFiniteSet(Holders(r) \cup {a}) /\ Cardinality(Holders(r) \cup {a}) <= Cardinality(Holders(r)) + 1
        BY <1>f, OneMore
      <4>4. Cardinality(Holders(r)') <= Cardinality(Holders(r) \cup {a})
        BY <4>2, <4>3, FS_Subset
      <4>5. Cardinality(Holders(r) \cup {a}) \in Nat
        BY <4>3, FS_CardinalityType
      <4> QED BY <2>n, <4>1, <4>3, <4>4, <4>5
    <3> QED BY <3>2, <3>3
  <2> QED BY <2>2, <2>3
<1> QED BY <1>1, <1>2, QueueCorrect, PTL DEF Spec

-----------------------------------------------------------------------------
(* Fencing, for the stages behind a lock.                                  *)

\* A stage behind a lock allocates a resource that one lease can have: the
\* project lock of the Unity stages, or a pool of one slot or GPU.
Locked        == {i \in Item : \E r \in Uses[i] \cap Resource : Capacity[r] = 1}
LockedAttempt == {a \in Attempt : ItemOf(a) \in Locked}

\* An attempt that ended without publishing.
Over == EndedStates \ {"succeeded"}

\* The abstract specification, for the attempts of locked stages.
LockedPublication == INSTANCE FencedPublication WITH
  Attempt <- LockedAttempt,
  Rivals  <- [a \in LockedAttempt |-> AttemptsOf(ItemOf(a))],
  holders <- {a \in LockedAttempt : Unrevoked(a)},
  outcome <- [a \in LockedAttempt |-> OutcomeOf(attempt[a])]

\* A locked stage has one lease row, revoked ones included; whoever holds it
\* unrevoked is in flight; a remote attempt with a row has not been ended.
RowInv ==
  /\ \A a, b \in LockedAttempt : HasRow(a) /\ HasRow(b) /\ ItemOf(a) = ItemOf(b) => a = b
  /\ \A a \in LockedAttempt : Unrevoked(a) => attempt[a] \in InFlight
  /\ \A a \in LockedAttempt : RemoteItem(ItemOf(a)) /\ HasRow(a) => attempt[a] \notin Over

\* The attempts whose lease a command has revoked and is going to settle.
Busy(c) ==
  IF ctl[c].op = "recover" /\ ctl[c].pc \in {"cleanup", "settle"} THEN ctl[c].cur
  ELSE IF ctl[c].op = "cancel" THEN Before(c) ELSE {}

\* As long as such an attempt has its row, it stays revoked: recover-remote does
\* not find it in recovering, and no second recovery has it.
SettlesAlone(c, a) ==
  HasRow(a) =>
    /\ lease[a] = "revoked"
    /\ ~ (stage[ItemOf(a)] = "recovering" /\ attempt[a] = "recovering")
    /\ ctl[c].op = "cancel" => ~ RemoteItem(ItemOf(a))
    /\ \A d \in Ctl : a \in Busy(d) /\ ctl[c].op = "recover" /\ ctl[d].op = "recover" => c = d
BusyInv == \A c \in Ctl : \A a \in Busy(c) \cap LockedAttempt : SettlesAlone(c, a)

FenceInv == RowInv /\ BusyInv

\* A step of fenced publication.
Fences == [LockedPublication!Next]_(LockedPublication!absvars)

\* What most steps have in common: the commands go on or end.
BusyShrinks == \A c \in Ctl : \A a \in Busy(c)' : a \in Busy(c) /\ ctl'[c].op = ctl[c].op
LEMMA LockedFacts ==
  /\ \A a \in LockedAttempt : a \in Attempt /\ ItemOf(a) \in Item /\ a \in AttemptsOf(ItemOf(a))
  /\ \A a \in LockedAttempt, b \in Attempt : ItemOf(b) = ItemOf(a) => b \in LockedAttempt
BY ItemFacts DEF LockedAttempt, AttemptsOf

LEMMA OutcomesOf ==
  /\ OutcomeOf("absent") = "new" /\ OutcomeOf("succeeded") = "published"
  /\ \A s \in Over : OutcomeOf(s) = "ended"
  /\ \A s \in InFlight \cup {"recovering"} : OutcomeOf(s) = "open"
BY DEF OutcomeOf, InFlight, Over, EndedStates

\* A step that takes authority away at most, and ends nothing.
LEMMA RevokeFences ==
  ASSUME \A a \in LockedAttempt : Unrevoked(a)' => Unrevoked(a),
         \A a \in LockedAttempt : OutcomeOf(attempt'[a]) = OutcomeOf(attempt[a])
  PROVE  Fences
<1>1. LockedPublication!Revoke
  BY DEF LockedPublication!Revoke
<1> QED BY <1>1 DEF Fences, LockedPublication!Next

\* No step below adds a lease row; those that end an attempt drop its row or
\* leave it revoked, and an attempt goes into recovering under nobody's hands.
LEMMA InvStays ==
  ASSUME FenceInv,
         \A a \in LockedAttempt : \/ lease'[a] = lease[a] \/ lease'[a] = "none"
                                  \/ lease[a] # "none" /\ lease'[a] = "revoked"
                                  \/ lease[a] = "live" /\ lease'[a] = "expired",
         \A a \in LockedAttempt : HasRow(a)' =>
           \/ attempt'[a] = attempt[a] \/ {attempt[a], attempt'[a]} \subseteq InFlight
           \/ lease'[a] = "revoked" /\ ~RemoteItem(ItemOf(a)) /\ attempt'[a] # "recovering"
           \/ lease'[a] = "revoked" /\ attempt'[a] = "recovering" /\ \A c \in Ctl : a \notin Busy(c)',
         BusyShrinks,
         \A c \in Ctl : \A a \in Busy(c)' \cap LockedAttempt :
           HasRow(a)' /\ stage'[ItemOf(a)] = "recovering" => stage[ItemOf(a)] = "recovering"
  PROVE  FenceInv'
<1>1. \A a \in LockedAttempt : (Unrevoked(a)' => Unrevoked(a)) /\ (HasRow(a)' => HasRow(a))
  BY DEF Unrevoked, HasRow
<1>2. RowInv'
  <2>1. \A a, b \in LockedAttempt : HasRow(a)' /\ HasRow(b)' /\ ItemOf(a) = ItemOf(b) => a = b
    BY <1>1 DEF FenceInv, RowInv
  <2>2. ASSUME NEW a \in LockedAttempt, Unrevoked(a)' PROVE attempt'[a] \in InFlight
    <3>1. lease'[a] # "revoked" /\ HasRow(a)' /\ attempt[a] \in InFlight
      BY <1>1, <2>2 DEF FenceInv, RowInv, Unrevoked, HasRow
    <3> QED BY <3>1
  <2>3. ASSUME NEW a \in LockedAttempt, RemoteItem(ItemOf(a)), HasRow(a)'
        PROVE  attempt'[a] \notin Over
    <3>1. attempt[a] \notin Over
      BY <1>1, <2>3 DEF FenceInv, RowInv
    <3> QED BY <2>3, <3>1 DEF InFlight, Over, EndedStates
  <2> QED BY <2>1, <2>2, <2>3 DEF RowInv
<1>3. ASSUME NEW c \in Ctl, NEW a \in Busy(c)', a \in LockedAttempt, HasRow(a)'
      PROVE  SettlesAlone(c, a)'
  <2>1. a \in Busy(c) /\ ctl'[c].op = ctl[c].op /\ HasRow(a)
    BY <1>1, <1>3 DEF BusyShrinks
  <2>2. SettlesAlone(c, a)
    BY <1>3, <2>1 DEF FenceInv, BusyInv
  <2>3. lease[a] = "revoked"
    BY <2>1, <2>2 DEF SettlesAlone
  <2>4. lease'[a] = "revoked"
    BY <1>3, <2>3 DEF HasRow
  <2>5. stage'[ItemOf(a)] = "recovering" => stage[ItemOf(a)] = "recovering"
    BY <1>3
  <2>6. attempt'[a] = "recovering" => attempt[a] = "recovering"
    BY <1>3 DEF InFlight
  <2>7. ~ (stage'[ItemOf(a)] = "recovering" /\ attempt'[a] = "recovering")
    BY <2>1, <2>2, <2>5, <2>6 DEF SettlesAlone
  <2>8. \A d \in Ctl : a \in Busy(d)' /\ ctl'[c].op = "recover" /\ ctl'[d].op = "recover" => c = d
    BY <2>1, <2>2 DEF SettlesAlone, BusyShrinks
  <2> QED BY <2>1, <2>2, <2>4, <2>7, <2>8 DEF SettlesAlone
<1>4. BusyInv'
  BY <1>3 DEF BusyInv, SettlesAlone
<1> QED BY <1>2, <1>4 DEF FenceInv

\* Steps that revoke, delete or let expire leases, and move attempts in flight.
LEMMA Quiet ==
  ASSUME FenceInv,
         \A a \in LockedAttempt : \/ lease'[a] = lease[a] \/ lease'[a] = "none"
                                  \/ lease[a] # "none" /\ lease'[a] = "revoked"
                                  \/ lease[a] = "live" /\ lease'[a] = "expired",
         \A a \in LockedAttempt : attempt'[a] = attempt[a] \/ {attempt[a], attempt'[a]} \subseteq InFlight,
         BusyShrinks,
         \A i \in Locked : stage'[i] = "recovering" => stage[i] = "recovering"
  PROVE  FenceInv' /\ Fences
<1>1. Fences
  <2>1. \A a \in LockedAttempt : Unrevoked(a)' => Unrevoked(a)
    BY DEF Unrevoked
  <2>2. \A a \in LockedAttempt : OutcomeOf(attempt'[a]) = OutcomeOf(attempt[a])
    BY OutcomesOf
  <2> QED BY <2>1, <2>2, RevokeFences
<1>2. \A a \in LockedAttempt : ItemOf(a) \in Locked
  BY DEF LockedAttempt
<1>3. FenceInv'
  BY <1>2, InvStays
<1> QED BY <1>1, <1>3

\* Steps that leave leases, attempts and stages alone.
LEMMA OnlyCommands ==
  ASSUME FenceInv, UNCHANGED <<lease, attempt, stage>>, BusyShrinks
  PROVE  FenceInv' /\ Fences
BY Quiet

\* An attempt that was made and has not succeeded ends, and with it the leases
\* of its stage or its own; the row of a local attempt may also stay, revoked.
LEMMA Ending ==
  ASSUME QueueInv, FenceInv, NEW a \in Attempt, attempt[a] \notin {"absent", "succeeded"},
         NEW s \in Over, attempt' = [attempt EXCEPT ![a] = s],
         \/ lease' = [lease EXCEPT ![a] = "none"]
         \/ lease' = DropLeasesOf(ItemOf(a), lease)
         \/ lease' = lease /\ (a \in LockedAttempt => lease[a] = "revoked" /\ ~RemoteItem(ItemOf(a))),
         BusyShrinks,
         \A i \in Locked : stage'[i] = "recovering" => stage[i] = "recovering"
  PROVE  FenceInv' /\ Fences
<1> USE DEF QueueInv, TypeOK
<1>l. \A b \in LockedAttempt : b \in Attempt /\ ItemOf(b) \in Locked
  BY DEF LockedAttempt
<1>1. \A b \in Attempt : lease'[b] \in {lease[b], "none"}
  BY DEF DropLeasesOf
<1>2. \A b \in Attempt : b # a => attempt'[b] = attempt[b]
  OBVIOUS
<1>3. attempt'[a] = s
  OBVIOUS
<1>4. a \in LockedAttempt /\ HasRow(a)' => lease'[a] = "revoked" /\ ~RemoteItem(ItemOf(a))
  BY DEF HasRow, DropLeasesOf
<1>5. FenceInv'
  <2>1. \A b \in LockedAttempt : HasRow(b)' =>
          \/ attempt'[b] = attempt[b]
          \/ lease'[b] = "revoked" /\ ~RemoteItem(ItemOf(b)) /\ attempt'[b] # "recovering"
    BY <1>l, <1>2, <1>3, <1>4 DEF Over, EndedStates
  <2>2. \A b \in LockedAttempt : lease'[b] = lease[b] \/ lease'[b] = "none"
    BY <1>l, <1>1
  <2> QED BY <1>l, <2>1, <2>2, InvStays
<1>6. Fences
  <2>1. CASE a \notin LockedAttempt
    <3>1. \A b \in LockedAttempt : Unrevoked(b)' => Unrevoked(b)
      BY <1>l, <1>1 DEF Unrevoked
    <3>2. \A b \in LockedAttempt : OutcomeOf(attempt'[b]) = OutcomeOf(attempt[b])
      BY <1>l, <1>2, <2>1
    <3> QED BY <3>1, <3>2, RevokeFences
  <2>2. CASE a \in LockedAttempt
    <3>1. OutcomeOf(attempt[a]) \in {"open", "ended"}
      BY DEF OutcomeOf, AttemptState, InFlight, EndedStates
    <3>2. \/ {b \in LockedAttempt : Unrevoked(b)'} = {b \in LockedAttempt : Unrevoked(b)} \ {a}
          \/ {b \in LockedAttempt : Unrevoked(b)'} = {b \in LockedAttempt : Unrevoked(b)} \ AttemptsOf(ItemOf(a))
      BY <1>l, <2>2 DEF Unrevoked, DropLeasesOf, AttemptsOf
    <3>3. [b \in LockedAttempt |-> OutcomeOf(attempt'[b])] =
            [[b \in LockedAttempt |-> OutcomeOf(attempt[b])] EXCEPT ![a] = "ended"]
      <4>1. \A b \in LockedAttempt : OutcomeOf(attempt'[b]) = IF b = a THEN "ended" ELSE OutcomeOf(attempt[b])
        BY OutcomesOf, <1>l, <1>2, <1>3
      <4> QED BY <2>2, <4>1
    <3>4. LockedPublication!End(a)
      BY <2>2, <3>1, <3>2, <3>3 DEF LockedPublication!End
    <3> QED BY <2>2, <3>4 DEF Fences, LockedPublication!Next
  <2> QED BY <2>1, <2>2
<1> QED BY <1>5, <1>6

\* An attempt publishes: it held an unrevoked lease, and gives it back.
LEMMA Publishing ==
  ASSUME QueueInv, FenceInv, NEW a \in Attempt, Unrevoked(a),
         attempt' = [attempt EXCEPT ![a] = "succeeded"], lease' = [lease EXCEPT ![a] = "none"],
         BusyShrinks,
         \A i \in Locked : stage'[i] = "recovering" => stage[i] = "recovering"
  PROVE  FenceInv' /\ Fences
<1> USE DEF QueueInv, TypeOK
<1>l. \A b \in LockedAttempt : b \in Attempt /\ ItemOf(b) \in Locked
  BY DEF LockedAttempt
<1>1. \A b \in Attempt : b # a => attempt'[b] = attempt[b] /\ lease'[b] = lease[b]
  OBVIOUS
<1>2. attempt'[a] = "succeeded" /\ lease'[a] = "none"
  OBVIOUS
<1>3. FenceInv'
  <2>1. \A b \in LockedAttempt : HasRow(b)' => attempt'[b] = attempt[b]
    BY <1>l, <1>1, <1>2 DEF HasRow
  <2>2. \A b \in LockedAttempt : lease'[b] = lease[b] \/ lease'[b] = "none"
    BY <1>l, <1>1, <1>2
  <2> QED BY <1>l, <2>1, <2>2, InvStays
<1>4. Fences
  <2>1. CASE a \notin LockedAttempt
    <3>1. \A b \in LockedAttempt : attempt'[b] = attempt[b] /\ lease'[b] = lease[b]
      BY <1>l, <1>1, <2>1
    <3> QED BY <3>1, RevokeFences DEF Unrevoked
  <2>2. CASE a \in LockedAttempt
    <3>1. attempt[a] \in InFlight
      BY <2>2 DEF FenceInv, RowInv
    <3>2. OutcomeOf(attempt[a]) = "open"
      BY <3>1, OutcomesOf
    <3>3. {b \in LockedAttempt : Unrevoked(b)'} = {b \in LockedAttempt : Unrevoked(b)} \ {a}
      BY <1>l, <1>1, <1>2 DEF Unrevoked
    <3>4. [b \in LockedAttempt |-> OutcomeOf(attempt'[b])] =
            [[b \in LockedAttempt |-> OutcomeOf(attempt[b])] EXCEPT ![a] = "published"]
      <4>1. \A b \in LockedAttempt : OutcomeOf(attempt'[b]) = IF b = a THEN "published" ELSE OutcomeOf(attempt[b])
        BY OutcomesOf, <1>l, <1>1, <1>2
      <4> QED BY <2>2, <4>1
    <3>5. LockedPublication!Publish(a)
      BY <2>2, <3>2, <3>3, <3>4 DEF LockedPublication!Publish
    <3> QED BY <2>2, <3>5 DEF Fences, LockedPublication!Next
  <2> QED BY <2>1, <2>2
<1> QED BY <1>3, <1>4

\* An attempt gets an unrevoked lease: no other attempt of its stage has a row,
\* and no command is going to settle it.
LEMMA Granting ==
  ASSUME QueueInv, FenceInv, NEW a \in Attempt, attempt[a] \in {"absent", "recovering"},
         a \in LockedAttempt =>
           /\ \A b \in AttemptsOf(ItemOf(a)) : b # a => ~HasRow(b)
           /\ ~Unrevoked(a) /\ \A c \in Ctl : a \notin Busy(c),
         attempt' = [attempt EXCEPT ![a] = "leased"], lease' = [lease EXCEPT ![a] = "live"], UNCHANGED ctl,
         \A i \in Locked : stage'[i] = "recovering" => stage[i] = "recovering"
  PROVE  FenceInv' /\ Fences
<1> USE DEF QueueInv, TypeOK
<1>l. \A b \in LockedAttempt : b \in Attempt /\ ItemOf(b) \in Locked /\ b \in AttemptsOf(ItemOf(b))
  BY DEF LockedAttempt, AttemptsOf
<1>1. \A b \in Attempt : b # a => attempt'[b] = attempt[b] /\ lease'[b] = lease[b]
  OBVIOUS
<1>2. attempt'[a] = "leased" /\ lease'[a] = "live"
  OBVIOUS
<1>c. \A c \in Ctl : Busy(c)' = Busy(c)
  BY DEF Busy, Before
<1>3. CASE a \notin LockedAttempt
  <2>1. \A b \in LockedAttempt : attempt'[b] = attempt[b] /\ lease'[b] = lease[b]
    BY <1>l, <1>1, <1>3
  <2>2. BusyShrinks
    BY <1>c DEF BusyShrinks
  <2> QED BY <2>1, <2>2, Quiet
<1>4. CASE a \in LockedAttempt
  <2>1. RowInv'
    <3>1. \A b \in LockedAttempt : HasRow(b)' => b = a \/ HasRow(b)
      BY <1>l, <1>1 DEF HasRow
    <3>2. \A b \in LockedAttempt : ItemOf(b) = ItemOf(a) /\ b # a => ~HasRow(b)
      BY <1>l, <1>4 DEF AttemptsOf
    <3>3. \A b, d \in LockedAttempt : HasRow(b)' /\ HasRow(d)' /\ ItemOf(b) = ItemOf(d) => b = d
      BY <3>1, <3>2 DEF FenceInv, RowInv
    <3>4. \A b \in LockedAttempt : Unrevoked(b)' => attempt'[b] \in InFlight
      BY <1>l, <1>1, <1>2 DEF FenceInv, RowInv, Unrevoked, InFlight
    <3>5. \A b \in LockedAttempt : RemoteItem(ItemOf(b)) /\ HasRow(b)' => attempt'[b] \notin Over
      BY <1>l, <1>1, <1>2 DEF FenceInv, RowInv, HasRow, Over, EndedStates
    <3> QED BY <3>3, <3>4, <3>5 DEF RowInv
  <2>2. BusyInv'
    <3> SUFFICES ASSUME NEW c \in Ctl, NEW b \in Busy(c)', b \in LockedAttempt, HasRow(b)'
                 PROVE  SettlesAlone(c, b)'
      BY DEF BusyInv, SettlesAlone
    <3>1. b \in Busy(c) /\ b # a
      BY <1>4, <1>c
    <3>2. lease'[b] = lease[b] /\ attempt'[b] = attempt[b] /\ HasRow(b)
      BY <1>l, <1>1, <3>1 DEF HasRow
    <3>3. SettlesAlone(c, b)
      BY <3>1 DEF FenceInv, BusyInv
    <3> QED BY <1>c, <1>l, <3>2, <3>3 DEF SettlesAlone
  <2>3. Fences
    <3>1. OutcomeOf(attempt[a]) \in {"new", "open"}
      BY OutcomesOf
    <3>2. {b \in LockedAttempt : Unrevoked(b)} \cap AttemptsOf(ItemOf(a)) = {}
      BY <1>4 DEF Unrevoked, HasRow
    <3>3. {b \in LockedAttempt : Unrevoked(b)'} = {b \in LockedAttempt : Unrevoked(b)} \cup {a}
      BY <1>l, <1>1, <1>2, <1>4 DEF Unrevoked
    <3>4. [b \in LockedAttempt |-> OutcomeOf(attempt'[b])] =
            [[b \in LockedAttempt |-> OutcomeOf(attempt[b])] EXCEPT ![a] = "open"]
      <4>1. \A b \in LockedAttempt : OutcomeOf(attempt'[b]) = IF b = a THEN "open" ELSE OutcomeOf(attempt[b])
        BY OutcomesOf, <1>l, <1>1, <1>2 DEF InFlight
      <4> QED BY <1>4, <4>1
    <3>5. LockedPublication!Grant(a)
      BY <1>4, <3>1, <3>2, <3>3, <3>4 DEF LockedPublication!Grant
    <3> QED BY <1>4, <3>5 DEF Fences, LockedPublication!Next
  <2> QED BY <2>1, <2>2, <2>3 DEF FenceInv
<1> QED BY <1>3, <1>4

\* An open attempt goes into recovering, its lease revoked, and no command has
\* it in hand.
LEMMA Recovering ==
  ASSUME QueueInv, FenceInv, NEW a \in Attempt, HasRow(a),
         a \in LockedAttempt =>
           OutcomeOf(attempt[a]) = "open" /\ \A c \in Ctl : a \notin Busy(c)',
         attempt' = [attempt EXCEPT ![a] = "recovering"], lease' = [lease EXCEPT ![a] = "revoked"],
         BusyShrinks,
         \A i \in Item : stage'[i] = "recovering" => stage[i] = "recovering" \/ i = ItemOf(a)
  PROVE  FenceInv' /\ Fences
<1> USE DEF QueueInv, TypeOK
<1>l. \A b \in LockedAttempt : b \in Attempt /\ ItemOf(b) \in Locked /\ ItemOf(b) \in Item
  BY DEF LockedAttempt, Locked
<1>1. \A b \in Attempt : b # a => attempt'[b] = attempt[b] /\ lease'[b] = lease[b]
  OBVIOUS
<1>2. attempt'[a] = "recovering" /\ lease'[a] = "revoked" /\ lease[a] # "none"
  BY DEF HasRow
<1>3. FenceInv'
  <2>1. \A b \in LockedAttempt : lease'[b] = lease[b] \/ (lease[b] # "none" /\ lease'[b] = "revoked")
    BY <1>l, <1>1, <1>2
  <2>2. \A b \in LockedAttempt : HasRow(b)' =>
          \/ attempt'[b] = attempt[b]
          \/ lease'[b] = "revoked" /\ attempt'[b] = "recovering" /\ \A c \in Ctl : b \notin Busy(c)'
    BY <1>l, <1>1, <1>2
  <2>3. \A c \in Ctl : \A b \in Busy(c)' \cap LockedAttempt :
          HasRow(b)' /\ stage'[ItemOf(b)] = "recovering" => stage[ItemOf(b)] = "recovering"
    <3> SUFFICES ASSUME NEW c \in Ctl, NEW b \in Busy(c)', b \in LockedAttempt, HasRow(b)',
                        stage'[ItemOf(b)] = "recovering", stage[ItemOf(b)] # "recovering"
                 PROVE  FALSE
      OBVIOUS
    <3>1. ItemOf(b) = ItemOf(a) /\ HasRow(b)
      BY <1>l, <2>1 DEF HasRow
    <3>2. a \in LockedAttempt
      BY <1>l, <3>1 DEF LockedAttempt
    <3>3. a = b
      BY <3>1, <3>2 DEF FenceInv, RowInv
    <3> QED BY <3>2, <3>3
  <2> QED BY <2>1, <2>2, <2>3, InvStays
<1>4. Fences
  <2>1. \A b \in LockedAttempt : Unrevoked(b)' => Unrevoked(b)
    BY <1>l, <1>1, <1>2 DEF Unrevoked
  <2>2. \A b \in LockedAttempt : OutcomeOf(attempt'[b]) = OutcomeOf(attempt[b])
    BY <1>l, <1>1, <1>2, OutcomesOf
  <2> QED BY <2>1, <2>2, RevokeFences
<1> QED BY <1>3, <1>4

\* A command revokes leases and takes some of the attempts in hand.
LEMMA Revoking ==
  ASSUME QueueInv, FenceInv, NEW c \in Ctl,
         \A a \in LockedAttempt : lease'[a] = lease[a] \/ (lease[a] # "none" /\ lease'[a] = "revoked"),
         UNCHANGED attempt,
         \A d \in Ctl : d # c => ctl'[d] = ctl[d],
         \A i \in Locked : stage'[i] = "recovering" => stage[i] = "recovering",
         \A a \in Busy(c)' \cap LockedAttempt : HasRow(a)' =>
           /\ lease'[a] = "revoked"
           /\ ~ (stage'[ItemOf(a)] = "recovering" /\ attempt[a] = "recovering")
           /\ ctl'[c].op = "cancel" => ~ RemoteItem(ItemOf(a))
           /\ ctl'[c].op = "recover" => Unrevoked(a)
  PROVE  FenceInv' /\ Fences
<1>l. \A b \in LockedAttempt : b \in Attempt /\ ItemOf(b) \in Locked
  BY DEF LockedAttempt
<1>1. \A a \in LockedAttempt : (Unrevoked(a)' => Unrevoked(a)) /\ (HasRow(a)' => HasRow(a))
  BY DEF Unrevoked, HasRow
<1>2. RowInv'
  BY <1>1 DEF FenceInv, RowInv
<1>3. \A d \in Ctl : d # c => Busy(d)' = Busy(d)
  BY DEF Busy, Before
<1>4. ASSUME NEW a \in Busy(c)', a \in LockedAttempt, HasRow(a)', ctl'[c].op = "recover",
             NEW d \in Ctl, d # c
      PROVE  a \notin Busy(d)'
  <2>1. Unrevoked(a) /\ HasRow(a)
    BY <1>1, <1>4
  <2>2. a \notin Busy(d)
    BY <1>4, <2>1 DEF FenceInv, BusyInv, SettlesAlone, Unrevoked
  <2> QED BY <1>3, <1>4, <2>2
<1>5. ASSUME NEW d \in Ctl, NEW a \in Busy(d)', a \in LockedAttempt, HasRow(a)'
      PROVE  SettlesAlone(d, a)'
  <2>1. CASE d = c
    BY <1>4, <1>5, <2>1 DEF SettlesAlone
  <2>2. CASE d # c
    <3>1. a \in Busy(d) /\ HasRow(a) /\ ctl'[d] = ctl[d]
      BY <1>1, <1>3, <1>5, <2>2
    <3>2. SettlesAlone(d, a)
      BY <1>5, <3>1 DEF FenceInv, BusyInv
    <3>3. \A e \in Ctl : a \in Busy(e)' /\ ctl'[d].op = "recover" /\ ctl'[e].op = "recover" => d = e
      <4>1. ASSUME NEW e \in Ctl, a \in Busy(e)', ctl'[d].op = "recover", ctl'[e].op = "recover" PROVE d = e
        <5>1. CASE e = c
          BY <1>4, <1>5, <2>2, <4>1, <5>1
        <5>2. CASE e # c
          BY <1>3, <3>1, <3>2, <4>1, <5>2 DEF SettlesAlone
        <5> QED BY <5>1, <5>2
      <4> QED BY <4>1
    <3>4. lease'[a] = "revoked"
      BY <1>5, <3>1, <3>2 DEF SettlesAlone
    <3>5. ~ (stage'[ItemOf(a)] = "recovering" /\ attempt'[a] = "recovering")
      BY <1>l, <1>5, <3>1, <3>2 DEF SettlesAlone
    <3> QED BY <3>1, <3>2, <3>3, <3>4, <3>5 DEF SettlesAlone
  <2> QED BY <2>1, <2>2
<1>6. BusyInv'
  BY <1>5 DEF BusyInv, SettlesAlone
<1>7. Fences
  BY <1>1, RevokeFences
<1> QED BY <1>2, <1>6, <1>7 DEF FenceInv

\* Refreshing, updating the aggregate and retrying bring no stage into recovering.
LEMMA RefreshAddsNoRecovering ==
  ASSUME NEW st \in Table, NEW i \in Item, RefreshAll(st)[i] = "recovering"
  PROVE  st[i] = "recovering"
<1>1. ASSUME NEW x \in Table, RefreshOnce(x, NoReview)[i] = "recovering" PROVE x[i] = "recovering"
  <2>1. NoReview[i[1]] = "none"
    BY ItemFacts DEF NoReview
  <2>2. RefreshOnce(x, NoReview)[i] = Unblocked(x, NoReview, i)
    BY DEF RefreshOnce
  <2> QED BY <1>1, <2>1, <2>2 DEF Unblocked, GateState
<1>2. RefreshOnce(st, NoReview) \in Table
  <2>1. ASSUME NEW j \in Item PROVE Unblocked(st, NoReview, j) \in StageState
    <3>1. NoReview[j[1]] = "none"
      BY ItemFacts DEF NoReview
    <3> QED BY <3>1 DEF Unblocked, GateState, StageState, Table, TerminalStates, ActiveStates
  <2> QED BY <2>1 DEF RefreshOnce, Table
<1> QED BY <1>1, <1>2 DEF RefreshAll, Refreshed

LEMMA AggregateAddsNoRecovering ==
  ASSUME NEW st \in Table, Aggregate(st), NEW i \in Item, stage'[i] = "recovering"
  PROVE  st[i] = "recovering"
BY DEF Aggregate, EvaluationSkipped, Table

LEMMA EndedAddsNoRecovering ==
  ASSUME NEW st \in Table, NEW j \in Item, NEW s \in StageState,
         NEW i \in Item, Ended(st, j, s)[i] = "recovering"
  PROVE  st[i] = "recovering" \/ (i = j /\ s = "recovering")
<1>1. ASSUME NEW x, Routed(x, j)[i] = "recovering" PROVE x[i] = "recovering"
  BY <1>1 DEF Routed
<1>2. [st EXCEPT ![j] = s][i] = "recovering"
  BY <1>1 DEF Ended
<1> QED BY <1>2 DEF Table

\* The commands that go on to the next step or attempt; only a recovery that has
\* revoked and a cancel that has begun take attempts in hand.
LEMMA BusyMoves ==
  ASSUME ctl \in [Ctl -> CtlState], NEW c \in Ctl
  PROVE  /\ UNCHANGED ctl => BusyShrinks
         /\ CurrentDone(c) => BusyShrinks /\ (ctl[c].op = "recover" => Busy(c)' = {})
         /\ \A pc \in {"finalize", "abort"} : Step(c, pc) => BusyShrinks
         /\ \A pc \in {"publish", "revoke", "cleanup"} :
              Pick(c, pc) /\ (pc = "cleanup" => ctl[c].op = "cancel") => BusyShrinks
         /\ \A op \in {"idle", "reconcile", "recover", "refresh"}, todo \in SUBSET Attempt :
              ctl' = [ctl EXCEPT ![c] = Working(op, todo)] => BusyShrinks
<1>1. /\ ctl[c] = [op |-> ctl[c].op, todo |-> ctl[c].todo, cur |-> ctl[c].cur, pc |-> ctl[c].pc, clean |-> ctl[c].clean]
      /\ ctl[c].todo \in SUBSET Attempt /\ ctl[c].cur \in SUBSET Attempt
  BY DEF CtlState
<1>2. UNCHANGED ctl => BusyShrinks
  BY DEF BusyShrinks, Busy, Before
<1>3. CurrentDone(c) => BusyShrinks /\ (ctl[c].op = "recover" => Busy(c)' = {})
  BY <1>1 DEF CurrentDone, Working, BusyShrinks, Busy, Before
<1>4. ASSUME NEW pc \in {"finalize", "abort"}, Step(c, pc) PROVE BusyShrinks
  BY <1>1, <1>4 DEF Step, BusyShrinks, Busy, Before, CtlState
<1>5. ASSUME NEW pc \in {"publish", "revoke", "cleanup"}, Pick(c, pc), pc = "cleanup" => ctl[c].op = "cancel"
      PROVE  BusyShrinks
  <2>1. PICK a \in ctl[c].todo :
          ctl' = [ctl EXCEPT ![c].todo = @ \ {a}, ![c].cur = {a}, ![c].pc = pc]
    BY <1>5 DEF Pick
  <2>2. \A d \in Ctl : d # c => ctl'[d] = ctl[d]
    BY <2>1
  <2>3. ctl'[c] = [op |-> ctl[c].op, todo |-> ctl[c].todo \ {a}, cur |-> {a}, pc |-> pc, clean |-> ctl[c].clean]
    BY <1>1, <2>1
  <2>4. \A b \in Busy(c)' : b \in Busy(c)
    BY <1>5, <2>3 DEF Busy, Before
  <2>5. \A d \in Ctl : d # c => Busy(d)' = Busy(d)
    BY <2>2 DEF Busy, Before
  <2> QED BY <2>2, <2>3, <2>4, <2>5 DEF BusyShrinks
<1>6. ASSUME NEW op \in {"idle", "reconcile", "recover", "refresh"}, NEW todo \in SUBSET Attempt,
             ctl' = [ctl EXCEPT ![c] = Working(op, todo)]
      PROVE  BusyShrinks
  <2>1. \A d \in Ctl : d # c => ctl'[d] = ctl[d]
    BY <1>6
  <2>2. ctl'[c] = [op |-> op, todo |-> todo, cur |-> {}, pc |-> "next", clean |-> TRUE]
    BY <1>6 DEF Working
  <2>3. Busy(c)' = {}
    BY <2>2 DEF Busy, Before
  <2>4. \A d \in Ctl : d # c => Busy(d)' = Busy(d)
    BY <2>1 DEF Busy, Before
  <2> QED BY <2>1, <2>3, <2>4 DEF BusyShrinks
<1> QED BY <1>2, <1>3, <1>4, <1>5, <1>6

LEMMA FenceInit == Init => FenceInv /\ LockedPublication!Init
BY DEF Init, FenceInv, RowInv, BusyInv, SettlesAlone, Busy, Before, Idle, Working, HasRow, Unrevoked,
       LockedPublication!Init, OutcomeOf, InFlight, LockedAttempt, Over, EndedStates

\* Every step is one of fenced publication, or leaves it alone.
LEMMA FenceNext == QueueInv /\ FenceInv /\ [Next]_vars => FenceInv' /\ Fences
<1> SUFFICES ASSUME QueueInv, FenceInv, [Next]_vars PROVE FenceInv' /\ Fences
  OBVIOUS
<1> USE DEF QueueInv, TypeOK
<1>t. stage \in Table
  BY DEF Table
<1>i. /\ \A a \in Attempt : ItemOf(a) \in Item /\ a \in AttemptsOf(ItemOf(a))
      /\ \A a \in LockedAttempt : a \in Attempt /\ ItemOf(a) \in Locked /\ ItemOf(a) \in Item
      /\ \A i \in Locked : i \in Item
  BY ItemFacts DEF AttemptsOf, LockedAttempt, Locked
<1>c. UNCHANGED ctl => BusyShrinks
  BY DEF BusyShrinks, Busy, Before
\* An attempt with a row was made and has not succeeded.
<1>o. \A a \in Attempt : HasRow(a) => attempt[a] \notin {"absent", "succeeded"}
  BY DEF HasRow, Journal, Unmade, Closed, SucceededIffCommitted
<1>b. \A c \in Ctl : \A a \in Before(c) : a \in Attempt /\ attempt[a] # "absent"
  BY DEF Journal, Unmade, Before, CtlState
\* Steps that leave leases, attempts and stages alone.
<1>1. ASSUME NEW a \in Attempt,
             Spawn(a) \/ ProcessExits(a) \/ Fenced(a) \/ WorkerDies(a) \/ WorkerGivesUp(a) \/ WorkerPublish(a)
      PROVE  FenceInv' /\ Fences
  BY <1>1, <1>c, OnlyCommands
     DEF Spawn, ProcessExits, Fenced, WorkerDies, WorkerGivesUp, WorkerPublish
<1>2. ASSUME NEW a \in Attempt, Expire(a) PROVE FenceInv' /\ Fences
  <2>1. \A b \in LockedAttempt : lease'[b] = lease[b] \/ (lease[b] = "live" /\ lease'[b] = "expired")
    BY <1>2, <1>i DEF Expire
  <2> QED BY <1>2, <1>c, <2>1, Quiet DEF Expire
<1>3. ASSUME NEW a \in Attempt, MarkRunning(a) \/ Prepare(a) PROVE FenceInv' /\ Fences
  <2>1. UNCHANGED <<lease, ctl>> /\ \E s \in {"running", "committing"} :
          attempt' = [attempt EXCEPT ![a] = s] /\ stage' = [stage EXCEPT ![ItemOf(a)] = s]
    BY <1>3 DEF MarkRunning, Prepare
  <2>2. a \in LockedAttempt => attempt[a] \in InFlight
    BY <1>3 DEF MarkRunning, Prepare, RequireLease, FenceInv, RowInv, Unrevoked
  <2>3. \A b \in LockedAttempt : attempt'[b] = attempt[b] \/ {attempt[b], attempt'[b]} \subseteq InFlight
    BY <1>i, <2>1, <2>2 DEF InFlight
  <2>4. \A i \in Locked : stage'[i] = "recovering" => stage[i] = "recovering"
    BY <1>i, <2>1
  <2> QED BY <1>c, <2>1, <2>3, <2>4, Quiet
<1>4. ASSUME NEW i \in Item, LeaseNext(i) PROVE FenceInv' /\ Fences
  <2> DEFINE n == Tried(i) + 1
             a == <<i[1], i[2], n>>
  <2>1. RefreshAll(stage) \in Table /\ Tried(i) \in Nat
    BY <1>t, RefreshAllType, AttemptFinite
  <2>2. \A j \in Item : stage'[j] = "recovering" => RefreshAll(stage)[j] = "recovering"
    BY <1>4, <2>1 DEF LeaseNext, Table
  <2>3. \A j \in Locked : stage'[j] = "recovering" => stage[j] = "recovering"
    BY <1>t, <1>i, <2>2, RefreshAddsNoRecovering
  <2>4. CASE n > budget[i]
    BY <1>4, <1>c, <2>3, <2>4, Quiet DEF LeaseNext
  <2>5. CASE ~(n > budget[i])
    <3>1. /\ n \in 1..MaxTries
          /\ attempt' = [attempt EXCEPT ![a] = "leased"]
          /\ lease' = [lease EXCEPT ![a] = "live"]
          /\ UNCHANGED ctl
      BY <1>4, <2>1, <2>5, SchedulerAssumption DEF LeaseNext
    <3>2. a \in Attempt /\ ItemOf(a) = i
      BY <3>1, ItemFacts
    <3>3. attempt[a] = "absent" /\ lease[a] = "none" /\ \A c \in Ctl : a \notin Busy(c)
      BY <3>1, <3>2, FreshAttempt DEF Journal, Unmade, Busy, Before
    <3>4. ASSUME a \in LockedAttempt, NEW b \in AttemptsOf(i), HasRow(b) PROVE FALSE
      <4>1. PICK r \in Uses[i] \cap Resource : Capacity[r] = 1
        BY <3>2, <3>4, <1>i DEF Locked
      <4>2. Cardinality(Holders(r)) < 1
        BY <1>4, <4>1 DEF LeaseNext, Free
      <4>3. Holders(r) \subseteq Attempt /\ IsFiniteSet(Holders(r))
        BY AttemptFinite, FS_Subset DEF Holders
      <4>4. b \in Holders(r)
        BY <3>4, <4>1 DEF Holders, AttemptsOf
      <4>5. Cardinality(Holders(r)) = 0
        BY <4>2, <4>3, FS_CardinalityType
      <4> QED BY <4>3, <4>4, <4>5, FS_EmptySet
    <3> HIDE DEF a
    <3> QED BY <2>3, <3>1, <3>2, <3>3, <3>4, Granting DEF Unrevoked
  <2> QED BY <2>4, <2>5
<1>fin. ASSUME NEW a \in Attempt, Unrevoked(a), Finalize(a), BusyShrinks PROVE FenceInv' /\ Fences
  <2> DEFINE st == [stage EXCEPT ![ItemOf(a)] = "succeeded"]
  <2>1. st \in Table
    BY DEF Table, StageState, TerminalStates
  <2>2. RefreshAll(st) \in Table /\ Aggregate(RefreshAll(st))
    BY <1>fin, <2>1, RefreshAllType DEF Finalize
  <2>3. \A i \in Locked : stage'[i] = "recovering" => st[i] = "recovering"
    BY <1>i, <2>1, <2>2, AggregateAddsNoRecovering, RefreshAddsNoRecovering
  <2>4. \A i \in Locked : stage'[i] = "recovering" => stage[i] = "recovering"
    BY <1>i, <2>3
  <2> QED BY <1>fin, <2>4, Publishing DEF Finalize
<1>5. ASSUME NEW a \in Attempt, WorkerFinalize(a) PROVE FenceInv' /\ Fences
  BY <1>5, <1>c, <1>fin DEF WorkerFinalize, RequireLease, Unrevoked
<1>6. ASSUME NEW a \in Attempt, NEW failure \in Failure, Fail(a, failure) PROVE FenceInv' /\ Fences
  <2> DEFINE state == NextState(a, failure)
  <2>1. state \in StageState
    BY <1>6 DEF NextState, Failure, StageState, ActiveStates, TerminalStates, CanceledStates
  <2>2. Ended(stage, ItemOf(a), state) \in Table
    BY <1>t, <1>i, <2>1, EndedType
  <2>3. \A i \in Item : stage'[i] = "recovering" => Ended(stage, ItemOf(a), state)[i] = "recovering"
    BY <1>6, <2>2, AggregateAddsNoRecovering DEF Fail
  <2>4. \A i \in Item : stage'[i] = "recovering" =>
          stage[i] = "recovering" \/ (i = ItemOf(a) /\ state = "recovering")
    BY <1>t, <1>i, <2>1, <2>3, EndedAddsNoRecovering
  <2>5. HasRow(a) /\ Unrevoked(a) /\ BusyShrinks
    BY <1>6, <1>c DEF Fail, RequireLease, HasRow, Unrevoked
  <2>6. CASE failure \in {"unknown", "unclean"}
    <3>1. /\ attempt' = [attempt EXCEPT ![a] = "recovering"]
          /\ lease' = [lease EXCEPT ![a] = "revoked"]
      BY <1>6, <2>6, FailOutcome DEF Fail
    <3>2. ASSUME a \in LockedAttempt, NEW c \in Ctl PROVE a \notin Busy(c)'
      <4>1. a \notin Busy(c)
        BY <2>5, <3>2 DEF FenceInv, BusyInv, SettlesAlone, Unrevoked
      <4> QED BY <2>5, <4>1 DEF BusyShrinks
    <3>3. a \in LockedAttempt => OutcomeOf(attempt[a]) = "open"
      BY <2>5, OutcomesOf DEF FenceInv, RowInv
    <3> QED BY <2>4, <2>5, <3>1, <3>2, <3>3, Recovering
  <2>7. CASE failure \notin {"unknown", "unclean"}
    <3>1. state \notin {"recovering", "recovering_other"}
      BY <2>7, FailOutcome
    <3>2. AttemptOutcome(state) \in Over
      BY <2>7, FailOutcome DEF Over
    <3>3. attempt' = [attempt EXCEPT ![a] = AttemptOutcome(state)] /\ lease' = [lease EXCEPT ![a] = "none"]
      BY <1>6, <2>7 DEF Fail
    <3>4. \A i \in Locked : stage'[i] = "recovering" => stage[i] = "recovering"
      BY <1>i, <2>4, <3>1
    <3> HIDE DEF state
    <3> QED BY <1>o, <2>5, <3>2, <3>3, <3>4, Ending
  <2> QED BY <2>6, <2>7
\* Commands that go on, or end.
<1>7. ASSUME NEW c \in Ctl,
             \/ Start(c) \/ CtlDies(c) \/ ResumeBegins(c) \/ ReconcilePicks(c) \/ RecoverBegins(c)
             \/ RecoverPicks(c) \/ CancelPicks(c)
             \/ \E a \in Attempt : ReconcilePublish(c, a) \/ ReconcilePublishFails(c, a)
      PROVE  FenceInv' /\ Fences
  <2>1. UNCHANGED <<lease, attempt, stage>>
    BY <1>7 DEF Start, CtlDies, ResumeBegins, ReconcilePicks, RecoverBegins, RecoverPicks, CancelPicks,
         ReconcilePublish, ReconcilePublishFails
  <2>2. \/ UNCHANGED ctl
        \/ \E op \in {"idle", "reconcile", "recover"}, todo \in SUBSET Attempt :
             ctl' = [ctl EXCEPT ![c] = Working(op, todo)]
        \/ \E pc \in {"publish", "revoke", "cleanup"} : Pick(c, pc) /\ (pc = "cleanup" => ctl[c].op = "cancel")
        \/ \E pc \in {"finalize", "abort"} : Step(c, pc)
    <3>1. CASE Start(c)
      BY <3>1 DEF Start
    <3>2. CASE CtlDies(c)
      BY <3>2 DEF CtlDies, Idle
    <3>3. CASE ResumeBegins(c)
      BY <3>3 DEF ResumeBegins
    <3>4. CASE RecoverBegins(c)
      BY <3>4 DEF RecoverBegins
    <3>5. CASE ReconcilePicks(c) \/ RecoverPicks(c) \/ CancelPicks(c)
      BY <3>5 DEF ReconcilePicks, RecoverPicks, CancelPicks
    <3>6. CASE \E a \in Attempt : ReconcilePublish(c, a) \/ ReconcilePublishFails(c, a)
      BY <3>6 DEF ReconcilePublish, ReconcilePublishFails
    <3> QED BY <1>7, <3>1, <3>2, <3>3, <3>4, <3>5, <3>6
  <2>3. BusyShrinks
    BY <2>2, BusyMoves
  <2> QED BY <2>1, <2>3, OnlyCommands
<1>8. ASSUME NEW c \in Ctl, NEW a \in Attempt, CleansUp(c, a) PROVE FenceInv' /\ Fences
  <2>1. BusyShrinks
    <3>1. ctl[c].pc = "cleanup" /\ \E clean \in BOOLEAN : ctl' = [ctl EXCEPT ![c].pc = "settle", ![c].clean = clean]
      <4>1. ctl' = [ctl EXCEPT ![c].pc = "settle"] =>
              ctl' = [ctl EXCEPT ![c].pc = "settle", ![c].clean = ctl[c].clean]
        BY DEF CtlState
      <4>2. ctl[c].clean \in BOOLEAN
        BY DEF CtlState
      <4> QED BY <1>8, <4>1, <4>2 DEF CleansUp
    <3> QED BY <3>1 DEF BusyShrinks, Busy, Before, CtlState
  <2> QED BY <1>8, <2>1, OnlyCommands DEF CleansUp
<1>9. ASSUME NEW c \in Ctl, NEW a \in Attempt, ReconcileFinalize(c, a) PROVE FenceInv' /\ Fences
  <2>1. BusyShrinks
    BY <1>9, BusyMoves DEF ReconcileFinalize
  <2>2. CASE UNCHANGED <<stage, attempt, lease>>
    BY <2>1, <2>2, OnlyCommands
  <2>3. CASE Unrevoked(a) /\ Finalize(a)
    BY <2>1, <2>3, <1>fin
  <2> QED BY <1>9, <2>2, <2>3 DEF ReconcileFinalize
<1>10. ASSUME NEW c \in Ctl, NEW a \in Attempt, ReconcileAborts(c, a) PROVE FenceInv' /\ Fences
  <2>1. BusyShrinks
    BY <1>10, BusyMoves DEF ReconcileAborts
  <2>2. CASE commit[a] = "committed"
    BY <1>10, <2>1, <2>2, OnlyCommands DEF ReconcileAborts
  <2>3. CASE commit[a] # "committed"
    <3>1. attempt[a] \notin {"absent", "succeeded"}
      BY <1>10, <1>b, <2>3 DEF ReconcileAborts, Before, Journal, SucceededIffCommitted
    <3>2. /\ attempt' = [attempt EXCEPT ![a] = "failed_terminal"] /\ lease' = DropLeasesOf(ItemOf(a), lease)
          /\ \A i \in Locked : stage'[i] = "recovering" => stage[i] = "recovering"
      BY <1>10, <1>i, <2>3 DEF ReconcileAborts
    <3>3. "failed_terminal" \in Over
      BY DEF Over, EndedStates
    <3> QED BY <2>1, <3>1, <3>2, <3>3, Ending
  <2> QED BY <2>2, <2>3
<1>11. ASSUME NEW c \in Ctl, NEW a \in Attempt, RecoverRevokes(c, a) PROVE FenceInv' /\ Fences
  <2>1. CASE ~(IsFirstLease(a) /\ Unrevoked(a))
    BY <1>11, <2>1, BusyMoves, OnlyCommands DEF RecoverRevokes
  <2>2. CASE IsFirstLease(a) /\ Unrevoked(a)
    <3>1. /\ lease' = RevokeLeasesOf({ItemOf(a)}, lease) /\ Step(c, "cleanup") /\ UNCHANGED <<stage, attempt>>
          /\ ctl[c].pc = "revoke" /\ ctl[c].cur = {a}
      BY <1>11, <2>2 DEF RecoverRevokes
    <3>2. /\ ctl'[c].op = ctl[c].op /\ ctl'[c].todo = ctl[c].todo /\ ctl'[c].cur = {a}
          /\ \A d \in Ctl : d # c => ctl'[d] = ctl[d]
      BY <3>1 DEF Step, CtlState
    <3>3. \A b \in LockedAttempt : lease'[b] = lease[b] \/ (lease[b] # "none" /\ lease'[b] = "revoked")
      BY <1>i, <3>1 DEF RevokeLeasesOf
    <3>4. lease'[a] = "revoked"
      BY <2>2, <3>1 DEF RevokeLeasesOf, Unrevoked
    <3>5. CASE ctl[c].op = "recover"
      <4>1. Busy(c)' \subseteq {a}
        BY <3>2, <3>5 DEF Busy
      <4>2. a \in LockedAttempt => attempt[a] # "recovering"
        BY <2>2 DEF FenceInv, RowInv, InFlight
      <4> QED BY <2>2, <3>1, <3>2, <3>3, <3>4, <3>5, <4>1, <4>2, Revoking
    <3>6. CASE ctl[c].op # "recover"
      <4>1. BusyShrinks
        BY <3>1, <3>2, <3>6 DEF BusyShrinks, Busy, Before
      <4> QED BY <3>1, <3>3, <4>1, Quiet
    <3> QED BY <3>5, <3>6
  <2> QED BY <2>1, <2>2
<1>12. ASSUME NEW c \in Ctl, NEW a \in Attempt, RecoverSettles(c, a) PROVE FenceInv' /\ Fences
  <2>1. /\ BusyShrinks /\ Busy(c)' = {} /\ a \in Busy(c) /\ ctl[c].op = "recover"
    BY <1>12, BusyMoves DEF RecoverSettles, Busy
  <2>2. CASE ~IsFirstLease(a)
    BY <1>12, <2>1, <2>2, OnlyCommands DEF RecoverSettles
  <2>3. ASSUME IsFirstLease(a) PROVE FenceInv' /\ Fences
    <3>1. HasRow(a) /\ attempt[a] \notin {"absent", "succeeded"}
      BY <1>o, <2>3 DEF IsFirstLease
    <3>2. a \in LockedAttempt => lease[a] = "revoked" /\ SettlesAlone(c, a)
      BY <2>1, <3>1 DEF FenceInv, BusyInv, SettlesAlone
    <3>3. CASE RemoteItem(ItemOf(a))
      <4>1. /\ attempt' = [attempt EXCEPT ![a] = "recovering"] /\ UNCHANGED lease
            /\ \A i \in Item : stage'[i] = "recovering" => stage[i] = "recovering" \/ i = ItemOf(a)
        BY <1>12, <2>3, <3>3 DEF RecoverSettles
      <4>2. CASE a \notin LockedAttempt
        <5>1. \A b \in LockedAttempt : attempt'[b] = attempt[b]
          BY <1>i, <4>1, <4>2
        <5>2. \A i \in Locked : i # ItemOf(a)
          BY <1>i, <4>2 DEF LockedAttempt
        <5> QED BY <1>i, <2>1, <4>1, <5>1, <5>2, Quiet
      <4>3. CASE a \in LockedAttempt
        <5>1. lease' = [lease EXCEPT ![a] = "revoked"]
          BY <3>2, <4>1, <4>3
        <5>2. ASSUME NEW d \in Ctl PROVE a \notin Busy(d)'
          <6>1. CASE d = c
            BY <2>1, <6>1
          <6>2. CASE d # c /\ a \in Busy(d)
            <7>1. SettlesAlone(d, a)
              BY <4>3, <6>2 DEF FenceInv, BusyInv
            <7>2. ctl[d].op \in {"recover", "cancel"}
              BY <6>2 DEF Busy
            <7> QED BY <2>1, <3>1, <3>3, <6>2, <7>1, <7>2 DEF SettlesAlone
          <6> QED BY <2>1, <6>1, <6>2 DEF BusyShrinks
        <5>3. OutcomeOf(attempt[a]) = "open"
          <6>1. attempt[a] \in InFlight \cup {"recovering"}
            BY <3>1, <3>3, <4>3 DEF FenceInv, RowInv, AttemptState, Over
          <6> QED BY <6>1, OutcomesOf
        <5> QED BY <2>1, <3>1, <4>1, <5>1, <5>2, <5>3, Recovering
      <4> QED BY <4>2, <4>3
    <3>4. CASE ~RemoteItem(ItemOf(a))
      <4>1. /\ attempt' = [attempt EXCEPT ![a] = "lease_expired"]
            /\ lease' = DropLeasesOf(ItemOf(a), lease) \/ lease' = lease
            /\ \A i \in Locked : stage'[i] = "recovering" => stage[i] = "recovering"
        BY <1>12, <1>i, <2>3, <3>4 DEF RecoverSettles
      <4>2. "lease_expired" \in Over
        BY DEF Over, EndedStates
      <4> QED BY <2>1, <3>1, <3>2, <3>4, <4>1, <4>2, Ending
    <3> QED BY <3>3, <3>4
  <2> QED BY <2>2, <2>3
<1>13. ASSUME NEW c \in Ctl, RecoverEnds(c) \/ Refresh(c) \/ CancelEnds(c) PROVE FenceInv' /\ Fences
  <2>1. UNCHANGED <<lease, attempt>> /\ (Aggregate(stage) \/ Aggregate(RefreshAll(stage)))
    BY <1>13 DEF RecoverEnds, Refresh, CancelEnds
  <2>2. \A i \in Locked : stage'[i] = "recovering" => stage[i] = "recovering"
    BY <1>t, <1>i, <2>1, RefreshAllType, AggregateAddsNoRecovering, RefreshAddsNoRecovering
  <2>3. \E op \in {"idle", "refresh"} : ctl' = [ctl EXCEPT ![c] = Working(op, {})]
    BY <1>13 DEF RecoverEnds, Refresh, CancelEnds, Idle
  <2>4. BusyShrinks
    <3>1. {} \in SUBSET Attempt
      OBVIOUS
    <3> QED BY <2>3, <3>1, BusyMoves
  <2> QED BY <2>1, <2>2, <2>4, Quiet
<1>14. ASSUME NEW c \in Ctl, NEW T \in SUBSET Task, CancelBegins(c, T) PROVE FenceInv' /\ Fences
  <2> DEFINE rows == {i \in Item : i[1] \in T /\ stage[i] \notin TerminalStates}
             todo == {a \in Attempt : ItemOf(a) \in rows /\ IsFirstLease(a)}
  <2>1. /\ \A a \in Attempt : HasRow(a) /\ ItemOf(a) \in rows => ~RemoteItem(ItemOf(a))
        /\ stage' = [i \in Item |-> IF i \in rows THEN "canceled" ELSE stage[i]]
        /\ lease' = RevokeLeasesOf(rows, lease)
        /\ ctl' = [ctl EXCEPT ![c] = Working("cancel", todo)]
        /\ UNCHANGED attempt
    BY <1>14 DEF CancelBegins
  <2>2. Busy(c)' = todo /\ ctl'[c].op = "cancel" /\ \A d \in Ctl : d # c => ctl'[d] = ctl[d]
    BY <2>1 DEF Busy, Before, Working
  <2>3. \A b \in LockedAttempt : lease'[b] = lease[b] \/ (lease[b] # "none" /\ lease'[b] = "revoked")
    BY <1>i, <2>1 DEF RevokeLeasesOf
  <2>4. \A i \in Locked : stage'[i] = "recovering" => stage[i] = "recovering"
    BY <1>i, <2>1
  <2>5. ASSUME NEW a \in todo
        PROVE  lease'[a] = "revoked" /\ stage'[ItemOf(a)] # "recovering" /\ ~RemoteItem(ItemOf(a))
    <3>1. HasRow(a) /\ ItemOf(a) \in rows /\ a \in Attempt
      BY DEF IsFirstLease
    <3> QED BY <2>1, <3>1 DEF RevokeLeasesOf, HasRow
  <2> HIDE DEF todo
  <2>6. \A a \in Busy(c)' : /\ lease'[a] = "revoked" /\ stage'[ItemOf(a)] # "recovering"
                             /\ ~RemoteItem(ItemOf(a)) /\ ctl'[c].op # "recover"
    BY <2>2, <2>5
  <2> QED BY <2>1, <2>2, <2>3, <2>4, <2>6, Revoking
<1>15. ASSUME NEW c \in Ctl, NEW a \in Attempt, CancelSettles(c, a) PROVE FenceInv' /\ Fences
  <2>1. BusyShrinks /\ a \in Busy(c) /\ ctl[c].op = "cancel"
    BY <1>15, BusyMoves DEF CancelSettles, Busy, Before
  <2>2. CASE ~IsFirstLease(a)
    BY <1>15, <2>1, <2>2, OnlyCommands DEF CancelSettles
  <2>3. CASE IsFirstLease(a)
    <3>1. HasRow(a) /\ attempt[a] \notin {"absent", "succeeded"}
      BY <1>o, <2>3 DEF IsFirstLease
    <3>2. a \in LockedAttempt => lease[a] = "revoked" /\ ~RemoteItem(ItemOf(a))
      BY <2>1, <3>1 DEF FenceInv, BusyInv, SettlesAlone
    <3>3. /\ attempt' = [attempt EXCEPT ![a] = "canceled"]
          /\ lease' = DropLeasesOf(ItemOf(a), lease) \/ lease' = lease
          /\ \A i \in Locked : stage'[i] = "recovering" => stage[i] = "recovering"
      BY <1>15, <1>i, <2>3 DEF CancelSettles
    <3>4. "canceled" \in Over
      BY DEF Over, EndedStates
    <3> QED BY <2>1, <3>1, <3>2, <3>3, <3>4, Ending
  <2> QED BY <2>2, <2>3
<1>16. ASSUME NEW c \in Ctl, NEW T \in SUBSET Task, NEW S \in SUBSET Stage, Retry(c, T, S) PROVE FenceInv' /\ Fences
  <2>1. \A i \in Locked : stage'[i] = "recovering" => stage[i] = "recovering"
    BY <1>16, <1>i DEF Retry, Retried
  <2> QED BY <1>16, <1>c, <2>1, Quiet DEF Retry
<1>17. ASSUME NEW c \in Ctl, NEW a \in Attempt, Reactivate(c, a) PROVE FenceInv' /\ Fences
  <2>1. /\ stage[ItemOf(a)] = "recovering" /\ attempt[a] = "recovering" /\ lease[a] = "revoked"
        /\ attempt' = [attempt EXCEPT ![a] = "leased"] /\ lease' = [lease EXCEPT ![a] = "live"] /\ UNCHANGED ctl
        /\ \A i \in Locked : stage'[i] = "recovering" => stage[i] = "recovering"
    BY <1>17, <1>i DEF Reactivate, Settleable
  <2>2. ASSUME a \in LockedAttempt, NEW b \in AttemptsOf(ItemOf(a)), b # a PROVE ~HasRow(b)
    <3>1. b \in LockedAttempt /\ ItemOf(b) = ItemOf(a)
      BY <1>i, <2>2 DEF AttemptsOf, LockedAttempt
    <3> QED BY <2>1, <2>2, <3>1 DEF FenceInv, RowInv, HasRow
  <2>3. a \in LockedAttempt => \A d \in Ctl : a \notin Busy(d)
    BY <2>1 DEF FenceInv, BusyInv, SettlesAlone, HasRow
  <2> QED BY <2>1, <2>2, <2>3, Granting DEF Unrevoked
<1>18. ASSUME NEW c \in Ctl, NEW a \in Attempt, NEW action \in {"retry", "terminal"}, Resolve(c, a, action)
      PROVE  FenceInv' /\ Fences
  <2> DEFINE next == IF action = "retry" THEN "ready" ELSE "failed_terminal"
             st   == Ended(stage, ItemOf(a), next)
  <2>1. next \in StageState /\ next # "recovering"
    BY DEF StageState, TerminalStates
  <2>2. st \in Table /\ RefreshAll(st) \in Table
    BY <1>t, <1>i, <2>1, EndedType, RefreshAllType
  <2>3. \A i \in Item : stage'[i] = "recovering" => st[i] = "recovering"
    BY <1>18, <2>2, AggregateAddsNoRecovering, RefreshAddsNoRecovering DEF Resolve
  <2>4. \A i \in Item : st[i] = "recovering" => stage[i] = "recovering"
    BY <1>t, <1>i, <2>1, EndedAddsNoRecovering
  <2> DEFINE over == IF action = "retry" THEN "failed_retryable" ELSE "failed_terminal"
  <2>5. /\ attempt' = [attempt EXCEPT ![a] = over] /\ lease' = [lease EXCEPT ![a] = "none"] /\ UNCHANGED ctl
        /\ attempt[a] = "recovering"
    BY <1>18 DEF Resolve, Settleable
  <2>6. over \in Over
    BY DEF Over, EndedStates
  <2> HIDE DEF over
  <2> QED BY <1>c, <1>i, <2>3, <2>4, <2>5, <2>6, Ending
<1>19. CASE UNCHANGED vars
  BY <1>19, <1>c, OnlyCommands DEF vars
<1> QED
  BY <1>1, <1>2, <1>3, <1>4, <1>5, <1>6, <1>7, <1>8, <1>9, <1>10, <1>11, <1>12, <1>13, <1>14, <1>15, <1>16, <1>17, <1>18, <1>19
  DEF Next, WorkerStep, Environment, CtlStep, ResumeStep, CancelStep

\* The stages behind a lock publish under fencing, whatever the other stages of
\* the chain do: a lease is granted only while no other attempt of the stage has
\* one, results are published under authority only, and no late worker,
\* reconciler, recovery or cancel opens an ended attempt again.
THEOREM LockedFenced == Spec => LockedPublication!Spec
<1>1. Init => FenceInv /\ LockedPublication!Init
  BY FenceInit
<1>2. QueueInv /\ FenceInv /\ [Next]_vars => FenceInv' /\ [LockedPublication!Next]_(LockedPublication!absvars)
  BY FenceNext DEF Fences
<1> QED BY <1>1, <1>2, QueueCorrect, PTL DEF Spec, LockedPublication!Spec

\* The inductive invariant of fencing: a stage behind a lock has one lease row at
\* most, and what a recovery or a cancel has in hand stays revoked.
THEOREM FenceCorrect == Spec => []FenceInv
<1>1. Init => FenceInv
  BY FenceInit
<1>2. QueueInv /\ FenceInv /\ [Next]_vars => FenceInv'
  BY FenceNext
<1> QED BY <1>1, <1>2, QueueCorrect, PTL DEF Spec

-----------------------------------------------------------------------------
(* The GPU of a remote stage.                                              *)

\* What is submitted has run to its end.
SubmitInv ==
  /\ \A a \in Attempt : commit[a] # "none" => proc[a] = "dead"
  /\ \A a \in Attempt : worker[a] \in {"publish", "finalize"} => commit[a] # "none"

\* A command that reconciles has submissions in hand, one that cancels the
\* attempts of local stages.
HandsInv ==
  \A c \in Ctl :
    /\ ctl[c].pc \in {"publish", "finalize", "abort"} => ctl[c].op = "reconcile"
    /\ ctl[c].op = "reconcile" => \A a \in Before(c) : commit[a] # "none"
    /\ ctl[c].op = "cancel" => \A a \in Before(c) : ~RemoteItem(ItemOf(a))

GpuInv == SubmitInv /\ HandsInv

\* The commands go on, end, or do something that is neither.
HandsShrink ==
  \A c \in Ctl :
    /\ ctl'[c].pc \in {"publish", "finalize", "abort"} => ctl'[c].op = "reconcile"
    /\ ctl'[c].op \in {"reconcile", "cancel"} => ctl'[c].op = ctl[c].op /\ Before(c)' \subseteq Before(c)

LEMMA HandsGoOn ==
  ASSUME ctl \in [Ctl -> CtlState], HandsInv, NEW c \in Ctl
  PROVE  /\ UNCHANGED ctl => HandsShrink
         /\ CurrentDone(c) => HandsShrink
         /\ \A pc \in {"finalize", "abort"} : ctl[c].pc \in {"publish", "finalize"} /\ Step(c, pc) => HandsShrink
         /\ Step(c, "cleanup") => HandsShrink
         /\ \A clean \in BOOLEAN : ctl' = [ctl EXCEPT ![c].pc = "settle", ![c].clean = clean] => HandsShrink
         /\ \A pc \in {"publish", "revoke", "cleanup"} :
              Pick(c, pc) /\ (pc = "publish" => ctl[c].op = "reconcile") => HandsShrink
         /\ \A op \in {"idle", "recover", "refresh"}, todo \in SUBSET Attempt :
              ctl' = [ctl EXCEPT ![c] = Working(op, todo)] => HandsShrink
<1>1. ctl[c] = [op |-> ctl[c].op, todo |-> ctl[c].todo, cur |-> ctl[c].cur, pc |-> ctl[c].pc, clean |-> ctl[c].clean]
  BY DEF CtlState
<1>o. ASSUME NEW r, ctl' = [ctl EXCEPT ![c] = r],
             r.pc \in {"publish", "finalize", "abort"} => r.op = "reconcile",
             r.op \in {"reconcile", "cancel"} => r.op = ctl[c].op /\ r.todo \cup r.cur \subseteq Before(c)
      PROVE  HandsShrink
  <2>1. ctl'[c] = r /\ \A d \in Ctl : d # c => ctl'[d] = ctl[d]
    BY <1>o
  <2> QED BY <1>o, <2>1 DEF HandsShrink, HandsInv, Before
<1>2. UNCHANGED ctl => HandsShrink
  BY DEF HandsShrink, HandsInv, Before
<1>3. ASSUME CurrentDone(c) PROVE HandsShrink
  <2> DEFINE r == Working(ctl[c].op, ctl[c].todo)
  <2>1. r.op = ctl[c].op /\ r.todo = ctl[c].todo /\ r.cur = {} /\ r.pc = "next"
    BY DEF Working
  <2>2. ctl' = [ctl EXCEPT ![c] = r]
    BY <1>3 DEF CurrentDone
  <2>3. r.todo \cup r.cur \subseteq Before(c)
    BY <2>1 DEF Before
  <2> HIDE DEF r
  <2> QED BY <1>o, <2>1, <2>2, <2>3
<1>4. ASSUME NEW pc, ctl' = [ctl EXCEPT ![c].pc = pc],
             pc \in {"publish", "finalize", "abort"} => ctl[c].op = "reconcile"
      PROVE  HandsShrink
  <2> DEFINE r == [ctl[c] EXCEPT !.pc = pc]
  <2>1. r.op = ctl[c].op /\ r.todo = ctl[c].todo /\ r.cur = ctl[c].cur /\ r.pc = pc
    BY <1>1
  <2>2. ctl' = [ctl EXCEPT ![c] = r]
    BY <1>4
  <2>3. r.todo \cup r.cur \subseteq Before(c)
    BY <2>1 DEF Before
  <2> HIDE DEF r
  <2> QED BY <1>4, <1>o, <2>1, <2>2, <2>3
<1>5. ASSUME NEW clean \in BOOLEAN, ctl' = [ctl EXCEPT ![c].pc = "settle", ![c].clean = clean] PROVE HandsShrink
  <2> DEFINE r == [ctl[c] EXCEPT !.pc = "settle", !.clean = clean]
  <2>1. r.op = ctl[c].op /\ r.todo = ctl[c].todo /\ r.cur = ctl[c].cur /\ r.pc = "settle"
    BY <1>1
  <2>2. ctl' = [ctl EXCEPT ![c] = r]
    BY <1>5
  <2>3. r.todo \cup r.cur \subseteq Before(c)
    BY <2>1 DEF Before
  <2> HIDE DEF r
  <2> QED BY <1>o, <2>1, <2>2, <2>3
<1>6. ASSUME NEW pc \in {"publish", "revoke", "cleanup"}, Pick(c, pc), pc = "publish" => ctl[c].op = "reconcile"
      PROVE  HandsShrink
  <2>1. PICK a \in ctl[c].todo :
          ctl' = [ctl EXCEPT ![c].todo = @ \ {a}, ![c].cur = {a}, ![c].pc = pc]
    BY <1>6 DEF Pick
  <2> DEFINE r == [ctl[c] EXCEPT !.todo = @ \ {a}, !.cur = {a}, !.pc = pc]
  <2>2. r.op = ctl[c].op /\ r.todo = ctl[c].todo \ {a} /\ r.cur = {a} /\ r.pc = pc
    BY <1>1
  <2>3. ctl' = [ctl EXCEPT ![c] = r]
    BY <2>1
  <2>4. r.todo \cup r.cur \subseteq Before(c)
    BY <2>2 DEF Before
  <2> HIDE DEF r
  <2> QED BY <1>6, <1>o, <2>2, <2>3, <2>4
<1>7. ASSUME NEW op \in {"idle", "recover", "refresh"}, NEW todo \in SUBSET Attempt, ctl' = [ctl EXCEPT ![c] = Working(op, todo)]
      PROVE  HandsShrink
  <2> DEFINE r == Working(op, todo)
  <2>1. r.op = op /\ r.todo = todo /\ r.cur = {} /\ r.pc = "next"
    BY DEF Working
  <2>2. ctl' = [ctl EXCEPT ![c] = r]
    BY <1>7
  <2> HIDE DEF r
  <2> QED BY <1>o, <2>1, <2>2
<1>8. ctl[c].pc \in {"publish", "finalize"} => ctl[c].op = "reconcile"
  BY DEF HandsInv
<1> QED BY <1>2, <1>3, <1>4, <1>5, <1>6, <1>7, <1>8 DEF Step

LEMMA GpuInit == Init => GpuInv
BY DEF Init, GpuInv, SubmitInv, HandsInv, Before, Idle, Working

\* What nearly every step does, in the terms of the invariant.
LEMMA GpuStays ==
  ASSUME GpuInv, \A c \in Ctl : Before(c) \subseteq Attempt,
         \A a \in Attempt : proc'[a] = proc[a] \/ (proc[a] # "dead" /\ commit'[a] = "none") \/ proc'[a] = "dead",
         \A a \in Attempt : commit[a] # "none" => commit'[a] # "none",
         \A a \in Attempt : commit'[a] # "none" => commit[a] # "none" \/ proc[a] = "dead",
         \A a \in Attempt : worker'[a] \in {"publish", "finalize"} =>
           worker[a] \in {"publish", "finalize"} \/ commit'[a] # "none",
         HandsShrink
  PROVE  GpuInv'
<1> USE DEF GpuInv
<1>1. SubmitInv'
  BY DEF SubmitInv
<1>2. HandsInv'
  BY DEF HandsInv, HandsShrink
<1> QED BY <1>1, <1>2

LEMMA GpuNext ==
  ASSUME TypeOK, GpuInv, [Next]_vars
  PROVE  GpuInv'
<1> USE DEF TypeOK
<1>r. HandsInv /\ SubmitInv
  BY DEF GpuInv
<1>c. UNCHANGED ctl => HandsShrink
  BY <1>r DEF HandsShrink, HandsInv, Before
<1>b. \A c \in Ctl : Before(c) \subseteq Attempt
  BY DEF Before, CtlState
\* Steps of a command that leave journal, worker and process alone.
<1>9. ASSUME UNCHANGED <<commit, worker, proc>>, HandsShrink PROVE GpuInv'
  BY <1>9, <1>b, GpuStays
<1>1. ASSUME NEW a \in Attempt, Spawn(a) \/ MarkRunning(a) PROVE GpuInv'
  <2>1. /\ \A b \in Attempt : proc'[b] = proc[b] \/ (b = a /\ proc[b] # "dead")
        /\ UNCHANGED <<commit, worker, ctl>> /\ proc[a] # "dead"
    BY <1>1 DEF Spawn, MarkRunning
  <2>2. commit'[a] = "none"
    BY <1>r, <2>1 DEF SubmitInv
  <2> QED BY <1>c, <1>b, <2>1, <2>2, GpuStays
<1>2. ASSUME NEW a \in Attempt, ProcessExits(a) \/ Fenced(a) \/ WorkerDies(a) \/ WorkerGivesUp(a) \/ Expire(a)
      PROVE  GpuInv'
  <2>1. /\ UNCHANGED <<commit, ctl>>
        /\ \A b \in Attempt : proc'[b] = proc[b] \/ proc'[b] = "dead"
        /\ \A b \in Attempt : worker'[b] \in {worker[b], "off"}
    BY <1>2 DEF ProcessExits, Fenced, WorkerDies, WorkerGivesUp, Expire
  <2> QED BY <1>c, <1>b, <2>1, GpuStays
<1>4. ASSUME NEW a \in Attempt, Prepare(a) PROVE GpuInv'
  <2>1. /\ UNCHANGED <<proc, ctl>> /\ commit' = [commit EXCEPT ![a] = "prepared"] /\ proc[a] = "dead"
        /\ worker' = [worker EXCEPT ![a] = "publish"]
    BY <1>4 DEF Prepare
  <2> QED BY <1>c, <1>b, <2>1, GpuStays
<1>5. ASSUME NEW a \in Attempt, WorkerPublish(a) PROVE GpuInv'
  <2>1. /\ UNCHANGED <<proc, ctl>> /\ worker' = [worker EXCEPT ![a] = "finalize"]
        /\ commit[a] # "none"
        /\ commit' = [commit EXCEPT ![a] = IF @ = "committed" THEN @ ELSE "published"]
    BY <1>5, <1>r DEF WorkerPublish, MarkPublished, SubmitInv
  <2>2. \A b \in Attempt : commit'[b] = "none" <=> commit[b] = "none"
    BY <2>1
  <2> QED BY <1>c, <1>b, <2>1, <2>2, GpuStays
<1>6. ASSUME NEW a \in Attempt, WorkerFinalize(a) PROVE GpuInv'
  <2>1. /\ commit[a] # "none" /\ UNCHANGED <<proc, ctl>> /\ worker' = [worker EXCEPT ![a] = "off"]
        /\ commit' = [commit EXCEPT ![a] = "committed"]
    BY <1>6, <1>r DEF WorkerFinalize, SubmitInv, Finalize
  <2> QED BY <1>c, <1>b, <2>1, GpuStays
<1>7. ASSUME NEW a \in Attempt, NEW failure \in Failure, Fail(a, failure) PROVE GpuInv'
  <2>1. UNCHANGED <<commit, proc, ctl>> /\ worker' = [worker EXCEPT ![a] = "off"]
    BY <1>7 DEF Fail
  <2> QED BY <1>c, <1>b, <2>1, GpuStays
<1>8. ASSUME NEW i \in Item, LeaseNext(i) PROVE GpuInv'
  <2>1. /\ UNCHANGED <<commit, proc, ctl>>
        /\ \A b \in Attempt : worker'[b] \in {worker[b], "exec"}
    BY <1>8 DEF LeaseNext
  <2> QED BY <1>c, <1>b, <2>1, GpuStays
<1>10. ASSUME NEW c \in Ctl, \/ Start(c)
                             \/ \E T \in SUBSET Task, S \in SUBSET Stage : Retry(c, T, S)
                             \/ \E a \in Attempt, action \in {"retry", "terminal"} : Resolve(c, a, action)
       PROVE  GpuInv'
  BY <1>10, <1>9, <1>c DEF Start, Retry, Resolve
<1>11. ASSUME NEW c \in Ctl, CtlDies(c) \/ RecoverBegins(c) \/ RecoverEnds(c) \/ Refresh(c) \/ CancelEnds(c)
       PROVE  GpuInv'
  <2>1. /\ UNCHANGED <<commit, worker, proc>>
        /\ \E op \in {"idle", "recover", "refresh"}, todo \in SUBSET Attempt : ctl' = [ctl EXCEPT ![c] = Working(op, todo)]
    BY <1>11 DEF CtlDies, RecoverBegins, RecoverEnds, Refresh, CancelEnds, Idle
  <2> QED BY <1>r, <1>9, <2>1, HandsGoOn
<1>12. ASSUME NEW c \in Ctl, ResumeBegins(c) PROVE GpuInv'
  <2>1. /\ ctl' = [ctl EXCEPT ![c] = Working("reconcile", {a \in Attempt : Reconcilable(a)})]
        /\ UNCHANGED <<lease, commit, worker, proc>>
    BY <1>12 DEF ResumeBegins
  <2>2. /\ ctl'[c].op = "reconcile" /\ ctl'[c].pc = "next" /\ \A a \in Before(c)' : commit'[a] # "none"
        /\ \A d \in Ctl : d # c => ctl'[d] = ctl[d]
    BY <2>1 DEF Before, Working, Reconcilable
  <2>3. HandsInv'
    BY <1>r, <2>1, <2>2 DEF HandsInv, Before
  <2> QED BY <1>r, <2>1, <2>3 DEF GpuInv, SubmitInv
<1>13. ASSUME NEW c \in Ctl, ReconcilePicks(c) \/ RecoverPicks(c) \/ CancelPicks(c) PROVE GpuInv'
  <2>1. HandsShrink
    BY <1>13, <1>r, HandsGoOn DEF ReconcilePicks, RecoverPicks, CancelPicks
  <2> QED BY <1>13, <1>9, <2>1 DEF ReconcilePicks, RecoverPicks, CancelPicks
<1>14. ASSUME NEW c \in Ctl, NEW a \in Attempt,
              \/ ReconcilePublish(c, a) \/ ReconcilePublishFails(c, a)
              \/ ReconcileFinalize(c, a) \/ ReconcileAborts(c, a)
       PROVE  GpuInv'
  <2>1. HandsShrink
    <3>1. \/ CurrentDone(c)
          \/ ctl[c].pc \in {"publish", "finalize"} /\ \E pc \in {"finalize", "abort"} : Step(c, pc)
      BY <1>14 DEF ReconcilePublish, ReconcilePublishFails, ReconcileFinalize, ReconcileAborts
    <3> QED BY <1>r, <3>1, HandsGoOn
  <2>2. commit[a] # "none" /\ UNCHANGED <<worker, proc>>
    BY <1>14, <1>r DEF ReconcilePublish, ReconcilePublishFails, ReconcileFinalize, ReconcileAborts, HandsInv, Before
  <2>3. \A b \in Attempt : commit'[b] = commit[b] \/ (b = a /\ commit'[b] # "none")
    BY <1>14 DEF ReconcilePublish, MarkPublished, ReconcilePublishFails, ReconcileFinalize, Finalize, ReconcileAborts
  <2> QED BY <1>b, <2>1, <2>2, <2>3, GpuStays
<1>19. ASSUME NEW c \in Ctl, NEW a \in Attempt, RecoverRevokes(c, a) \/ RecoverSettles(c, a) \/ CancelSettles(c, a)
       PROVE  GpuInv'
  <2>1. (CurrentDone(c) \/ Step(c, "cleanup")) /\ UNCHANGED <<commit, worker, proc>>
    BY <1>19 DEF RecoverRevokes, RecoverSettles, CancelSettles
  <2> QED BY <1>r, <1>9, <2>1, HandsGoOn
<1>20. ASSUME NEW c \in Ctl, NEW a \in Attempt, CleansUp(c, a) PROVE GpuInv'
  <2>1. \E clean \in BOOLEAN : ctl' = [ctl EXCEPT ![c].pc = "settle", ![c].clean = clean]
    <3>1. ctl' = [ctl EXCEPT ![c].pc = "settle"] =>
            ctl' = [ctl EXCEPT ![c].pc = "settle", ![c].clean = ctl[c].clean]
      BY DEF CtlState
    <3>2. ctl[c].clean \in BOOLEAN
      BY DEF CtlState
    <3> QED BY <1>20, <3>1, <3>2 DEF CleansUp
  <2>2. HandsShrink
    BY <1>r, <2>1, HandsGoOn
  <2>3. UNCHANGED <<commit, worker>> /\ \A b \in Attempt : proc'[b] = proc[b] \/ proc'[b] = "dead"
    BY <1>20 DEF CleansUp
  <2> QED BY <1>b, <2>2, <2>3, GpuStays
\* A cancel that finds the lease of a remote stage is refused.
<1>23. ASSUME NEW c \in Ctl, NEW T \in SUBSET Task, CancelBegins(c, T) PROVE GpuInv'
  <2> DEFINE rows == {i \in Item : i[1] \in T /\ stage[i] \notin TerminalStates}
             todo == {a \in Attempt : ItemOf(a) \in rows /\ IsFirstLease(a)}
  <2>1. /\ ctl' = [ctl EXCEPT ![c] = Working("cancel", todo)] /\ UNCHANGED <<commit, worker, proc>>
        /\ \A a \in Attempt : HasRow(a) /\ ItemOf(a) \in rows => ~RemoteItem(ItemOf(a))
    BY <1>23 DEF CancelBegins
  <2>2. \A a \in todo : ~RemoteItem(ItemOf(a))
    BY <2>1 DEF IsFirstLease
  <2>3. /\ ctl'[c].op = "cancel" /\ ctl'[c].pc = "next" /\ Before(c)' = todo
        /\ \A d \in Ctl : d # c => ctl'[d] = ctl[d]
    BY <2>1 DEF Before, Working
  <2> HIDE DEF todo
  <2>4. HandsInv'
    BY <1>r, <2>1, <2>2, <2>3 DEF HandsInv, Before, RemoteItem, ItemOf
  <2> QED BY <1>r, <2>1, <2>4 DEF GpuInv, SubmitInv
<1>26. ASSUME NEW c \in Ctl, NEW a \in Attempt, Reactivate(c, a) PROVE GpuInv'
  <2>1. worker' = [worker EXCEPT ![a] = "exec"] /\ UNCHANGED <<commit, proc, ctl>>
    BY <1>26 DEF Reactivate
  <2> QED BY <1>c, <1>b, <2>1, GpuStays
<1>28. CASE UNCHANGED vars
  BY <1>28, <1>9, <1>c DEF vars
<1> QED
  BY <1>1, <1>2, <1>4, <1>5, <1>6, <1>7, <1>8, <1>10, <1>11, <1>12, <1>13, <1>14, <1>19, <1>20, <1>23, <1>26, <1>28
  DEF Next, WorkerStep, Environment, CtlStep, ResumeStep, CancelStep

\* A step that takes the row of a running remote attempt away is one of the two
\* that the property names.
LEMMA GpuGivenUpOnce ==
  ASSUME TypeOK, GpuInv, Next, NEW a \in Attempt, RemoteItem(ItemOf(a)), Alive(a), HasRow(a), ~HasRow(a)'
  PROVE  \/ StoreFaults /\ Fail(a, "retryable")
         \/ \E c \in Ctl, b \in AttemptsOf(ItemOf(a)) \ {a} : ReconcileAborts(c, b)
<1> USE DEF TypeOK
<1>r. HandsInv /\ SubmitInv
  BY DEF GpuInv
<1>n. commit[a] = "none"
  BY <1>r DEF SubmitInv, Alive
<1>w. lease[a] # "none" /\ lease'[a] = "none"
  BY DEF HasRow
<1>1. ASSUME NEW b \in Attempt,
             \/ Spawn(b) \/ MarkRunning(b) \/ Fenced(b) \/ Prepare(b) \/ WorkerPublish(b) \/ WorkerGivesUp(b)
             \/ ProcessExits(b) \/ Expire(b) \/ WorkerDies(b)
      PROVE  FALSE
  BY <1>1, <1>w DEF Spawn, MarkRunning, Fenced, Prepare, WorkerPublish, WorkerGivesUp, ProcessExits, Expire,
       WorkerDies
<1>2. ASSUME NEW i \in Item, LeaseNext(i) PROVE FALSE
  BY <1>2, <1>w DEF LeaseNext
<1>3. ASSUME NEW b \in Attempt, WorkerFinalize(b) PROVE FALSE
  <2>1. commit[b] # "none" /\ lease' = [lease EXCEPT ![b] = "none"]
    BY <1>3, <1>r DEF WorkerFinalize, Finalize, SubmitInv
  <2> QED BY <1>n, <1>w, <2>1
<1>4. ASSUME NEW b \in Attempt, NEW failure \in Failure, Fail(b, failure)
      PROVE  StoreFaults /\ Fail(a, "retryable")
  <2>1. lease' = [lease EXCEPT ![b] = IF failure \notin {"unknown", "unclean"} THEN "none" ELSE "revoked"]
    BY <1>4 DEF Fail
  <2>2. b = a /\ failure \notin {"unknown", "unclean"}
    BY <1>w, <2>1
  <2>3. StoreFaults /\ failure = "retryable"
    BY <1>4, <2>2 DEF Fail, Reportable
  <2> QED BY <1>4, <2>2, <2>3
<1>5. ASSUME NEW c \in Ctl,
             \/ Start(c) \/ CtlDies(c) \/ ResumeBegins(c) \/ ReconcilePicks(c) \/ RecoverBegins(c) \/ RecoverPicks(c)
             \/ RecoverEnds(c) \/ Refresh(c) \/ CancelPicks(c) \/ CancelEnds(c)
             \/ \E T \in SUBSET Task, S \in SUBSET Stage : Retry(c, T, S)
      PROVE  FALSE
  BY <1>5, <1>w DEF Start, CtlDies, ResumeBegins, ReconcilePicks, RecoverBegins, RecoverPicks, RecoverEnds, Refresh,
       CancelPicks, CancelEnds, Retry
<1>6. ASSUME NEW c \in Ctl, NEW b \in Attempt,
             ReconcilePublish(c, b) \/ ReconcilePublishFails(c, b) \/ RecoverRevokes(c, b) \/ CleansUp(c, b)
      PROVE  FALSE
  BY <1>6, <1>w DEF ReconcilePublish, ReconcilePublishFails, RecoverRevokes, RevokeLeasesOf, CleansUp
<1>7. ASSUME NEW c \in Ctl, NEW T \in SUBSET Task, CancelBegins(c, T) PROVE FALSE
  BY <1>7, <1>w DEF CancelBegins, RevokeLeasesOf
<1>8. ASSUME NEW c \in Ctl, NEW b \in Attempt, ReconcileFinalize(c, b) PROVE FALSE
  <2>1. commit[b] # "none"
    BY <1>8, <1>r DEF ReconcileFinalize, HandsInv, Before
  <2>2. lease' = [lease EXCEPT ![b] = "none"]
    BY <1>8, <1>w DEF ReconcileFinalize, Finalize
  <2> QED BY <1>n, <1>w, <2>1, <2>2
<1>9. ASSUME NEW c \in Ctl, NEW b \in Attempt, ReconcileAborts(c, b)
      PROVE  b \in AttemptsOf(ItemOf(a)) \ {a}
  <2>1. commit[b] # "none"
    BY <1>9, <1>r DEF ReconcileAborts, HandsInv, Before
  <2>2. lease' = DropLeasesOf(ItemOf(b), lease)
    BY <1>9, <1>w DEF ReconcileAborts
  <2>3. ItemOf(b) = ItemOf(a)
    BY <1>w, <2>2 DEF DropLeasesOf
  <2> QED BY <1>n, <2>1, <2>3 DEF AttemptsOf
<1>10. ASSUME NEW c \in Ctl, NEW b \in Attempt, RecoverSettles(c, b) PROVE FALSE
  <2>1. ~RemoteItem(ItemOf(b)) /\ lease' = DropLeasesOf(ItemOf(b), lease)
    BY <1>10, <1>w DEF RecoverSettles
  <2> QED BY <1>w, <2>1 DEF DropLeasesOf
<1>11. ASSUME NEW c \in Ctl, NEW b \in Attempt, CancelSettles(c, b) PROVE FALSE
  <2>1. ~RemoteItem(ItemOf(b))
    BY <1>11, <1>r DEF CancelSettles, HandsInv, Before
  <2>2. lease' = DropLeasesOf(ItemOf(b), lease)
    BY <1>11, <1>w DEF CancelSettles
  <2> QED BY <1>w, <2>1, <2>2 DEF DropLeasesOf
<1>12. ASSUME NEW c \in Ctl, NEW b \in Attempt, Reactivate(c, b) PROVE FALSE
  BY <1>12, <1>w DEF Reactivate
<1>13. ASSUME NEW c \in Ctl, NEW b \in Attempt, NEW action \in {"retry", "terminal"}, Resolve(c, b, action)
       PROVE  FALSE
  BY <1>13, <1>w DEF Resolve
<1> QED
  BY <1>1, <1>2, <1>3, <1>4, <1>5, <1>6, <1>7, <1>8, <1>9, <1>10, <1>11, <1>12, <1>13
  DEF Next, WorkerStep, Environment, CtlStep, ResumeStep, CancelStep

\* Whoever dies, is fenced, recovers, cancels or resolves: a remote attempt whose
\* process may run loses its lease row, and with it the GPU, in two ways only, a
\* database error that a heartbeat reports as a crash, and _fail_artifact_commit
\* of an earlier attempt of the stage, which deletes the leases by stage_id.
THEOREM GpuGivenUpRarely == Spec => GpuGivenUp
<1>1. TypeOK /\ GpuInv /\ [Next]_vars => GpuInv'
  BY GpuNext
<1>2. TypeOK /\ GpuInv /\ [Next]_vars =>
        [\A a \in Attempt : RemoteItem(ItemOf(a)) /\ Alive(a) /\ HasRow(a) =>
           \/ HasRow(a)'
           \/ StoreFaults /\ Fail(a, "retryable")
           \/ \E c \in Ctl, b \in AttemptsOf(ItemOf(a)) \ {a} : ReconcileAborts(c, b)]_vars
  BY GpuGivenUpOnce
<1> QED BY <1>1, <1>2, GpuInit, TypeCorrect, PTL DEF Spec, GpuGivenUp
=============================================================================
