--------------------------- MODULE BatchRunProofs ---------------------------
(***************************************************************************)
(* What holds of one batch from its first run-all to its scores, for any   *)
(* number of tasks, stages, attempts, parallel stages and deaths of the    *)
(* command.                                                                *)
(***************************************************************************)
EXTENDS BatchRun, WellFoundedInduction, TLAPS

-----------------------------------------------------------------------------
(* The chain of stages.                                                    *)

LEMMA ItemFacts ==
  /\ \A i \in Item : i[1] \in Task /\ i[2] \in Stage /\ i = <<i[1], i[2]>>
  /\ \A t \in Task, s \in Stage : <<t, s>> \in Item /\ <<t, s>>[1] = t /\ <<t, s>>[2] = s
  /\ {1, Gate - 1, Gate, Eval6, Evaluate} \subseteq Stage
  /\ 1 < Gate /\ Gate < Eval6 /\ Evaluate = Last /\ Eval6 = Last - 1 /\ Last \in Nat
<1>1. Last \in Nat /\ 1 < Gate /\ Gate < Eval6 /\ Evaluate = Last /\ Eval6 = Last - 1 /\ Gate \in 0..Last
  BY DagAssumption, BatchRunAssumption DEF Eval6
<1>2. {1, Gate - 1, Gate, Eval6, Evaluate} \subseteq Stage
  BY <1>1 DEF Stage
<1>3. \A i \in Item : i[1] \in Task /\ i[2] \in Stage /\ i = <<i[1], i[2]>>
  BY DEF Item
<1> QED BY <1>1, <1>2, <1>3 DEF Item

\* Of some numbers one is the least.
LEMMA LeastNumber ==
  ASSUME NEW T \in SUBSET Nat, T # {} PROVE \E n \in T : \A m \in T : n <= m
<1>1. PICK n \in T : \A m \in T : ~(<<m, n>> \in OpToRel(<, Nat))
  BY NatLessThanWellFounded, WFMin
<1>2. ASSUME NEW m \in T PROVE n <= m
  <2>1. m \in Nat /\ n \in Nat
    OBVIOUS
  <2>2. ~(<<m, n>> \in OpToRel(<, Nat))
    BY <1>1
  <2>3. ~(m < n)
    BY <2>1, <2>2, Zenon DEF OpToRel
  <2> QED BY <2>1, <2>3
<1> QED BY <1>2

-----------------------------------------------------------------------------
(* The inductive invariant.                                                *)

Table    == [Item -> StageState]
Statuses == {"planned", "running", "succeeded", "failed", "canceled"}
Store ==
  [batch : Statuses, stage : Table, review : [Task -> Decision],
   cand : [Task -> {"open", "running", "done", "spent"}],
   from : [Task -> Nat], accepted : [Task -> Nat],
   tries : [Item -> Nat], budget : [Item -> Nat], made : [Item -> Nat],
   key : [Item -> Key], out : [Item -> Key],
   held : [Item -> {"none", "live", "expired", "revoked"}],
   later : SUBSET Item, dirs : SUBSET (Item \X Key \X Nat)]

Counted(d) == \A i \in Item : d.tries[i] <= MaxTries[i] /\ d.made[i] <= d.tries[i]

\* What has a lease is in the hands of someone; the gate never is.
HeldInv(d) ==
  /\ \A i \in Item : d.held[i] # "none" => d.stage[i] \in ActiveStates
  /\ \A i \in Item : d.stage[i] \in {"leased", "committing"} => Unrevoked(d, i)
  /\ \A i \in Item : i[2] = Gate => d.stage[i] \notin ActiveStates

\* An output directory belongs to one attempt, the latest one's is where its key
\* says, and what has succeeded is there.
DirInv(d) ==
  /\ \A x, y \in d.dirs : x[1] = y[1] /\ x[2] = y[2] => x = y
  /\ \A x \in d.dirs : x[3] <= d.tries[x[1]] /\ (x[3] = d.tries[x[1]] => x[2] = d.out[x[1]])
  /\ \A i \in Item : d.stage[i] = "succeeded" /\ i[2] # Gate => Moved(d, i, d.made[i])

\* A stage that has been reached has succeeded stages below it: all of them up to
\* the debug bundle, which a failure may reach; from there on those up to the gate.
Unreached == {"pending"} \cup CanceledStates
Below(s)  == {r \in 1..(s - 1) : Debug = 0 \/ s < Debug \/ r <= Gate}
ChainIn(st) ==
  \A t \in Task, s \in Stage : st[<<t, s>>] \notin Unreached =>
    \A r \in Below(s) : st[<<t, r>>] = "succeeded"
ChainInv(d) == ChainIn(d.stage)

\* A review waits for a picture that is there, at a gate that is not passed.
ReviewInv(d) ==
  \A t \in Task : d.review[t] = "pending" =>
    d.stage[Picture(t)] = "succeeded" /\ d.stage[<<t, Gate>>] # "succeeded"

Good(d) == d \in Store /\ Counted(d) /\ HeldInv(d) /\ DirInv(d) /\ ChainInv(d) /\ ReviewInv(d)

\* The wave: who is in it where the command is, whose attempts are in it, and
\* what the evaluation has listed.
AtWork == {"submit", "publish", "finalize"}
WaveInv ==
  /\ pc \in PcState /\ wave \in Seq(Entry) /\ Len(wave) <= MaxParallel
  /\ todo \subseteq Item /\ crashes \in 0..MaxCrashes
  /\ pc \in AtWork \cup {"exec"} => wave # <<>>
  /\ pc \notin AtWork \cup {"lease", "exec"} => wave = <<>>
  /\ \A k \in 1..Len(wave) : wave[k].n <= db.tries[wave[k].item]
  /\ \A k \in 1..Len(wave) : wave[k].by = "evaluate" => Len(wave) = 1 /\ pc \in AtWork
  /\ pc = "finalizers" \/ (pc \in AtWork /\ Me.by = "evaluate") => todo \subseteq Finalizers
  /\ pc = "finalize" => Moved(db, Me.item, Me.n)

RunInv == Good(db) /\ WaveInv

-----------------------------------------------------------------------------
(* What a step on the database keeps.                                      *)

\* Attempts and directories stay; ...
Grows(d, e) == (\A i \in Item : d.tries[i] <= e.tries[i]) /\ d.dirs \subseteq e.dirs

\* ... no finalizer is closed, or reached, but by a lease or through its evidence, ...
Closing == ActiveStates \cup {"succeeded"}
EvidenceOf(i) == <<i[1], Eval6>>
Closes(d, e) ==
  \A i \in Finalizers :
    /\ e.stage[i] \in Closing => d.stage[i] \in Closing
    /\ e.stage[i] \notin Unreached => d.stage[i] \notin Unreached \/ e.stage[EvidenceOf(i)] = "succeeded"

\* ... and what has succeeded stays so.
SuccessStays(d, e) == \A i \in Item : d.stage[i] = "succeeded" => e.stage[i] = "succeeded"
Keeps(d, e) == Grows(d, e) /\ Closes(d, e) /\ SuccessStays(d, e)

LEMMA KeepsTwice ==
  ASSUME NEW d, NEW e, NEW g, Keeps(d, e), Keeps(e, g),
         \A i \in Item : d.tries[i] \in Nat /\ e.tries[i] \in Nat /\ g.tries[i] \in Nat
  PROVE  Keeps(d, g)
<1>1. Grows(d, g)
  BY DEF Keeps, Grows
<1>2. SuccessStays(d, g)
  BY DEF Keeps, SuccessStays
<1>3. ASSUME NEW i \in Finalizers
      PROVE  /\ g.stage[i] \in Closing => d.stage[i] \in Closing
             /\ g.stage[i] \notin Unreached => d.stage[i] \notin Unreached \/ g.stage[EvidenceOf(i)] = "succeeded"
  <2>1. EvidenceOf(i) \in Item
    BY ItemFacts DEF EvidenceOf, Finalizers
  <2> QED BY <2>1 DEF Keeps, Closes, SuccessStays
<1> QED BY <1>1, <1>2, <1>3 DEF Keeps, Closes

-----------------------------------------------------------------------------
(* The functions on the table of stages.                                   *)

\* One pass of _refresh_ready reaches only what is next to be reached.
LEMMA RefreshOnceFacts ==
  ASSUME NEW st \in Table, NEW rv \in [Task -> Decision], ChainIn(st), NEW x, x = RefreshOnce(st, rv)
  PROVE  /\ x \in Table /\ ChainIn(x)
         /\ \A i \in Item : st[i] # "pending" => x[i] = st[i]
         /\ \A i \in Item : x[i] # st[i] =>
              /\ PredecessorOk(x, i)
              /\ \/ i[2] # Gate /\ x[i] = "ready"
                 \/ i[2] = Gate /\ x[i] \in {"rejected", "waiting_review"}
                 \/ i[2] = Gate /\ x[i] = "succeeded" /\ rv[i[1]] = "accepted"
<1>1. ASSUME NEW i \in Item
      PROVE  /\ x[i] = Unblocked(st, rv, i) /\ x[i] \in StageState
             /\ st[i] # "pending" => x[i] = st[i]
             /\ x[i] # st[i] => /\ st[i] = "pending" /\ PredecessorOk(st, i)
                                /\ \/ i[2] # Gate /\ x[i] = "ready"
                                   \/ i[2] = Gate /\ x[i] \in {"rejected", "waiting_review"}
                                   \/ i[2] = Gate /\ x[i] = "succeeded" /\ rv[i[1]] = "accepted"
  <2>1. x[i] = Unblocked(st, rv, i)
    BY DEF RefreshOnce
  <2>2. rv[i[1]] \in Decision
    BY ItemFacts
  <2>3. GateState(rv[i[1]]) \in {"pending", "rejected", "waiting_review"}
          \/ (GateState(rv[i[1]]) = "succeeded" /\ rv[i[1]] = "accepted")
    BY <2>2, Zenon DEF GateState, Decision
  <2>4. st[i] \in StageState /\ {"pending", "ready", "rejected", "waiting_review", "succeeded"} \subseteq StageState
    BY DEF Table, StageState, TerminalStates
  <2> QED BY <2>1, <2>3, <2>4 DEF Unblocked
<1>2. x \in Table
  BY <1>1 DEF RefreshOnce, Table
<1>3. \A i \in Item : st[i] = "succeeded" => x[i] = "succeeded"
  BY <1>1
<1>4. \A i \in Item : PredecessorOk(st, i) => PredecessorOk(x, i)
  BY <1>3, ItemFacts DEF PredecessorOk, Stage
<1>5. ChainIn(x)
  <2> SUFFICES ASSUME NEW t \in Task, NEW s \in Stage, x[<<t, s>>] \notin Unreached, NEW r \in Below(s)
               PROVE  x[<<t, r>>] = "succeeded"
    BY DEF ChainIn
  <2>1. <<t, s>> \in Item /\ r \in Stage /\ <<t, r>> \in Item
    BY ItemFacts DEF Below, Stage
  <2>2. CASE st[<<t, s>>] \notin Unreached
    BY <1>3, <2>1, <2>2 DEF ChainIn
  <2>3. CASE st[<<t, s>>] \in Unreached
    <3>1. s # 1 => st[<<t, s - 1>>] = "succeeded"
      BY <1>1, <2>1, <2>3 DEF PredecessorOk
    <3>2. s # 1 /\ s - 1 \in Stage /\ (r = s - 1 \/ r \in Below(s - 1))
      BY DagAssumption DEF Below, Stage
    <3>3. st[<<t, r>>] = "succeeded"
      BY <3>1, <3>2 DEF ChainIn, Unreached, CanceledStates
    <3> QED BY <1>3, <2>1, <3>3
  <2> QED BY <2>2, <2>3
<1> QED BY <1>1, <1>2, <1>4, <1>5

LEMMA RefreshedFacts ==
  ASSUME NEW st \in Table, NEW rv \in [Task -> Decision], ChainIn(st), NEW x, x = Refreshed(st, rv)
  PROVE  /\ x \in Table /\ ChainIn(x)
         /\ \A i \in Item : st[i] # "pending" => x[i] = st[i]
         /\ \A i \in Item : x[i] # st[i] =>
              /\ PredecessorOk(x, i)
              /\ \/ i[2] # Gate /\ x[i] = "ready"
                 \/ i[2] = Gate /\ x[i] \in {"rejected", "waiting_review"}
                 \/ i[2] = Gate /\ x[i] = "succeeded" /\ rv[i[1]] = "accepted"
<1> DEFINE y == RefreshOnce(st, rv)
<1>1. x = RefreshOnce(y, rv)
  BY DEF Refreshed
<1> HIDE DEF y
<1>2. /\ y \in Table /\ ChainIn(y)
      /\ \A i \in Item : st[i] # "pending" => y[i] = st[i]
      /\ \A i \in Item : y[i] # st[i] =>
           /\ PredecessorOk(y, i)
           /\ \/ i[2] # Gate /\ y[i] = "ready"
              \/ i[2] = Gate /\ y[i] \in {"rejected", "waiting_review"}
              \/ i[2] = Gate /\ y[i] = "succeeded" /\ rv[i[1]] = "accepted"
  BY RefreshOnceFacts DEF y
<1>3. /\ x \in Table /\ ChainIn(x)
      /\ \A i \in Item : y[i] # "pending" => x[i] = y[i]
      /\ \A i \in Item : x[i] # y[i] =>
           /\ PredecessorOk(x, i)
           /\ \/ i[2] # Gate /\ x[i] = "ready"
              \/ i[2] = Gate /\ x[i] \in {"rejected", "waiting_review"}
              \/ i[2] = Gate /\ x[i] = "succeeded" /\ rv[i[1]] = "accepted"
  BY <1>1, <1>2, RefreshOnceFacts
<1>4. \A i \in Item : PredecessorOk(y, i) => PredecessorOk(x, i)
  BY <1>3, ItemFacts DEF PredecessorOk, Stage
<1> QED BY <1>2, <1>3, <1>4

LEMMA SkippedFacts ==
  ASSUME NEW st \in Table, NEW x, x = EvaluationSkipped(st)
  PROVE  /\ x \in Table
         /\ \A i \in Item : x[i] # st[i] => st[i] = "ready" /\ x[i] = "eval_skipped"
BY DEF EvaluationSkipped, Finalizers, Table, StageState, TerminalStates, CanceledStates

LEMMA EndedFacts ==
  ASSUME NEW st \in Table, NEW i \in Item, NEW s \in StageState, NEW x, x = Ended(st, i, s)
  PROVE  /\ x \in Table /\ x[i] = s
         /\ \A j \in Item : j # i /\ x[j] # st[j] =>
              \/ st[j] \in {"pending", "ready"} /\ x[j] = "canceled"
              \/ st[j] = "pending" /\ x[j] = "ready" /\ i[2] \in Evidence /\ j[1] = i[1] /\ j[2] = Debug
<1> DEFINE now == [st EXCEPT ![i] = s]
<1>1. now \in Table /\ now[i] = s /\ \A j \in Item : j # i => now[j] = st[j]
  BY DEF Table
<1>2. i \notin After(i) /\ \A j \in Item : j \in After(i) => j[1] = i[1]
  BY ItemFacts DEF After, Stage
<1>3. x = now \/ (i[2] \in Evidence /\ x = Routed(now, i))
  BY DEF Ended, Routed
<1>4. CASE x = now
  BY <1>1, <1>4
<1>5. CASE i[2] \in Evidence /\ x = Routed(now, i)
  <2> HIDE DEF now
  <2>1. \A j \in Item :
          \/ x[j] = now[j]
          \/ j \in After(i) /\ now[j] \in {"pending", "ready"} /\ x[j] = "canceled"
          \/ j \in After(i) /\ now[j] = "pending" /\ x[j] = "ready" /\ j[2] = Debug
    <3> SUFFICES ASSUME NEW j \in Item PROVE
          \/ x[j] = now[j]
          \/ j \in After(i) /\ now[j] \in {"pending", "ready"} /\ x[j] = "canceled"
          \/ j \in After(i) /\ now[j] = "pending" /\ x[j] = "ready" /\ j[2] = Debug
      OBVIOUS
    <3> QED BY <1>5 DEF Routed
  <2>2. x \in Table
    <3>1. DOMAIN x = Item /\ x = [j \in Item |-> x[j]]
      BY <1>5 DEF Routed
    <3>2. {"canceled", "ready"} \subseteq StageState
      BY DEF StageState, TerminalStates, CanceledStates
    <3>3. \A j \in Item : x[j] \in StageState
      BY <1>1, <2>1, <3>2 DEF Table
    <3> QED BY <3>1, <3>3 DEF Table
  <2> QED BY <1>1, <1>2, <1>5, <2>1, <2>2
<1> QED BY <1>3, <1>4, <1>5

-----------------------------------------------------------------------------
(* The functions on the database.                                          *)

\* A stage goes the way of stages that end: nothing new succeeds or is in hand, and
\* only a debug bundle is reached out of order.
Falls(d, i, s) ==
  \/ s = d.stage[i]
  \/ /\ d.stage[i] # "succeeded" /\ s \notin {"succeeded", "leased", "committing"}
     /\ s \in ActiveStates => d.stage[i] \in ActiveStates
     /\ \/ s \in Unreached \/ d.stage[i] \notin Unreached
        \/ i[2] = Debug /\ d.stage[<<i[1], Gate>>] = "succeeded"

LEMMA FallsGood ==
  ASSUME NEW d, Good(d), NEW e \in Store,
         e.tries = d.tries, e.made = d.made, e.out = d.out, e.dirs = d.dirs, e.review = d.review,
         \A i \in Item : Falls(d, i, e.stage[i]),
         \A i \in Item : e.held[i] # "none" => e.stage[i] \in ActiveStates,
         \A i \in Item : e.stage[i] \in {"leased", "committing"} => Unrevoked(e, i)
  PROVE  Good(e) /\ Keeps(d, e)
<1>1. SuccessStays(d, e) /\ \A i \in Item : e.stage[i] = "succeeded" => d.stage[i] = "succeeded"
  BY DEF SuccessStays, Falls
<1>2. \A i \in Item : e.stage[i] \in ActiveStates => d.stage[i] \in ActiveStates
  BY DEF Falls
<1>3. Counted(e) /\ HeldInv(e)
  BY <1>2 DEF Good, Counted, HeldInv
<1>4. DirInv(e)
  BY <1>1 DEF Good, DirInv, Moved
<1>5. ChainInv(e)
  <2> SUFFICES ASSUME NEW t \in Task, NEW s \in Stage, e.stage[<<t, s>>] \notin Unreached, NEW r \in Below(s)
               PROVE  e.stage[<<t, r>>] = "succeeded"
    BY DEF ChainInv, ChainIn
  <2>1. <<t, s>> \in Item /\ r \in Stage /\ <<t, r>> \in Item
    BY ItemFacts DEF Below, Stage
  <2>2. CASE d.stage[<<t, s>>] \notin Unreached
    BY <1>1, <2>1, <2>2 DEF Good, ChainInv, ChainIn, SuccessStays
  <2>3. CASE s = Debug /\ d.stage[<<t, Gate>>] = "succeeded"
    <3>1. r = Gate \/ r \in Below(Gate)
      BY <2>3, ItemFacts DEF Below, Stage
    <3>2. d.stage[<<t, r>>] = "succeeded"
      BY <2>3, <3>1, ItemFacts DEF Good, ChainInv, ChainIn, Unreached, CanceledStates
    <3> QED BY <1>1, <2>1, <3>2 DEF SuccessStays
  <2> QED BY <2>1, <2>2, <2>3, ItemFacts DEF Falls
<1>6. ReviewInv(e)
  <2>1. \A t \in Task : Picture(t) \in Item /\ <<t, Gate>> \in Item
    BY ItemFacts DEF Picture
  <2> QED BY <1>1, <2>1 DEF Good, ReviewInv, SuccessStays
<1>7. Grows(d, e)
  BY DEF Good, Store, Grows
<1>8. Closes(d, e)
  <2>1. \A i \in Finalizers : i \in Item /\ i[2] # Debug
    BY BatchRunAssumption, ItemFacts DEF Finalizers, Stage
  <2> QED BY <1>1, <1>2, <2>1 DEF Closes, Closing, Falls, Unreached
<1> QED BY <1>1, <1>3, <1>4, <1>5, <1>6, <1>7, <1>8 DEF Good, Keeps

\* What a digest is made of.
LEMMA DigestType ==
  ASSUME NEW d \in Store, NEW st \in Table, NEW i \in Item PROVE Digest(d, st, i) \in Key
<1>1. d.from[i[1]] \in Nat /\ d.accepted[i[1]] \in Nat /\ i[1] \in Task /\ i[2] - 1 \in Nat /\ i[2] \in Stage
  BY ItemFacts DEF Store, Stage
<1>2. \A s \in 1..(i[2] - 1) : s \in Stage /\ Bytes(d, <<i[1], s>>) \in Nat
  <2> TAKE s \in 1..(i[2] - 1)
  <2>1. s \in Stage /\ <<i[1], s>> \in Item
    BY <1>1, ItemFacts DEF Stage
  <2> QED BY <2>1 DEF Bytes, Store
<1>3. [s \in 1..(i[2] - 1) |-> Bytes(d, <<i[1], s>>)] \in Seq(Nat)
  <2> DEFINE n == i[2] - 1
             f == [s \in 1..n |-> Bytes(d, <<i[1], s>>)]
  <2>1. n \in Nat /\ f \in [1..n -> Nat]
    BY <1>1, <1>2
  <2> HIDE DEF n, f
  <2>2. f \in Seq(Nat)
    BY <2>1
  <2> QED BY <2>2 DEF f, n
<1>4. {s \in 1..(i[2] - 1) : st[<<i[1], s>>] = "succeeded"} \in SUBSET Stage
  BY <1>2
<1>5. (IF i[2] < Gate THEN d.from[i[1]] ELSE d.accepted[i[1]]) \in Nat
  BY <1>1
<1> QED BY <1>3, <1>4, <1>5 DEF Digest, Key

\* A step that only routes keeps the rest of the database.
Rest(d, e) ==
  /\ e.review = d.review /\ e.cand = d.cand /\ e.from = d.from /\ e.accepted = d.accepted
  /\ e.tries = d.tries /\ e.budget = d.budget /\ e.made = d.made /\ e.out = d.out
  /\ e.held = d.held /\ e.later = d.later /\ e.dirs = d.dirs

LEMMA RefreshFields ==
  ASSUME NEW d \in Store, ChainInv(d), NEW e, e = Refresh(d)
  PROVE  e \in Store /\ Rest(d, e) /\ e.batch = d.batch /\ e.stage = Refreshed(d.stage, d.review)
<1> DEFINE st == Refreshed(d.stage, d.review)
           ky == [i \in Item |-> IF st[i] # d.stage[i] /\ st[i] \in {"ready", "succeeded"}
                                 THEN Digest(d, st, i) ELSE d.key[i]]
<1>1. d.stage \in Table /\ d.review \in [Task -> Decision] /\ d.key \in [Item -> Key]
  BY DEF Store
<1>2. st \in Table
  BY <1>1, RefreshedFacts DEF ChainInv
<1>3. e = [d EXCEPT !.stage = st, !.key = ky]
  BY DEF Refresh
<1> HIDE DEF st
<1>4. ky \in [Item -> Key]
  BY <1>1, <1>2, DigestType
<1> HIDE DEF ky
<1>5. e.stage = st /\ e.batch = d.batch /\ Rest(d, e)
  BY <1>3 DEF Store, Rest
<1>6. e \in Store
  BY <1>2, <1>3, <1>4 DEF Store
<1> QED BY <1>5, <1>6 DEF st

LEMMA RefreshGood ==
  ASSUME NEW d, Good(d), NEW e, e = Refresh(d)
  PROVE  /\ Good(e) /\ Keeps(d, e) /\ Rest(d, e) /\ e.batch = d.batch
         /\ \A i \in Item : d.stage[i] # "pending" => e.stage[i] = d.stage[i]
<1>1. e \in Store /\ Rest(d, e) /\ e.batch = d.batch /\ e.stage = Refreshed(d.stage, d.review)
  BY RefreshFields DEF Good
<1>2. /\ d.stage \in Table /\ d.review \in [Task -> Decision] /\ ChainIn(d.stage)
  BY DEF Good, Store, ChainInv
<1>3. /\ ChainIn(e.stage)
      /\ \A i \in Item : d.stage[i] # "pending" => e.stage[i] = d.stage[i]
      /\ \A i \in Item : e.stage[i] # d.stage[i] =>
           /\ PredecessorOk(e.stage, i)
           /\ \/ i[2] # Gate /\ e.stage[i] = "ready"
              \/ i[2] = Gate /\ e.stage[i] \in {"rejected", "waiting_review"}
              \/ i[2] = Gate /\ e.stage[i] = "succeeded" /\ d.review[i[1]] = "accepted"
  BY <1>1, <1>2, RefreshedFacts
<1>4. SuccessStays(d, e)
  BY <1>3 DEF SuccessStays
<1>5. Counted(e) /\ Grows(d, e)
  BY <1>1 DEF Good, Counted, Rest, Grows, Store
<1>6. HeldInv(e)
  BY <1>1, <1>3 DEF Good, HeldInv, Rest, ActiveStates, Unrevoked
<1>7. DirInv(e)
  BY <1>1, <1>3 DEF Good, DirInv, Rest, Moved
<1>8. ReviewInv(e)
  <2>1. \A t \in Task : Picture(t) \in Item /\ <<t, Gate>> \in Item /\ <<t, Gate>>[1] = t /\ <<t, Gate>>[2] = Gate
    BY ItemFacts DEF Picture
  <2> QED BY <1>1, <1>3, <1>4, <2>1 DEF Good, ReviewInv, Rest, SuccessStays
<1>9. Closes(d, e)
  <2> SUFFICES ASSUME NEW i \in Finalizers, e.stage[i] # d.stage[i]
               PROVE  e.stage[i] \notin Closing /\ e.stage[EvidenceOf(i)] = "succeeded"
    BY DEF Closes
  <2>1. i \in Item /\ i[2] = Evaluate /\ i[2] # Gate /\ i[2] # 1 /\ i[2] - 1 = Eval6
    BY ItemFacts DEF Finalizers, Eval6, Stage
  <2> QED BY <1>3, <2>1 DEF PredecessorOk, EvidenceOf, Closing, ActiveStates
<1> QED BY <1>1, <1>3, <1>4, <1>5, <1>6, <1>7, <1>8, <1>9 DEF Good, ChainInv, Keeps

LEMMA StatusType == ASSUME NEW st PROVE BatchStatus(st) \in Statuses
BY DEF BatchStatus, Statuses

LEMMA AggregateGood ==
  ASSUME NEW d, Good(d), NEW e, e = Aggregate(d)
  PROVE  /\ Good(e) /\ Keeps(d, e) /\ Rest(d, e)
         /\ \A i \in Item : i[2] # Evaluate => e.stage[i] = d.stage[i]
<1> DEFINE st == EvaluationSkipped(d.stage)
<1>1. d \in Store /\ d.stage \in Table
  BY DEF Good, Store
<1>2. st \in Table /\ \A i \in Item : st[i] # d.stage[i] => d.stage[i] = "ready" /\ st[i] = "eval_skipped"
  BY <1>1, SkippedFacts
<1>3. \A i \in Item : i[2] # Evaluate => st[i] = d.stage[i]
  BY <1>1 DEF EvaluationSkipped, Finalizers, Table
<1>4. PICK b \in Statuses : e = [d EXCEPT !.stage = st, !.batch = b]
  BY StatusType DEF Aggregate
<1> HIDE DEF st
<1> HIDE DEF Aggregate
<1>5. e \in Store
  <2> HIDE <1>4
  <2>1. [d EXCEPT !.stage = st, !.batch = b] \in Store
    BY <1>1, <1>2 DEF Store
  <2> QED BY <1>4, <2>1, Zenon
<1>6. e.stage = st /\ Rest(d, e)
  BY <1>1, <1>4 DEF Store, Rest
<1>7. \A i \in Item : Falls(d, i, e.stage[i])
  BY <1>2, <1>6 DEF Falls, Unreached, CanceledStates, ActiveStates
<1>8. \A i \in Item : e.held[i] # "none" => e.stage[i] \in ActiveStates
  BY <1>2, <1>6 DEF Good, HeldInv, Rest, ActiveStates
<1>9. \A i \in Item : e.stage[i] \in {"leased", "committing"} => Unrevoked(e, i)
  BY <1>2, <1>6 DEF Good, HeldInv, Rest, Unrevoked
<1>10. Good(e) /\ Keeps(d, e)
  BY <1>5, <1>6, <1>7, <1>8, <1>9, FallsGood DEF Rest
<1> QED BY <1>3, <1>6, <1>10

\* _finalize_artifact_commit of stages in hand whose directories are in place.
LEMMA CommittedGood ==
  ASSUME NEW d, Good(d), NEW I \in SUBSET Item, NEW e, e = Committed(d, I),
         \A i \in I : d.stage[i] \in ActiveStates /\ Moved(d, i, d.tries[i])
  PROVE  /\ Good(e) /\ Keeps(d, e)
         /\ e.tries = d.tries /\ e.out = d.out /\ e.dirs = d.dirs /\ e.budget = d.budget
<1> DEFINE ends == [i \in Item |-> IF i \in I THEN "succeeded" ELSE d.stage[i]]
           made == [i \in Item |-> IF i \in I THEN d.tries[i] ELSE d.made[i]]
           held == [i \in Item |-> IF i \in I THEN "none" ELSE d.held[i]]
           cand == [t \in Task |-> IF Picture(t) \in I THEN "done" ELSE d.cand[t]]
           review == [t \in Task |-> IF Picture(t) \in I THEN "pending" ELSE d.review[t]]
           now == [d EXCEPT !.stage = ends, !.made = made, !.held = held, !.cand = cand, !.review = review]
<1>1. e = Refresh(now)
  BY DEF Committed
<1>2. d \in Store
  BY DEF Good
<1>3. /\ ends \in Table /\ made \in [Item -> Nat] /\ held \in [Item -> {"none", "live", "expired", "revoked"}]
      /\ cand \in [Task -> {"open", "running", "done", "spent"}] /\ review \in [Task -> Decision]
  BY <1>2 DEF Store, Table, StageState, TerminalStates, Decision
<1>4. /\ \A i \in Item : i \in I => ends[i] = "succeeded" /\ made[i] = d.tries[i] /\ held[i] = "none"
      /\ \A i \in Item : i \notin I => ends[i] = d.stage[i] /\ made[i] = d.made[i] /\ held[i] = d.held[i]
      /\ \A t \in Task : IF Picture(t) \in I THEN review[t] = "pending" ELSE review[t] = d.review[t]
  OBVIOUS
<1> HIDE DEF ends, made, held, cand, review
<1>5. /\ now.stage = ends /\ now.made = made /\ now.held = held /\ now.review = review
      /\ now.tries = d.tries /\ now.out = d.out /\ now.dirs = d.dirs /\ now.budget = d.budget
  BY <1>2 DEF Store
<1>6. now \in Store
  BY <1>2, <1>3 DEF Store
<1> HIDE DEF now
<1>7. \A i \in I : d.stage[i] # "succeeded" /\ d.stage[i] \notin Unreached /\ i[2] # Gate
  BY DEF Good, HeldInv, ActiveStates, Unreached, CanceledStates
<1>8. SuccessStays(d, now)
  BY <1>4, <1>5 DEF SuccessStays
<1>9. Good(now)
  <2>1. Counted(now)
    BY <1>2, <1>4, <1>5 DEF Good, Counted, Store
  <2>2. HeldInv(now)
    BY <1>4, <1>5 DEF Good, HeldInv, Unrevoked, ActiveStates
  <2>3. DirInv(now)
    <3>1. \A i \in Item : \A n : Moved(now, i, n) <=> Moved(d, i, n)
      BY <1>5 DEF Moved
    <3>2. \A i \in Item : now.stage[i] = "succeeded" /\ i[2] # Gate => Moved(now, i, now.made[i])
      BY <1>4, <1>5, <3>1 DEF Good, DirInv
    <3> QED BY <1>5, <3>2 DEF Good, DirInv
  <2>4. ChainInv(now)
    <3>1. /\ \A t \in Task, s \in Stage : <<t, s>> \in Item
          /\ \A s \in Stage : Below(s) \subseteq Stage
      BY ItemFacts DEF Below, Stage
    <3>2. \A i \in Item : now.stage[i] \notin Unreached => d.stage[i] \notin Unreached
      BY <1>4, <1>5, <1>7
    <3> QED BY <1>8, <3>1, <3>2 DEF Good, ChainInv, ChainIn, SuccessStays
  <2>5. ReviewInv(now)
    <3> SUFFICES ASSUME NEW t \in Task, now.review[t] = "pending"
                 PROVE  now.stage[Picture(t)] = "succeeded" /\ now.stage[<<t, Gate>>] # "succeeded"
      BY DEF ReviewInv
    <3>1. Picture(t) \in Item /\ <<t, Gate>> \in Item /\ Picture(t) = <<t, Gate - 1>> /\ <<t, Gate>> \notin I
      BY <1>7, ItemFacts DEF Picture
    <3>2. CASE Picture(t) \notin I
      BY <1>4, <1>5, <3>1, <3>2 DEF Good, ReviewInv
    <3>3. CASE Picture(t) \in I
      <4>1. d.stage[<<t, Gate>>] # "succeeded"
        <5>1. Gate - 1 \in Below(Gate) /\ Gate \in Stage
          BY ItemFacts DEF Below, Stage
        <5> QED BY <1>7, <3>1, <3>3, <5>1 DEF Good, ChainInv, ChainIn, Unreached, CanceledStates
      <4> QED BY <1>4, <1>5, <3>1, <3>3, <4>1
    <3> QED BY <3>2, <3>3
  <2> QED BY <1>6, <2>1, <2>2, <2>3, <2>4, <2>5 DEF Good
<1>10. Keeps(d, now)
  <2>1. Grows(d, now)
    BY <1>2, <1>5 DEF Grows, Store
  <2>2. Closes(d, now)
    BY <1>4, <1>5, <1>7 DEF Closes, Closing, Finalizers
  <2> QED BY <1>8, <2>1, <2>2 DEF Keeps
<1>11. Good(e) /\ Keeps(now, e) /\ Rest(now, e)
  BY <1>1, <1>9, RefreshGood
<1>12. Keeps(d, e)
  <2>1. \A i \in Item : d.tries[i] \in Nat /\ now.tries[i] \in Nat /\ e.tries[i] \in Nat
    BY <1>2, <1>6, <1>11 DEF Good, Store
  <2> QED BY <1>10, <1>11, <2>1, KeepsTwice
<1> QED BY <1>5, <1>11, <1>12 DEF Rest

\* Two steps of one transaction.
LEMMA GoodTwice ==
  ASSUME NEW d, NEW e, NEW g, Good(d), Good(e), Good(g), Keeps(d, e), Keeps(e, g)
  PROVE  Keeps(d, g)
<1>1. \A i \in Item : d.tries[i] \in Nat /\ e.tries[i] \in Nat /\ g.tries[i] \in Nat
  BY DEF Good, Store
<1> QED BY <1>1, KeepsTwice

\* reconcile_artifact_commits
LEMMA ReconciledGood ==
  ASSUME NEW d, Good(d), NEW e, e = Reconciled(d)
  PROVE  Good(e) /\ Keeps(d, e)
<1> DEFINE open == {i \in Item : Journaled(d, i)}
           lost == {i \in open : Clash(d, i)}
           kept == open \ lost
           stage == [i \in Item |-> IF i \in lost THEN "failed_terminal" ELSE d.stage[i]]
           held == [i \in Item |-> IF i \in lost THEN "none" ELSE d.held[i]]
           new == {<<i, d.out[i], d.tries[i]>> : i \in {j \in kept : ~Moved(d, j, d.tries[j])}}
           given == [d EXCEPT !.stage = stage, !.held = held]
           now == [d EXCEPT !.stage = stage, !.held = held, !.dirs = @ \cup new]
<1>1. e = IF kept = {} THEN now ELSE Aggregate(Committed(now, kept))
  BY DEF Reconciled
<1>2. d \in Store
  BY DEF Good
<1>3. /\ stage \in Table /\ held \in [Item -> {"none", "live", "expired", "revoked"}]
      /\ new \subseteq Item \X Key \X Nat
  BY <1>2 DEF Store, Table, StageState, TerminalStates
<1>4. /\ \A i \in Item : i \in lost => stage[i] = "failed_terminal" /\ held[i] = "none"
      /\ \A i \in Item : i \notin lost => stage[i] = d.stage[i] /\ held[i] = d.held[i]
      /\ \A i \in open : d.stage[i] = "committing" /\ i \in Item
      /\ lost \subseteq open /\ kept \subseteq open /\ kept \cap lost = {}
  BY DEF Journaled
<1>5. /\ \A i \in kept : ~Moved(d, i, d.tries[i]) => ~DirExists(d, i, d.out[i]) /\ <<i, d.out[i], d.tries[i]>> \in new
      /\ \A x \in new : \E i \in kept : x = <<i, d.out[i], d.tries[i]>> /\ ~Moved(d, i, d.tries[i])
  BY DEF Clash
<1> HIDE DEF open, lost, kept, stage, held, new
<1>6. /\ given.stage = stage /\ given.held = held /\ given.tries = d.tries /\ given.made = d.made
      /\ given.out = d.out /\ given.dirs = d.dirs /\ given.review = d.review /\ given \in Store
  BY <1>2, <1>3 DEF Store
<1>7. now = [given EXCEPT !.dirs = d.dirs \cup new]
  BY <1>2 DEF Store
<1>8. /\ now.stage = stage /\ now.held = held /\ now.tries = d.tries /\ now.made = d.made
      /\ now.out = d.out /\ now.dirs = d.dirs \cup new /\ now.review = d.review /\ now \in Store
  BY <1>2, <1>3 DEF Store
<1> HIDE DEF given, now
<1>9. Good(given) /\ Keeps(d, given)
  <2>1. \A i \in Item : Falls(d, i, given.stage[i])
    BY <1>4, <1>6 DEF Falls, Unreached, CanceledStates, ActiveStates
  <2>2. \A i \in Item : given.held[i] # "none" => given.stage[i] \in ActiveStates
    BY <1>4, <1>6 DEF Good, HeldInv
  <2>3. \A i \in Item : given.stage[i] \in {"leased", "committing"} => Unrevoked(given, i)
    BY <1>4, <1>6 DEF Good, HeldInv, Unrevoked
  <2> QED BY <1>6, <2>1, <2>2, <2>3, FallsGood
<1>10. Good(now) /\ Keeps(d, now)
  <2>1. \A i \in kept : i \in Item
    BY <1>4
  <2>2. DirInv(now)
    <3>1. \A x, y \in now.dirs : x[1] = y[1] /\ x[2] = y[2] => x = y
      <4> SUFFICES ASSUME NEW x \in now.dirs, NEW y \in now.dirs, x[1] = y[1], x[2] = y[2] PROVE x = y
        OBVIOUS
      <4>1. CASE x \in new /\ y \in d.dirs
        BY <1>5, <4>1 DEF DirExists
      <4>2. CASE x \in d.dirs /\ y \in new
        BY <1>5, <4>2 DEF DirExists
      <4>3. CASE x \in new /\ y \in new
        BY <1>5, <4>3
      <4>4. CASE x \in d.dirs /\ y \in d.dirs
        BY <4>4 DEF Good, DirInv
      <4> QED BY <1>8, <4>1, <4>2, <4>3, <4>4
    <3>2. \A x \in now.dirs : x[3] <= now.tries[x[1]] /\ (x[3] = now.tries[x[1]] => x[2] = now.out[x[1]])
      <4> SUFFICES ASSUME NEW x \in now.dirs
                   PROVE  x[3] <= d.tries[x[1]] /\ (x[3] = d.tries[x[1]] => x[2] = d.out[x[1]])
        BY <1>8
      <4>1. CASE x \in new
        BY <1>2, <1>5, <2>1, <4>1 DEF Store
      <4>2. CASE x \in d.dirs
        BY <4>2 DEF Good, DirInv
      <4> QED BY <1>8, <4>1, <4>2
    <3>3. \A i \in Item : now.stage[i] = "succeeded" /\ i[2] # Gate => Moved(now, i, now.made[i])
      BY <1>4, <1>8 DEF Good, DirInv, Moved
    <3> QED BY <3>1, <3>2, <3>3 DEF DirInv
  <2>3. Counted(now) /\ HeldInv(now) /\ ChainInv(now) /\ ReviewInv(now)
    BY <1>6, <1>8, <1>9 DEF Good, Counted, HeldInv, Unrevoked, ChainInv, ReviewInv
  <2>4. Keeps(d, now)
    BY <1>6, <1>8, <1>9 DEF Keeps, Grows, Closes, SuccessStays
  <2> QED BY <1>8, <2>2, <2>3, <2>4 DEF Good
<1>11. CASE kept = {}
  BY <1>1, <1>10, <1>11
<1>12. CASE kept # {}
  <2> DEFINE c == Committed(now, kept)
  <2>1. \A i \in kept : now.stage[i] \in ActiveStates /\ Moved(now, i, now.tries[i])
    <3> TAKE i \in kept
    <3>1. i \in Item /\ now.stage[i] = "committing" /\ now.tries[i] = d.tries[i]
      BY <1>4, <1>8
    <3>2. CASE Moved(d, i, d.tries[i])
      BY <1>8, <3>1, <3>2 DEF Moved, ActiveStates
    <3>3. CASE ~Moved(d, i, d.tries[i])
      <4>1. <<i, d.out[i], d.tries[i]>> \in now.dirs
        BY <1>5, <1>8, <3>3
      <4> QED BY <3>1, <4>1 DEF Moved, ActiveStates
    <3> QED BY <3>2, <3>3
  <2>2. kept \in SUBSET Item
    BY <1>4
  <2>3. Good(c) /\ Keeps(now, c)
    BY <1>10, <2>1, <2>2, CommittedGood
  <2>4. e = Aggregate(c)
    BY <1>1, <1>12
  <2> HIDE DEF c
  <2>5. Good(e) /\ Keeps(c, e)
    BY <2>3, <2>4, AggregateGood
  <2> QED BY <1>10, <2>3, <2>5, GoodTwice
<1> QED BY <1>11, <1>12

\* recover_expired
LEMMA RecoveredGood ==
  ASSUME NEW d, Good(d), NEW e, e = Recovered(d)
  PROVE  Good(e) /\ Keeps(d, e)
<1> DEFINE out == Expired(d)
           next(i) == IF i[2] \in Remote THEN "recovering"
                      ELSE IF d.tries[i] < d.budget[i] THEN "ready" ELSE "failed_terminal"
           stage == [i \in Item |-> IF i \in out THEN next(i) ELSE d.stage[i]]
           held == [i \in Item |-> IF i \notin out THEN d.held[i]
                                   ELSE IF i[2] \in Remote THEN "revoked" ELSE "none"]
           now == [d EXCEPT !.stage = stage, !.held = held]
<1>1. e = Aggregate(now)
  BY DEF Recovered, Settled
<1>2. d \in Store
  BY DEF Good
<1>3. stage \in Table /\ held \in [Item -> {"none", "live", "expired", "revoked"}]
  BY <1>2 DEF Store, Table, StageState, TerminalStates, ActiveStates
<1>4. \A i \in Item :
        \/ i \notin out /\ stage[i] = d.stage[i] /\ held[i] = d.held[i]
        \/ /\ d.held[i] = "expired"
           /\ \/ stage[i] = "recovering" /\ held[i] = "revoked"
              \/ stage[i] \in {"ready", "failed_terminal"} /\ held[i] = "none"
  BY DEF Expired
<1> HIDE DEF stage, held, out
<1>5. /\ now.stage = stage /\ now.held = held /\ now.tries = d.tries /\ now.made = d.made
      /\ now.out = d.out /\ now.dirs = d.dirs /\ now.review = d.review /\ now \in Store
  BY <1>2, <1>3 DEF Store
<1> HIDE DEF now
<1>6. Good(now) /\ Keeps(d, now)
  <2>1. \A i \in Item : Falls(d, i, now.stage[i])
    BY <1>4, <1>5 DEF Good, HeldInv, Falls, Unreached, CanceledStates, ActiveStates
  <2>2. \A i \in Item : now.held[i] # "none" => now.stage[i] \in ActiveStates
    BY <1>4, <1>5 DEF Good, HeldInv, ActiveStates
  <2>3. \A i \in Item : now.stage[i] \in {"leased", "committing"} => Unrevoked(now, i)
    BY <1>4, <1>5 DEF Good, HeldInv, Unrevoked
  <2> QED BY <1>5, <2>1, <2>2, <2>3, FallsGood
<1>7. Good(e) /\ Keeps(now, e)
  BY <1>1, <1>6, AggregateGood
<1> QED BY <1>6, <1>7, GoodTwice

LEMMA ResumedGood ==
  ASSUME NEW d, Good(d), NEW e, e = Resumed(d)
  PROVE  Good(e) /\ Keeps(d, e)
<1>1. PICK x : x = Reconciled(d)
  OBVIOUS
<1>2. PICK y : y = Recovered(x)
  OBVIOUS
<1>3. PICK z : z = Refresh(y)
  OBVIOUS
<1>4. Good(x) /\ Keeps(d, x)
  BY <1>1, ReconciledGood
<1>5. Good(y) /\ Keeps(x, y)
  BY <1>2, <1>4, RecoveredGood
<1>6. Good(z) /\ Keeps(y, z)
  BY <1>3, <1>5, RefreshGood
<1>7. e = Aggregate(z)
  BY <1>1, <1>2, <1>3 DEF Resumed
<1>8. Good(e) /\ Keeps(z, e)
  BY <1>6, <1>7, AggregateGood
<1>9. Keeps(d, y)
  BY <1>4, <1>5, GoodTwice
<1>10. Keeps(d, z)
  BY <1>5, <1>6, <1>9, GoodTwice
<1> QED BY <1>6, <1>8, <1>10, GoodTwice

LEMMA LeasedType ==
  ASSUME NEW d \in Store, NEW stage \in Table, NEW tries \in [Item -> Nat],
         NEW held \in [Item -> {"none", "live", "expired", "revoked"}],
         NEW out \in [Item -> Key], NEW cand \in [Task -> {"open", "running", "done", "spent"}]
  PROVE  [d EXCEPT !.stage = stage, !.tries = tries, !.held = held, !.out = out, !.cand = cand] \in Store
BY DEF Store

\* lease_next of a ready stage, for one attempt more.
LEMMA LeasedGood ==
  ASSUME NEW d, Good(d), NEW i \in Item, d.stage[i] = "ready", i[2] # Gate, d.tries[i] < MaxTries[i],
         NEW e, e = Leased(d, i)
  PROVE  /\ Good(e) /\ Grows(d, e) /\ SuccessStays(d, e) /\ e.tries[i] = d.tries[i] + 1
         /\ \A j \in Item : j # i => e.stage[j] = d.stage[j]
<1> DEFINE stage == [d.stage EXCEPT ![i] = IF IsPicture(i) THEN "running" ELSE "leased"]
           tries == [d.tries EXCEPT ![i] = @ + 1]
           held == [d.held EXCEPT ![i] = "live"]
           out == [d.out EXCEPT ![i] = d.key[i]]
           cand == [t \in Task |-> IF Picture(t) = i THEN "running" ELSE d.cand[t]]
<1>1. d \in Store
  BY DEF Good
<1>2. e = [d EXCEPT !.stage = stage, !.tries = tries, !.held = held, !.out = out, !.cand = cand]
  BY <1>1 DEF Leased, Store
<1>3. /\ stage \in Table /\ tries \in [Item -> Nat] /\ held \in [Item -> {"none", "live", "expired", "revoked"}]
      /\ out \in [Item -> Key] /\ cand \in [Task -> {"open", "running", "done", "spent"}]
  BY <1>1 DEF Store, Table, StageState, ActiveStates
<1>4. /\ stage[i] \in {"running", "leased"} /\ tries[i] = d.tries[i] + 1 /\ held[i] = "live"
      /\ \A j \in Item : j # i => /\ stage[j] = d.stage[j] /\ tries[j] = d.tries[j]
                                  /\ held[j] = d.held[j] /\ out[j] = d.out[j]
  BY <1>1 DEF Store, Table
<1> HIDE DEF stage, tries, held, out, cand
<1>5. /\ e.stage = stage /\ e.tries = tries /\ e.held = held /\ e.out = out
      /\ e.made = d.made /\ e.dirs = d.dirs /\ e.review = d.review /\ e \in Store
  <2>1. [d EXCEPT !.stage = stage, !.tries = tries, !.held = held, !.out = out, !.cand = cand] \in Store
    BY <1>1, <1>3, LeasedType
  <2>2. e \in Store
    BY <1>2, <2>1, Zenon
  <2> QED BY <1>1, <1>2, <2>2 DEF Store
<1>6. SuccessStays(d, e) /\ \A j \in Item : e.stage[j] = "succeeded" => d.stage[j] = "succeeded"
  BY <1>4, <1>5 DEF SuccessStays
<1>7. Counted(e) /\ Grows(d, e)
  <2>1. \A j \in Item : d.tries[j] \in Nat /\ d.made[j] \in Nat /\ MaxTries[j] \in Nat
    BY <1>1, BatchRunAssumption DEF Store
  <2> QED BY <1>4, <1>5, <2>1 DEF Good, Counted, Grows
<1>8. HeldInv(e)
  BY <1>4, <1>5 DEF Good, HeldInv, Unrevoked, ActiveStates
<1>9. DirInv(e)
  <2>1. \A x \in d.dirs : x[1] \in Item /\ x[3] \in Nat
    BY <1>1 DEF Store
  <2>2. \A x \in d.dirs : x[3] <= tries[x[1]] /\ (x[3] = tries[x[1]] => x[2] = out[x[1]])
    <3> TAKE x \in d.dirs
    <3>1. d.tries[x[1]] \in Nat /\ x[3] <= d.tries[x[1]] /\ (x[3] = d.tries[x[1]] => x[2] = d.out[x[1]])
      BY <1>1, <2>1 DEF Good, DirInv, Store
    <3> QED BY <1>4, <2>1, <3>1
  <2> QED BY <1>5, <1>6, <2>2 DEF Good, DirInv, Moved
<1>10. ChainInv(e)
  <2>1. /\ \A t \in Task, s \in Stage : <<t, s>> \in Item
        /\ \A s \in Stage : Below(s) \subseteq Stage
    BY ItemFacts DEF Below, Stage
  <2>2. \A j \in Item : e.stage[j] \notin Unreached => d.stage[j] \notin Unreached
    BY <1>4, <1>5 DEF Unreached, CanceledStates
  <2> QED BY <1>6, <2>1, <2>2 DEF Good, ChainInv, ChainIn, SuccessStays
<1>11. ReviewInv(e)
  <2>1. \A t \in Task : Picture(t) \in Item /\ <<t, Gate>> \in Item
    BY ItemFacts DEF Picture
  <2> QED BY <1>5, <1>6, <2>1 DEF Good, ReviewInv, SuccessStays
<1> QED BY <1>4, <1>5, <1>6, <1>7, <1>8, <1>9, <1>10, <1>11 DEF Good

\* A stage in hand that ends, or waits for its recovery, and what that routes.
LEMMA EndedFalls ==
  ASSUME NEW d, Good(d), NEW i \in Item, d.stage[i] \in ActiveStates,
         NEW s \in {"recovering", "waiting_manual", "recovering_other", "rejected", "ready", "failed_terminal"},
         NEW stage, stage = Ended(d.stage, i, s)
  PROVE  /\ stage \in Table /\ stage[i] = s
         /\ \A j \in Item : j # i /\ stage[j] # d.stage[j] =>
              d.stage[j] \in {"pending", "ready"} /\ stage[j] \in {"ready", "canceled"}
         /\ \A j \in Item : Falls(d, j, stage[j])
<1>1. d.stage \in Table
  BY DEF Good, Store
<1>2. s \in StageState
  BY DEF StageState, ActiveStates, TerminalStates
<1>3. /\ stage \in Table /\ stage[i] = s
      /\ \A j \in Item : j # i /\ stage[j] # d.stage[j] =>
           \/ d.stage[j] \in {"pending", "ready"} /\ stage[j] = "canceled"
           \/ d.stage[j] = "pending" /\ stage[j] = "ready" /\ i[2] \in Evidence /\ j[1] = i[1] /\ j[2] = Debug
  BY <1>1, <1>2, EndedFacts
<1>4. \A j \in Item : Falls(d, j, stage[j])
  <2> TAKE j \in Item
  <2>1. CASE j = i
    BY <1>3, <2>1 DEF Falls, ActiveStates, Unreached, CanceledStates
  <2>2. CASE j # i /\ j[2] = Debug /\ i[2] \in Evidence /\ j[1] = i[1] /\ d.stage[j] = "pending" /\ stage[j] = "ready"
    <3>1. i[1] \in Task /\ i[2] \in Stage /\ i = <<i[1], i[2]>> /\ j[2] \in Stage
      BY ItemFacts
    <3>2. Gate \in Below(i[2])
      <4>1. Gate \in Nat /\ Gate > 1 /\ Debug # 0
        BY <2>2, <3>1, ItemFacts DEF Stage
      <4>2. Debug \in Nat
        BY DagAssumption
      <4>3. Evidence \subseteq (Gate + 1)..(Debug - 1)
        BY <4>1, BatchRunAssumption
      <4>4. i[2] \in (Gate + 1)..(Debug - 1)
        BY <2>2, <4>3
      <4> HIDE <2>2
      <4> QED BY <4>1, <4>2, <4>4 DEF Below
    <3>3. d.stage[<<i[1], Gate>>] = "succeeded"
      BY <3>1, <3>2 DEF Good, ChainInv, ChainIn, ActiveStates, Unreached, CanceledStates
    <3> QED BY <2>2, <3>3 DEF Falls, ActiveStates
  <2>3. CASE j # i /\ d.stage[j] \in {"pending", "ready"} /\ stage[j] = "canceled"
    BY <2>3 DEF Falls, ActiveStates, Unreached, CanceledStates
  <2>4. CASE j # i /\ stage[j] = d.stage[j]
    BY <2>4 DEF Falls
  <2> QED BY <1>3, <2>1, <2>2, <2>3, <2>4
<1> QED BY <1>3, <1>4

\* fail() of a stage under its lease.
LEMMA FailedGood ==
  ASSUME NEW d, Good(d), NEW i \in Item, d.held[i] = "live", NEW outcome, NEW e, e = Failed(d, i, outcome)
  PROVE  Good(e) /\ Keeps(d, e)
<1> DEFINE s == NextState(d, i, outcome)
           stage == Ended(d.stage, i, s)
           mine == IF s \in {"recovering", "recovering_other"} THEN "revoked" ELSE "none"
           held == [d.held EXCEPT ![i] = mine]
           later == IF s = "ready" /\ outcome = "later" THEN d.later \cup {i} ELSE d.later \ {i}
           cand == [t \in Task |-> IF Picture(t) # i THEN d.cand[t]
                                   ELSE IF s = "ready" THEN "open" ELSE "spent"]
           now == [d EXCEPT !.stage = stage, !.held = held, !.later = later, !.cand = cand]
<1>1. d \in Store /\ d.stage \in Table
  BY DEF Good, Store
<1>2. s \in {"recovering", "waiting_manual", "recovering_other", "rejected", "ready", "failed_terminal"}
  BY Zenon DEF NextState
<1>3. e = Aggregate(now)
  BY <1>1 DEF Failed, Store
<1>4. d.stage[i] \in ActiveStates
  BY DEF Good, HeldInv
<1> HIDE DEF s
<1>5. stage = Ended(d.stage, i, s)
  OBVIOUS
<1>6. /\ stage \in Table /\ stage[i] = s
      /\ \A j \in Item : j # i /\ stage[j] # d.stage[j] =>
           d.stage[j] \in {"pending", "ready"} /\ stage[j] \in {"ready", "canceled"}
      /\ \A j \in Item : Falls(d, j, stage[j])
  BY <1>2, <1>4, <1>5, EndedFalls
<1>7. /\ held \in [Item -> {"none", "live", "expired", "revoked"}] /\ later \in SUBSET Item
      /\ cand \in [Task -> {"open", "running", "done", "spent"}]
  BY <1>1 DEF Store
<1>8. held[i] = mine /\ \A j \in Item : j # i => held[j] = d.held[j]
  BY <1>1 DEF Store
<1> HIDE DEF stage, held, later, cand
<1>9. /\ now.stage = stage /\ now.held = held /\ now.tries = d.tries /\ now.made = d.made
      /\ now.out = d.out /\ now.dirs = d.dirs /\ now.review = d.review /\ now \in Store
  BY <1>1, <1>6, <1>7 DEF Store
<1> HIDE DEF now
<1>10. Good(now) /\ Keeps(d, now)
  <2>1. \A j \in Item : Falls(d, j, now.stage[j])
    BY <1>6, <1>9
  <2>2. \A j \in Item : now.held[j] # "none" => now.stage[j] \in ActiveStates
    BY <1>2, <1>6, <1>8, <1>9 DEF Good, HeldInv, ActiveStates
  <2>3. \A j \in Item : now.stage[j] \in {"leased", "committing"} => Unrevoked(now, j)
    BY <1>2, <1>6, <1>8, <1>9 DEF Good, HeldInv, Unrevoked
  <2> QED BY <1>9, <2>1, <2>2, <2>3, FallsGood
<1>11. Good(e) /\ Keeps(now, e)
  BY <1>3, <1>10, AggregateGood
<1> QED BY <1>10, <1>11, GoodTwice

\* What has succeeded is only queued again by an operator who asks for one attempt
\* more of it, or of something before it.
Repeated(d, e) ==
  \A i \in Item : d.stage[i] = "succeeded" /\ e.stage[i] # "succeeded" =>
    \E s \in 1..i[2] : e.budget[<<i[1], s>>] > d.tries[<<i[1], s>>] /\ e.stage[<<i[1], s>>] = "ready"

LEMMA KeptNotRepeated == ASSUME NEW d, NEW e, SuccessStays(d, e) PROVE Repeated(d, e)
BY DEF SuccessStays, Repeated

\* decide_edit: an acceptance, a rejection and a cancellation keep what has
\* succeeded; a regeneration queues the picture again.
LEMMA DecidedNow ==
  ASSUME NEW d, Good(d), NEW t \in Task, d.review[t] = "pending", NEW now \in Store,
         now.tries = d.tries, now.made = d.made, now.out = d.out, now.dirs = d.dirs, now.held = d.held,
         now.review[t] # "pending", \A u \in Task : u # t => now.review[u] = d.review[u],
         \A i \in Item : now.stage[i] # d.stage[i] =>
           \/ i = <<t, Gate>> /\ now.stage[i] \in {"succeeded", "rejected", "canceled", "pending"}
           \/ i = Picture(t) /\ now.stage[i] = "ready" /\ now.stage[<<t, Gate>>] = "pending"
           \/ i \in After(<<t, Gate>>) /\ now.stage[i] = "canceled"
  PROVE  /\ Good(now) /\ Grows(d, now) /\ Closes(d, now)
         /\ \A i \in Item : d.stage[i] = "succeeded" /\ now.stage[i] # "succeeded" =>
              /\ i = Picture(t) /\ now.stage[i] = "ready"
<1> DEFINE gate == <<t, Gate>>
           pic == Picture(t)
<1>1. d \in Store /\ d.stage \in Table
  BY DEF Good, Store
<1>2. /\ gate \in Item /\ pic \in Item /\ gate[1] = t /\ gate[2] = Gate /\ pic[1] = t /\ pic[2] = Gate - 1 /\ gate # pic
      /\ pic = <<t, Gate - 1>> /\ gate = <<t, Gate>>
  <2>1. Gate \in Stage /\ Gate - 1 \in Stage /\ Gate # Gate - 1
    BY ItemFacts DEF Stage
  <2>2. gate \in Item /\ gate[1] = t /\ gate[2] = Gate
    BY <2>1, ItemFacts
  <2>3. pic \in Item /\ pic[1] = t /\ pic[2] = Gate - 1
    BY <2>1, ItemFacts DEF Picture
  <2> QED BY <2>1, <2>2, <2>3 DEF Picture
<1>3. d.stage[pic] = "succeeded" /\ d.stage[gate] # "succeeded"
  BY DEF Good, ReviewInv
<1>4. \A i \in After(gate) : i \in Item /\ i[1] = t /\ i[2] > Gate /\ d.stage[i] \in Unreached
  <2> TAKE i \in After(gate)
  <2>1. PICK s \in (Gate + 1)..Last : i = <<t, s>>
    BY <1>2 DEF After
  <2>2. s \in Stage /\ s > Gate /\ Gate \in Below(s)
    BY ItemFacts DEF Below, Stage
  <2>3. d.stage[i] \in Unreached
    BY <1>2, <1>3, <2>1, <2>2 DEF Good, ChainInv, ChainIn
  <2> QED BY <2>1, <2>2, <2>3, ItemFacts
<1>5. \A i \in Item : now.stage[i] # d.stage[i] =>
        \/ i = gate /\ now.stage[i] \in {"succeeded", "rejected", "canceled", "pending"}
        \/ i = pic /\ now.stage[i] = "ready" /\ now.stage[gate] = "pending"
        \/ i \in After(gate) /\ now.stage[i] = "canceled"
  OBVIOUS
<1> HIDE DEF gate, pic
<1>6. Counted(now) /\ Grows(d, now)
  BY <1>1 DEF Good, Counted, Grows, Store
<1>7. \A i \in Item : now.stage[i] \in ActiveStates => d.stage[i] = now.stage[i]
  BY <1>5 DEF ActiveStates
<1>8. HeldInv(now)
  <2>1. d.held[pic] = "none" /\ d.held[gate] = "none" /\ \A i \in After(gate) : d.held[i] = "none"
    BY <1>2, <1>3, <1>4 DEF Good, HeldInv, ActiveStates, Unreached, CanceledStates
  <2>2. \A i \in Item : now.stage[i] # d.stage[i] => d.held[i] = "none"
    BY <1>5, <2>1
  <2>3. \A i \in Item : now.held[i] # "none" => now.stage[i] \in ActiveStates
    BY <2>2 DEF Good, HeldInv
  <2>4. \A i \in Item : now.stage[i] \in {"leased", "committing"} => Unrevoked(now, i)
    BY <1>7 DEF Good, HeldInv, Unrevoked, ActiveStates
  <2>5. \A i \in Item : i[2] = Gate => now.stage[i] \notin ActiveStates
    BY <1>7 DEF Good, HeldInv
  <2> QED BY <2>3, <2>4, <2>5 DEF HeldInv
<1>9. \A i \in Item : now.stage[i] = "succeeded" => d.stage[i] = "succeeded" \/ i[2] = Gate
  BY <1>2, <1>5
<1>10. DirInv(now)
  BY <1>9 DEF Good, DirInv, Moved
<1>11. ChainInv(now)
  <2> SUFFICES ASSUME NEW u \in Task, NEW s \in Stage, now.stage[<<u, s>>] \notin Unreached, NEW r \in Below(s)
               PROVE  now.stage[<<u, r>>] = "succeeded"
    BY DEF ChainInv, ChainIn
  <2>1. <<u, s>> \in Item /\ r \in Stage /\ <<u, r>> \in Item /\ s \in Nat /\ r \in 1..(s - 1)
    BY ItemFacts DEF Below, Stage
  <2>2. d.stage[<<u, r>>] = "succeeded"
    <3>1. CASE <<u, s>> = gate
      <4>1. u = t /\ s = Gate /\ (r = Gate - 1 \/ r \in Below(Gate - 1)) /\ Gate - 1 \in Stage
        <5>1. u = t /\ s = Gate
          BY <1>2, <3>1, Zenon
        <5>2. Gate - 1 \in Stage /\ Gate \in Nat
          BY ItemFacts DEF Stage
        <5> QED BY <2>1, <5>1, <5>2 DEF Below
      <4>2. d.stage[<<t, Gate - 1>>] \notin Unreached
        BY <1>2, <1>3 DEF Unreached, CanceledStates
      <4> QED BY <1>2, <1>3, <4>1, <4>2 DEF Good, ChainInv, ChainIn
    <3>2. CASE <<u, s>> # gate
      <4>1. d.stage[<<u, s>>] \notin Unreached
        BY <1>3, <1>5, <2>1, <3>2 DEF Unreached, CanceledStates
      <4> QED BY <4>1 DEF Good, ChainInv, ChainIn
    <3> QED BY <3>1, <3>2
  <2>3. CASE now.stage[<<u, r>>] = d.stage[<<u, r>>]
    BY <2>2, <2>3
  <2>4. CASE <<u, r>> = gate
    BY <1>3, <2>2, <2>4
  <2>5. CASE <<u, r>> \in After(gate)
    BY <1>4, <2>2, <2>5 DEF Unreached, CanceledStates
  <2>6. CASE <<u, r>> = pic /\ now.stage[<<u, r>>] = "ready" /\ now.stage[gate] = "pending"
    <3>1. u = t /\ r = Gate - 1
      BY <1>2, <2>6
    <3>2. s # Gate
      BY <2>6, <3>1 DEF gate, Unreached
    <3>3. <<u, s>> \in After(gate)
      BY <1>2, <2>1, <3>1, <3>2, ItemFacts DEF After, Stage
    <3>4. d.stage[<<u, s>>] \in Unreached /\ <<u, s>> # gate /\ <<u, s>> # pic
      <4>1. Gate \in Nat
        BY ItemFacts DEF Stage
      <4> QED BY <1>2, <1>4, <3>3, <4>1
    <3> QED BY <1>5, <2>1, <3>4 DEF Unreached, CanceledStates
  <2> QED BY <1>5, <2>1, <2>3, <2>4, <2>5, <2>6
<1>12. \A i \in Item : d.stage[i] = "succeeded" /\ now.stage[i] # "succeeded" => i = pic /\ now.stage[i] = "ready"
  BY <1>3, <1>4, <1>5 DEF Unreached, CanceledStates
<1>13. ReviewInv(now)
  <2> SUFFICES ASSUME NEW u \in Task, now.review[u] = "pending"
               PROVE  now.stage[Picture(u)] = "succeeded" /\ now.stage[<<u, Gate>>] # "succeeded"
    BY DEF ReviewInv
  <2>1. u # t /\ d.review[u] = "pending"
    OBVIOUS
  <2>2. /\ Picture(u) \in Item /\ <<u, Gate>> \in Item /\ Picture(u)[1] = u /\ <<u, Gate>>[1] = u
    BY ItemFacts DEF Picture
  <2>3. now.stage[Picture(u)] = d.stage[Picture(u)] /\ now.stage[<<u, Gate>>] = d.stage[<<u, Gate>>]
    BY <1>2, <1>4, <1>5, <2>1, <2>2
  <2> QED BY <2>1, <2>3 DEF Good, ReviewInv
<1>14. Closes(d, now)
  <2>1. \A i \in Finalizers : i \in Item /\ i # gate /\ i # pic
    <3>1. Evaluate # Gate /\ Evaluate # Gate - 1
      BY ItemFacts DEF Stage
    <3> QED BY <1>2, <3>1 DEF Finalizers
  <2> QED BY <1>5, <2>1 DEF Closes, Closing, ActiveStates, Unreached, CanceledStates
<1> QED BY <1>6, <1>8, <1>10, <1>11, <1>12, <1>13, <1>14 DEF Good, pic

\* ... and what it does to the rest of the batch.
LEMMA DecidedThen ==
  ASSUME NEW d, Good(d), NEW t \in Task, NEW now, Good(now), Grows(d, now), Closes(d, now),
         \A i \in Item : d.stage[i] = "succeeded" /\ now.stage[i] # "succeeded" =>
           i = Picture(t) /\ now.stage[i] = "ready" /\ now.budget[i] > d.tries[i],
         NEW e, e = Aggregate(Refresh(now))
  PROVE  Good(e) /\ Grows(d, e) /\ Closes(d, e) /\ Repeated(d, e)
<1>1. PICK r : r = Refresh(now)
  OBVIOUS
<1>2. /\ Good(r) /\ Keeps(now, r) /\ Rest(now, r)
      /\ \A i \in Item : now.stage[i] # "pending" => r.stage[i] = now.stage[i]
  BY <1>1, RefreshGood
<1>3. /\ Good(e) /\ Keeps(r, e) /\ Rest(r, e)
      /\ \A i \in Item : i[2] # Evaluate => e.stage[i] = r.stage[i]
  BY <1>1, <1>2, AggregateGood
<1>4. Keeps(now, e)
  BY <1>2, <1>3, GoodTwice
<1>5. Grows(d, e)
  BY <1>2, <1>3 DEF Grows, Rest
<1>6. \A i \in Finalizers : EvidenceOf(i) \in Item /\ i \in Item
  BY ItemFacts DEF EvidenceOf, Finalizers
<1>7. Closes(d, e)
  BY <1>4, <1>6 DEF Closes, Keeps, SuccessStays
<1>9. Repeated(d, e)
  <2> SUFFICES ASSUME NEW i \in Item, d.stage[i] = "succeeded", e.stage[i] # "succeeded"
               PROVE  \E s \in 1..i[2] : e.budget[<<i[1], s>>] > d.tries[<<i[1], s>>] /\ e.stage[<<i[1], s>>] = "ready"
    BY DEF Repeated
  <2>1. i = Picture(t) /\ now.stage[i] = "ready" /\ now.budget[i] > d.tries[i]
    BY <1>4 DEF Keeps, SuccessStays
  <2>2. i[2] \in 1..i[2] /\ i = <<i[1], i[2]>> /\ i[2] # Evaluate
    <3>1. i[2] = Gate - 1 /\ Gate - 1 \in Stage /\ Gate - 1 # Evaluate /\ i = <<i[1], i[2]>>
      BY <2>1, ItemFacts DEF Picture, Stage
    <3> QED BY <3>1 DEF Stage
  <2>3. e.stage[i] = "ready" /\ e.budget[i] > d.tries[i]
    BY <1>2, <1>3, <2>1, <2>2 DEF Rest
  <2> QED BY <2>2, <2>3
<1> QED BY <1>3, <1>5, <1>7, <1>9

LEMMA DecidedGood ==
  ASSUME NEW d, Good(d), NEW t \in Task, d.review[t] = "pending",
         NEW decision \in {"accepted", "rejected", "canceled", "regenerate"}, NEW e, e = Decided(d, t, decision)
  PROVE  Good(e) /\ Grows(d, e) /\ Closes(d, e) /\ Repeated(d, e)
<1> DEFINE gate == <<t, Gate>>
           pic == Picture(t)
           noted == [d EXCEPT !.review[t] = IF decision \in {"accepted", "rejected"} THEN decision ELSE "other"]
<1>1. d \in Store /\ d.stage \in Table
  BY DEF Good, Store
<1>2. gate \in Item /\ pic \in Item
  BY ItemFacts DEF Picture
<1>3. /\ noted \in Store /\ noted.stage = d.stage /\ noted.tries = d.tries /\ noted.made = d.made
      /\ noted.out = d.out /\ noted.dirs = d.dirs /\ noted.held = d.held /\ noted.budget = d.budget
      /\ noted.from = d.from /\ noted.accepted = d.accepted
      /\ noted.review[t] # "pending" /\ \A u \in Task : u # t => noted.review[u] = d.review[u]
  BY <1>1 DEF Store, Decision
<1>4. {"succeeded", "rejected", "canceled", "ready", "pending"} \subseteq StageState
  BY DEF StageState, TerminalStates, CanceledStates
<1>5. CASE decision = "accepted"
  <2> DEFINE picked == [noted EXCEPT !.stage[gate] = "succeeded", !.accepted[t] = d.made[pic]]
             now == [picked EXCEPT !.key[gate] = Digest(picked, picked.stage, gate)]
  <2>1. e = Aggregate(Refresh(now))
    BY <1>5, Zenon DEF Decided
  <2> HIDE DEF noted
  <2>2. /\ picked \in Store /\ picked.stage = [d.stage EXCEPT ![gate] = "succeeded"]
        /\ picked.tries = d.tries /\ picked.made = d.made
        /\ picked.out = d.out /\ picked.dirs = d.dirs /\ picked.held = d.held /\ picked.review = noted.review
    BY <1>1, <1>2, <1>3, <1>4 DEF Store, Table
  <2> HIDE DEF picked
  <2>3. Digest(picked, picked.stage, gate) \in Key
    BY <1>2, <2>2, DigestType DEF Store
  <2> HIDE DEF Digest
  <2>4. /\ now \in Store /\ now.stage = [d.stage EXCEPT ![gate] = "succeeded"]
        /\ now.tries = d.tries /\ now.made = d.made
        /\ now.out = d.out /\ now.dirs = d.dirs /\ now.held = d.held /\ now.review = noted.review
    BY <1>2, <2>2, <2>3 DEF Store
  <2> HIDE DEF now
  <2>5. /\ Good(now) /\ Grows(d, now) /\ Closes(d, now)
        /\ \A i \in Item : d.stage[i] = "succeeded" /\ now.stage[i] # "succeeded" =>
              i = pic /\ now.stage[i] = "ready"
    <3>1. now.review[t] # "pending" /\ \A u \in Task : u # t => now.review[u] = d.review[u]
      BY <1>3, <2>4
    <3>2. \A i \in Item : now.stage[i] # d.stage[i] =>
            \/ i = gate /\ now.stage[i] \in {"succeeded", "rejected", "canceled", "pending"}
            \/ i = pic /\ now.stage[i] = "ready" /\ now.stage[gate] = "pending"
            \/ i \in After(gate) /\ now.stage[i] = "canceled"
      BY <1>1, <1>2, <2>4 DEF Table
    <3>3. /\ now \in Store /\ now.tries = d.tries /\ now.made = d.made
          /\ now.out = d.out /\ now.dirs = d.dirs /\ now.held = d.held
      BY <2>4
    <3> QED BY <3>1, <3>2, <3>3, DecidedNow
  <2>6. \A i \in Item : d.stage[i] = "succeeded" => now.stage[i] = "succeeded"
    BY <1>1, <1>2, <2>4 DEF Table
  <2> QED BY <2>1, <2>5, <2>6, DecidedThen
<1>6. CASE decision = "rejected"
  <2> DEFINE now == [noted EXCEPT !.stage[gate] = "rejected"]
  <2>1. e = Aggregate(Refresh(now))
    BY <1>6, Zenon DEF Decided
  <2> HIDE DEF noted
  <2>2. /\ now \in Store /\ now.stage = [d.stage EXCEPT ![gate] = "rejected"]
        /\ now.tries = d.tries /\ now.made = d.made
        /\ now.out = d.out /\ now.dirs = d.dirs /\ now.held = d.held /\ now.review = noted.review
    BY <1>1, <1>2, <1>3, <1>4 DEF Store, Table
  <2> HIDE DEF now
  <2>3. /\ Good(now) /\ Grows(d, now) /\ Closes(d, now)
        /\ \A i \in Item : d.stage[i] = "succeeded" /\ now.stage[i] # "succeeded" =>
              i = pic /\ now.stage[i] = "ready"
    <3>1. now.review[t] # "pending" /\ \A u \in Task : u # t => now.review[u] = d.review[u]
      BY <1>3, <2>2
    <3>2. \A i \in Item : now.stage[i] # d.stage[i] =>
            \/ i = gate /\ now.stage[i] \in {"succeeded", "rejected", "canceled", "pending"}
            \/ i = pic /\ now.stage[i] = "ready" /\ now.stage[gate] = "pending"
            \/ i \in After(gate) /\ now.stage[i] = "canceled"
      BY <1>1, <1>2, <2>2 DEF Table
    <3>3. /\ now \in Store /\ now.tries = d.tries /\ now.made = d.made
          /\ now.out = d.out /\ now.dirs = d.dirs /\ now.held = d.held
      BY <2>2
    <3> QED BY <3>1, <3>2, <3>3, DecidedNow
  <2>4. \A i \in Item : d.stage[i] = "succeeded" => now.stage[i] = "succeeded"
    <3>1. now.stage[pic] = d.stage[pic]
      <4>1. gate # pic
        BY ItemFacts DEF Picture, Stage
      <4> QED BY <1>1, <1>2, <2>2, <4>1 DEF Table
    <3>2. d.stage[pic] = "succeeded"
      BY DEF Good, ReviewInv
    <3> QED BY <2>3, <3>1, <3>2
  <2> QED BY <2>1, <2>3, <2>4, DecidedThen
<1>7. CASE decision = "canceled"
  <2> DEFINE stage == [i \in Item |-> IF i = gate \/ (i \in After(gate) /\ d.stage[i] \notin TerminalStates)
                                      THEN "canceled" ELSE d.stage[i]]
             now == [noted EXCEPT !.stage = stage]
  <2>1. e = Aggregate(Refresh(now))
    BY <1>7, Zenon DEF Decided
  <2> HIDE DEF noted
  <2>2. stage \in Table
    BY <1>1, <1>4 DEF Table
  <2>3. /\ now \in Store /\ now.stage = stage
        /\ now.tries = d.tries /\ now.made = d.made
        /\ now.out = d.out /\ now.dirs = d.dirs /\ now.held = d.held /\ now.review = noted.review
    <3> HIDE DEF stage
    <3> QED BY <1>3, <2>2 DEF Store
  <2> HIDE DEF now
  <2>4. /\ Good(now) /\ Grows(d, now) /\ Closes(d, now)
        /\ \A i \in Item : d.stage[i] = "succeeded" /\ now.stage[i] # "succeeded" =>
              i = pic /\ now.stage[i] = "ready"
    <3>1. now.review[t] # "pending" /\ \A u \in Task : u # t => now.review[u] = d.review[u]
      BY <1>3, <2>3
    <3>2. \A i \in Item : now.stage[i] # d.stage[i] =>
            \/ i = gate /\ now.stage[i] \in {"succeeded", "rejected", "canceled", "pending"}
            \/ i = pic /\ now.stage[i] = "ready" /\ now.stage[gate] = "pending"
            \/ i \in After(gate) /\ now.stage[i] = "canceled"
      BY <1>1, <1>2, <2>3 DEF Table
    <3> QED BY <2>3, <3>1, <3>2, DecidedNow, SMTT(20)
  <2>5. \A i \in Item : now.stage[i] = "ready" => d.stage[i] = "ready"
    BY <2>3
  <2>6. \A i \in Item : d.stage[i] = "succeeded" => now.stage[i] = "succeeded"
    BY <2>4, <2>5
  <2> QED BY <2>1, <2>4, <2>6, DecidedThen
<1>8. CASE decision = "regenerate"
  <2> DEFINE stage == [[d.stage EXCEPT ![pic] = "ready"] EXCEPT ![gate] = "pending"]
             from == [d.from EXCEPT ![t] = d.made[pic]]
             budget == [d.budget EXCEPT ![pic] = AtLeast(@, d.tries[pic] + 1)]
             again == [noted EXCEPT !.stage[pic] = "ready", !.stage[gate] = "pending",
                               !.from[t] = d.made[pic], !.cand[t] = "open",
                               !.later = @ \ {pic}, !.budget[pic] = AtLeast(@, d.tries[pic] + 1)]
             now == [again EXCEPT !.key[pic] = Digest(again, again.stage, pic)]
  <2>1. e = Aggregate(Refresh(now))
    BY <1>8, Zenon DEF Decided
  <2> HIDE DEF noted
  <2>2. d.tries[pic] \in Nat /\ d.budget[pic] \in Nat /\ d.made[pic] \in Nat
    BY <1>1, <1>2 DEF Store
  <2>3. AtLeast(d.budget[pic], d.tries[pic] + 1) \in Nat /\ AtLeast(d.budget[pic], d.tries[pic] + 1) > d.tries[pic]
    BY <2>2 DEF AtLeast
  <2>4. stage \in Table /\ from \in [Task -> Nat] /\ budget \in [Item -> Nat] /\ budget[pic] > d.tries[pic]
    <3> HIDE DEF AtLeast
    <3> QED BY <1>1, <1>2, <1>4, <2>2, <2>3 DEF Store, Table
  <2>5. again = [noted EXCEPT !.stage = stage, !.from = from, !.cand = [noted.cand EXCEPT ![t] = "open"],
                              !.later = noted.later \ {pic}, !.budget = budget]
    BY <1>3 DEF Store
  <2> HIDE DEF again, stage, from, budget
  <2>6. /\ [noted.cand EXCEPT ![t] = "open"] \in [Task -> {"open", "running", "done", "spent"}]
        /\ noted.later \ {pic} \in SUBSET Item
    BY <1>3 DEF Store
  <2>7. /\ again \in Store /\ again.stage = stage /\ again.budget = budget
        /\ again.tries = d.tries /\ again.made = d.made
        /\ again.out = d.out /\ again.dirs = d.dirs /\ again.held = d.held /\ again.review = noted.review
    BY <1>3, <2>4, <2>5, <2>6 DEF Store
  <2>8. Digest(again, again.stage, pic) \in Key
    BY <1>2, <2>7, DigestType DEF Store
  <2>9. /\ now \in Store /\ now.stage = stage /\ now.budget = budget
        /\ now.tries = d.tries /\ now.made = d.made
        /\ now.out = d.out /\ now.dirs = d.dirs /\ now.held = d.held /\ now.review = noted.review
    BY <1>2, <2>7, <2>8 DEF Store
  <2> HIDE DEF now
  <2>10. now.stage = [d.stage EXCEPT ![pic] = "ready", ![gate] = "pending"]
    BY <2>9 DEF stage
  <2>11. /\ Good(now) /\ Grows(d, now) /\ Closes(d, now)
         /\ \A i \in Item : d.stage[i] = "succeeded" /\ now.stage[i] # "succeeded" =>
              i = pic /\ now.stage[i] = "ready"
    <3>1. now.review[t] # "pending" /\ \A u \in Task : u # t => now.review[u] = d.review[u]
      BY <1>3, <2>9
    <3>2. \A i \in Item : now.stage[i] # d.stage[i] =>
            \/ i = gate /\ now.stage[i] \in {"succeeded", "rejected", "canceled", "pending"}
            \/ i = pic /\ now.stage[i] = "ready" /\ now.stage[gate] = "pending"
            \/ i \in After(gate) /\ now.stage[i] = "canceled"
      BY <1>1, <1>2, <2>10 DEF Table
    <3> QED BY <2>9, <3>1, <3>2, DecidedNow, SMTT(20)
  <2>12. \A i \in Item : d.stage[i] = "succeeded" /\ now.stage[i] # "succeeded" =>
           i = Picture(t) /\ now.stage[i] = "ready" /\ now.budget[i] > d.tries[i]
    BY <2>4, <2>9, <2>11
  <2> QED BY <2>1, <2>11, <2>12, DecidedThen
<1> QED BY <1>5, <1>6, <1>7, <1>8

\* prepare_artifact_commit of a stage in hand, or the journal a recovery leaves open.
LEMMA PreparedGood ==
  ASSUME NEW d, Good(d), NEW i \in Item, d.held[i] # "none",
         NEW e, e = [d EXCEPT !.stage[i] = "committing", !.held[i] = "live"]
  PROVE  Good(e) /\ Keeps(d, e)
<1>1. d \in Store /\ d.stage[i] \in ActiveStates /\ i[2] # Gate
  BY DEF Good, HeldInv
<1>2. e \in Store
  BY <1>1 DEF Store, Table, StageState, ActiveStates
<1>3. /\ e.stage[i] = "committing" /\ e.held[i] = "live"
      /\ \A j \in Item : j # i => e.stage[j] = d.stage[j] /\ e.held[j] = d.held[j]
      /\ e.tries = d.tries /\ e.made = d.made /\ e.out = d.out /\ e.dirs = d.dirs /\ e.review = d.review
  BY <1>1 DEF Store, Table
<1>4. SuccessStays(d, e) /\ \A j \in Item : e.stage[j] = "succeeded" => d.stage[j] = "succeeded"
  BY <1>1, <1>3 DEF SuccessStays, ActiveStates
<1>5. HeldInv(e)
  BY <1>1, <1>3 DEF Good, HeldInv, Unrevoked, ActiveStates
<1>6. Counted(e) /\ DirInv(e)
  BY <1>3, <1>4 DEF Good, Counted, DirInv, Moved
<1>7. ChainInv(e)
  <2>1. /\ \A t \in Task, s \in Stage : <<t, s>> \in Item
        /\ \A s \in Stage : Below(s) \subseteq Stage
    BY ItemFacts DEF Below, Stage
  <2>2. \A j \in Item : e.stage[j] \notin Unreached => d.stage[j] \notin Unreached
    BY <1>1, <1>3 DEF ActiveStates, Unreached, CanceledStates
  <2> QED BY <1>4, <2>1, <2>2 DEF Good, ChainInv, ChainIn, SuccessStays
<1>8. ReviewInv(e)
  <2>1. \A t \in Task : Picture(t) \in Item /\ <<t, Gate>> \in Item
    BY ItemFacts DEF Picture
  <2> QED BY <1>3, <1>4, <2>1 DEF Good, ReviewInv, SuccessStays
<1>9. Keeps(d, e)
  <2>1. Grows(d, e)
    BY <1>1, <1>3 DEF Grows, Store
  <2>2. Closes(d, e)
    BY <1>1, <1>3 DEF Closes, Closing, ActiveStates, Unreached, CanceledStates, Finalizers
  <2> QED BY <1>4, <2>1, <2>2 DEF Keeps
<1> QED BY <1>2, <1>5, <1>6, <1>7, <1>8, <1>9 DEF Good

\* _publish_commit_files: into a directory that is not taken, or that is already
\* the one of this attempt.
LEMMA PublishedGood ==
  ASSUME NEW d, Good(d), NEW i \in Item, NEW n \in Nat, n <= d.tries[i],
         ~DirExists(d, i, d.out[i]) \/ (n = d.tries[i] /\ Moved(d, i, n)),
         NEW e, e = [d EXCEPT !.dirs = @ \cup {<<i, d.out[i], n>>}]
  PROVE  Good(e) /\ Keeps(d, e) /\ Moved(e, i, n) /\ e.stage = d.stage /\ e.held = d.held /\ e.tries = d.tries
<1> DEFINE dir == <<i, d.out[i], n>>
           dirs == d.dirs \cup {dir}
<1>1. d \in Store
  BY DEF Good
<1>2. dirs \in SUBSET (Item \X Key \X Nat)
  BY <1>1 DEF Store
<1>3. dir[1] = i /\ dir[2] = d.out[i] /\ dir[3] = n
  OBVIOUS
<1>4. e = [d EXCEPT !.dirs = dirs]
  BY <1>1 DEF Store
<1>5. dir \in d.dirs \/ ~DirExists(d, i, d.out[i])
  <2> SUFFICES ASSUME Moved(d, i, n), n = d.tries[i] PROVE dir \in d.dirs
    OBVIOUS
  <2>1. PICK x \in d.dirs : x[1] = i /\ x[3] = n
    BY DEF Moved
  <2>2. x[2] = d.out[i] /\ x = <<x[1], x[2], x[3]>>
    BY <1>1, <2>1 DEF Good, DirInv, Store
  <2> QED BY <2>1, <2>2
<1> HIDE DEF dir
<1>6. \A x \in dirs : x \in d.dirs \/ x = dir
  OBVIOUS
<1>7. dir \in dirs /\ d.dirs \subseteq dirs
  OBVIOUS
<1> HIDE DEF dirs
<1>8. /\ e.dirs = dirs /\ e.stage = d.stage /\ e.held = d.held /\ e.tries = d.tries
      /\ e.made = d.made /\ e.out = d.out /\ e.review = d.review /\ e \in Store
  BY <1>1, <1>2, <1>4 DEF Store
<1>9. DirInv(e)
  <2>1. \A x, y \in e.dirs : x[1] = y[1] /\ x[2] = y[2] => x = y
    <3> SUFFICES ASSUME NEW x \in dirs, NEW y \in dirs, x[1] = y[1], x[2] = y[2] PROVE x = y
      BY <1>8
    <3>1. CASE x \in d.dirs /\ y \in d.dirs
      BY <3>1 DEF Good, DirInv
    <3>2. CASE dir \notin d.dirs /\ (x = dir \/ y = dir)
      BY <1>3, <1>5, <1>6, <3>2 DEF DirExists
    <3> QED BY <1>6, <3>1, <3>2
  <2>2. \A x \in e.dirs : x[3] <= e.tries[x[1]] /\ (x[3] = e.tries[x[1]] => x[2] = e.out[x[1]])
    BY <1>3, <1>6, <1>8 DEF Good, DirInv
  <2>3. \A j \in Item : e.stage[j] = "succeeded" /\ j[2] # Gate => Moved(e, j, e.made[j])
    BY <1>7, <1>8 DEF Good, DirInv, Moved
  <2> QED BY <2>1, <2>2, <2>3 DEF DirInv
<1>10. Counted(e) /\ HeldInv(e) /\ ChainInv(e) /\ ReviewInv(e)
  BY <1>8 DEF Good, Counted, HeldInv, Unrevoked, ChainInv, ReviewInv
<1>11. Keeps(d, e)
  BY <1>1, <1>7, <1>8 DEF Keeps, Grows, Closes, SuccessStays, Store
<1>12. Moved(e, i, n)
  BY <1>3, <1>7, <1>8 DEF Moved
<1> QED BY <1>8, <1>9, <1>10, <1>11, <1>12 DEF Good

\* retry: the selected rows are queued again, and everything after them waits.
LEMMA ForemostRow ==
  ASSUME NEW rows \in SUBSET Item, NEW j \in rows
  PROVE  \E f \in Foremost(rows) : f[1] = j[1] /\ f[2] \in 1..j[2]
<1> DEFINE S == {s \in Nat : <<j[1], s>> \in rows}
<1>1. j = <<j[1], j[2]>> /\ j[2] \in Nat
  BY ItemFacts DEF Stage
<1>2. S \in SUBSET Nat /\ S # {}
  BY <1>1
<1>3. PICK s \in S : \A m \in S : s <= m
  BY <1>2, LeastNumber
<1>4. <<j[1], s>> \in rows /\ s \in 1..j[2] /\ s \in Nat
  BY <1>1, <1>3, ItemFacts DEF Stage
<1>5. ASSUME NEW i \in rows, <<j[1], s>> \in After(i) PROVE FALSE
  <2>1. i \in Item /\ i = <<i[1], i[2]>> /\ i[2] \in Nat
    BY ItemFacts DEF Stage
  <2>2. i[1] = j[1] /\ i[2] < s
    BY <1>4, <1>5, <2>1 DEF After
  <2>3. i[2] \in S
    BY <2>1, <2>2
  <2> QED BY <1>3, <1>4, <2>1, <2>2, <2>3
<1> QED BY <1>4, <1>5 DEF Foremost

\* What ended badly, and what comes after it, is in nobody's hands: a stage that is
\* has all of its chain up to it behind it, unless that is broken at the bundle.
LEMMA RetriedFree ==
  ASSUME NEW d, Good(d), NEW i \in Item, d.stage[i] \in {"failed_terminal", "rejected", "waiting_manual"},
         Debug = 0 \/ \A j \in After(i) : j[2] >= Debug => d.held[j] = "none"
  PROVE  d.held[i] = "none" /\ \A j \in After(i) : d.held[j] = "none"
<1>1. \A j \in Item : d.held[j] # "none" => d.stage[j] \in ActiveStates
  BY DEF Good, HeldInv
<1>2. d.held[i] = "none"
  BY <1>1 DEF ActiveStates
<1>3. ASSUME NEW j \in After(i), d.held[j] # "none" PROVE FALSE
  <2>1. i = <<i[1], i[2]>> /\ i[2] \in Stage /\ i[2] \in Nat /\ Last \in Nat /\ i[1] \in Task
    BY ItemFacts DEF Stage
  <2>2. j = <<i[1], j[2]>> /\ j[2] \in (i[2] + 1)..Last /\ j[2] \in Stage
    BY <2>1 DEF After, Stage
  <2>3. j \in Item /\ d.stage[j] \notin Unreached
    BY <1>1, <1>3, <2>1, <2>2, ItemFacts DEF ActiveStates, Unreached, CanceledStates, Item
  <2>4. Debug = 0 \/ j[2] < Debug
    BY <1>3, <2>2, DagAssumption DEF Stage
  <2>5. i[2] \in Below(j[2])
    BY <2>1, <2>2, <2>4 DEF Below, Stage
  <2>6. d.stage[i] = "succeeded"
    BY <2>1, <2>2, <2>3, <2>5 DEF Good, ChainInv, ChainIn
  <2> QED BY <2>6
<1> QED BY <1>2, <1>3

LEMMA RetriedGood ==
  ASSUME NEW d, Good(d), NEW rows \in SUBSET Item, NEW kept \in LeftReady(rows),
         \A i \in rows : d.stage[i] \in {"failed_terminal", "rejected", "waiting_manual"},
         \A i \in rows : d.held[i] = "none" /\ \A j \in After(i) : d.held[j] = "none",
         NEW e \in Store, e.stage = Retried(d.stage, rows, kept), \A i \in rows : e.budget[i] > d.tries[i],
         e.tries = d.tries, e.made = d.made, e.held = d.held, e.out = d.out, e.dirs = d.dirs, e.review = d.review
  PROVE  /\ Good(e) /\ Grows(d, e) /\ Closes(d, e) /\ Repeated(d, e)
         /\ \A i \in Item : d.stage[i] = "succeeded" /\ e.stage[i] # "succeeded" => \E j \in rows : i \in After(j)
<1>1. d \in Store /\ d.stage \in Table
  BY DEF Good, Store
<1>2. \A i \in Item : d.tries[i] \in Nat
  BY <1>1 DEF Store
<1>s. PICK stage : stage = Retried(d.stage, rows, kept) /\ e.stage = stage
  OBVIOUS
<1>3. stage \in Table
  BY <1>1, <1>s DEF Retried, Table, StageState
<1>5. /\ kept \subseteq rows /\ Foremost(rows) \subseteq kept
      /\ \A i \in Item :
        \/ i \in kept /\ stage[i] = "ready"
        \/ i \notin kept /\ stage[i] = "pending" /\ \E j \in rows : i \in After(j)
        \/ i \notin rows /\ stage[i] = d.stage[i] /\ ~\E j \in rows : i \in After(j)
  <2>1. kept \subseteq rows /\ Foremost(rows) \subseteq kept
    BY DEF LeftReady, Foremost
  <2>2. \A i \in rows : i \notin kept => \E j \in rows : i \in After(j)
    BY <2>1 DEF Foremost
  <2> QED BY <1>s, <2>1, <2>2 DEF Retried
<1>7. e.stage = stage
  BY <1>s
<1>9. \A i \in Item : d.stage[i] = "succeeded" /\ e.stage[i] # "succeeded" => \E j \in rows : i \in After(j)
  BY <1>5, <1>7
<1>10. /\ \A i \in Item : e.stage[i] = "succeeded" => d.stage[i] = "succeeded"
       /\ \A i \in Item : e.stage[i] \in ActiveStates => e.stage[i] = d.stage[i]
       /\ \A i \in Item : e.stage[i] \notin Unreached => d.stage[i] \notin Unreached
  BY <1>5, <1>7 DEF ActiveStates, Unreached, CanceledStates
<1>11. Counted(e) /\ DirInv(e) /\ Grows(d, e)
  <2>1. Counted(e) /\ Grows(d, e)
    <3>1. \A i \in Item : d.tries[i] <= d.tries[i]
      BY <1>2
    <3> QED BY <1>7, <3>1 DEF Good, Counted, Grows
  <2>2. DirInv(e)
    BY <1>7, <1>10 DEF Good, DirInv, Moved
  <2> QED BY <2>1, <2>2
<1>12. HeldInv(e)
  <2>1. \A i \in Item : e.held[i] # "none" => e.stage[i] \in ActiveStates
    BY <1>5, <1>7 DEF Good, HeldInv
  <2> QED BY <1>7, <1>10, <2>1 DEF Good, HeldInv, Unrevoked, ActiveStates
<1>13. ASSUME NEW t \in Task, NEW s \in Stage, d.stage[<<t, s>>] \notin Unreached, NEW r \in Below(s)
       PROVE  e.stage[<<t, r>>] = "succeeded"
  <2>1. <<t, s>> \in Item /\ <<t, r>> \in Item /\ r \in Nat /\ r \in 1..(s - 1) /\ s \in 1..Last
    BY <1>13, ItemFacts DEF Below, Stage
  <2>2. d.stage[<<t, r>>] = "succeeded"
    BY <1>13 DEF Good, ChainInv, ChainIn
  <2>3. ASSUME NEW j \in rows, <<t, r>> \in After(j) PROVE FALSE
    <3>1. j \in Item /\ j = <<j[1], j[2]>> /\ j[2] \in Stage
      BY ItemFacts
    <3>2. j[1] = t /\ j[2] \in 1..(r - 1)
      BY <2>1, <2>3, <3>1 DEF After, Stage
    <3>3. j[2] \in Below(s)
      <4>1. Debug = 0 \/ s < Debug \/ r <= Gate
        BY <1>13 DEF Below
      <4>2. s \in Nat /\ Gate \in Nat /\ j[2] \in Nat
        BY <2>1, <3>2, ItemFacts DEF Stage
      <4>3. j[2] \in 1..(s - 1)
        BY <2>1, <3>2, <4>2
      <4> QED BY <2>1, <3>2, <4>1, <4>2, <4>3 DEF Below
    <3>4. d.stage[j] = "succeeded"
      BY <1>13, <3>1, <3>2, <3>3 DEF Good, ChainInv, ChainIn
    <3> QED BY <3>4
  <2> QED BY <1>9, <2>1, <2>2, <2>3
<1>14. ChainInv(e)
  <2>1. \A t \in Task, s \in Stage : <<t, s>> \in Item
    BY ItemFacts
  <2> QED BY <1>10, <1>13, <2>1 DEF ChainInv, ChainIn
<1>15. ReviewInv(e)
  <2> SUFFICES ASSUME NEW t \in Task, d.review[t] = "pending"
               PROVE  e.stage[Picture(t)] = "succeeded" /\ e.stage[<<t, Gate>>] # "succeeded"
    BY <1>7 DEF ReviewInv
  <2>1. Picture(t) \in Item /\ <<t, Gate>> \in Item /\ Picture(t) = <<t, Gate - 1>> /\ Gate - 1 \in Stage
    BY ItemFacts DEF Picture
  <2>2. d.stage[Picture(t)] = "succeeded" /\ d.stage[<<t, Gate>>] # "succeeded"
    BY DEF Good, ReviewInv
  <2>3. ASSUME NEW j \in rows, Picture(t) \in After(j) PROVE FALSE
    <3>1. j \in Item /\ j = <<j[1], j[2]>> /\ j[2] \in Stage
      BY ItemFacts
    <3>2. Gate \in Nat
      BY ItemFacts DEF Stage
    <3>3. j[1] = t /\ j[2] \in 1..(Gate - 2)
      BY <2>1, <2>3, <3>1, <3>2 DEF After, Stage
    <3>4. j[2] \in Below(Gate - 1)
      BY <3>2, <3>3 DEF Below
    <3>5. d.stage[j] = "succeeded"
      BY <2>1, <2>2, <3>1, <3>3, <3>4 DEF Good, ChainInv, ChainIn, Unreached, CanceledStates
    <3> QED BY <3>5
  <2> QED BY <1>9, <1>10, <2>1, <2>2, <2>3
<1>16. Closes(d, e)
  BY <1>10 DEF Closes, Closing, Finalizers, ActiveStates
<1>17. Repeated(d, e)
  <2> SUFFICES ASSUME NEW i \in Item, d.stage[i] = "succeeded", e.stage[i] # "succeeded"
               PROVE  \E s \in 1..i[2] : e.budget[<<i[1], s>>] > d.tries[<<i[1], s>>] /\ e.stage[<<i[1], s>>] = "ready"
    BY DEF Repeated
  <2>1. PICK j \in rows : i \in After(j)
    BY <1>9
  <2>2. PICK f \in Foremost(rows) : f[1] = j[1] /\ f[2] \in 1..j[2]
    BY ForemostRow
  <2>3. f \in rows /\ f \in Item /\ f = <<f[1], f[2]>> /\ j = <<j[1], j[2]>> /\ j[2] \in Stage /\ f[2] \in Stage
    BY ItemFacts DEF Foremost
  <2>4. i[1] = j[1] /\ j[2] \in 1..i[2] /\ i[2] \in Nat
    BY <2>1, <2>3 DEF After, Stage
  <2>5. f = <<i[1], f[2]>> /\ f[2] \in 1..i[2]
    <3>1. f[2] \in Nat /\ j[2] \in Nat
      BY <2>3 DEF Stage
    <3> QED BY <2>2, <2>3, <2>4, <3>1
  <2>6. e.budget[f] > d.tries[f] /\ e.stage[f] = "ready"
    BY <1>5, <1>7, <2>3
  <2> QED BY <2>5, <2>6
<1> QED BY <1>7, <1>9, <1>11, <1>12, <1>14, <1>15, <1>16, <1>17 DEF Good

-----------------------------------------------------------------------------
(* The steps.                                                              *)

\* Scores are asked for, or being committed; ...
Requested == pc \in {"scoring", "finalizers"} \/ \E k \in 1..Len(wave) : wave[k].by = "evaluate"

\* ... a step begins no such thing, or it passes the gate, or leases a finalizer.
Calm   == Closes(db, db') /\ (Requested' => Requested)
Opens  == UNCHANGED db /\ GateOpen
Leases == pc = "finalizers"
Step   == Good(db') /\ WaveInv' /\ Grows(db, db') /\ Repeated(db, db') /\ (Calm \/ Opens \/ Leases)

LEMMA KeepsSelf == ASSUME NEW d, Good(d) PROVE Keeps(d, d)
<1>1. \A i \in Item : d.tries[i] \in Nat
  BY DEF Good, Store
<1> QED BY <1>1 DEF Keeps, Grows, Closes, SuccessStays

LEMMA KeepsStep ==
  ASSUME Good(db'), Keeps(db, db'), WaveInv', Requested' => Requested
  PROVE  Step
<1>1. Repeated(db, db')
  BY KeptNotRepeated DEF Keeps
<1> QED BY <1>1 DEF Step, Calm, Keeps

LEMMA LoopStep ==
  ASSUME RunInv, UNCHANGED db, WaveInv', Requested' => Requested
  PROVE  Step
<1>1. Good(db') /\ Keeps(db, db')
  BY KeepsSelf DEF RunInv
<1> QED BY <1>1, KeepsStep

LEMMA WaveEntries ==
  ASSUME WaveInv
  PROVE  \A k \in 1..Len(wave) : wave[k] \in Entry /\ wave[k].item \in Item /\ wave[k].n \in Nat
<1> TAKE k \in 1..Len(wave)
<1>1. wave[k] \in Entry
  BY DEF WaveInv
<1> QED BY <1>1 DEF Entry

\* Attempts are only added, and those in the wave were made.
LEMMA AttemptsStay ==
  ASSUME WaveInv, Good(db), Good(db'), Grows(db, db')
  PROVE  \A k \in 1..Len(wave) : wave[k].n <= db'.tries[wave[k].item]
<1> TAKE k \in 1..Len(wave)
<1>1. wave[k].item \in Item /\ wave[k].n \in Nat
  BY WaveEntries
<1>2. wave[k].n <= db.tries[wave[k].item]
  BY DEF WaveInv
<1>3. PICK i \in Item : i = wave[k].item
  BY <1>1
<1>4. db.tries[i] \in Nat /\ db'.tries[i] \in Nat /\ db.tries[i] <= db'.tries[i]
  BY DEF Good, Store, Grows
<1> QED BY <1>1, <1>2, <1>3, <1>4

\* A step on the database beside the command.
LEMMA WaveStays ==
  ASSUME WaveInv, Good(db), Good(db'), Grows(db, db'), UNCHANGED <<pc, wave, todo, crashes>>
  PROVE  WaveInv' /\ (Requested' => Requested)
<1>1. db.dirs \subseteq db'.dirs
  BY DEF Grows
<1>3. \A k \in 1..Len(wave) : wave[k].n <= db'.tries[wave[k].item]
  BY AttemptsStay
<1>4. pc = "finalize" => Moved(db', Me.item, Me.n)
  BY <1>1 DEF WaveInv, Moved
<1> QED BY <1>3, <1>4 DEF WaveInv, Requested, Me

LEMMA DbStep ==
  ASSUME RunInv, Good(db'), Keeps(db, db'), UNCHANGED <<pc, wave, todo, crashes>>
  PROVE  Step
BY WaveStays, KeepsStep DEF RunInv, Keeps

LEMMA DecisionStep ==
  ASSUME RunInv, Good(db'), Grows(db, db'), Closes(db, db'), Repeated(db, db'),
         WaveInv', Requested' => Requested
  PROVE  Step
BY DEF Step, Calm

\* The end of the command, and of one submission.
LEMMA EndsKeeps ==
  ASSUME WaveInv, Ends, crashes' \in 0..MaxCrashes
  PROVE  WaveInv' /\ ~Requested'
BY BatchRunAssumption DEF WaveInv, Ends, PcState, AtWork, Requested

LEMMA HeadFacts ==
  ASSUME WaveInv, Good(db), pc \in AtWork
  PROVE  /\ Me \in Entry /\ Me = wave[1] /\ Me.item \in Item /\ Me.n \in Nat /\ Me.n <= db.tries[Me.item]
         /\ wave # <<>> /\ Len(wave) \in Nat \ {0} /\ 1 \in 1..Len(wave)
<1>1. wave # <<>> /\ wave \in Seq(Entry)
  BY DEF WaveInv
<1>2. Len(wave) \in Nat \ {0} /\ 1 \in 1..Len(wave)
  BY <1>1
<1>3. Me \in Entry /\ Me = wave[1]
  BY <1>1, <1>2 DEF Me
<1> QED BY <1>1, <1>2, <1>3 DEF WaveInv, Entry

LEMMA SubmittedKeeps ==
  ASSUME WaveInv, Good(db), Good(db'), pc \in AtWork, Submitted, Grows(db, db'), UNCHANGED crashes
  PROVE  WaveInv' /\ (Requested' => Requested)
<1>1. \A k \in 1..Len(wave) : wave[k].n <= db'.tries[wave[k].item]
  BY AttemptsStay
<1>2. Me \in Entry /\ Me = wave[1] /\ wave # <<>> /\ Len(wave) \in Nat \ {0} /\ 1 \in 1..Len(wave)
  BY HeadFacts
<1> DEFINE w == Tail(wave)
<1>3. wave \in Seq(Entry) /\ Len(wave) <= MaxParallel
  BY DEF WaveInv
<1>4. /\ w \in Seq(Entry) /\ Len(w) = Len(wave) - 1
      /\ \A k \in 1..Len(w) : k + 1 \in 1..Len(wave) /\ w[k] = wave[k + 1]
  BY <1>2, <1>3
<1>5. wave' = w /\ pc' = Next1(w) /\ UNCHANGED todo
  BY DEF Submitted
<1>6. \A k \in 1..Len(w) : w[k].n <= db'.tries[w[k].item]
  <2> TAKE k \in 1..Len(w)
  <2>1. k + 1 \in 1..Len(wave) /\ w[k] = wave[k + 1]
    BY <1>4
  <2> QED BY <1>1, <2>1
<1> HIDE DEF w
<1>7. \A k \in 1..Len(w) : w[k].by # "evaluate"
  <2> SUFFICES ASSUME NEW k \in 1..Len(w), w[k].by = "evaluate" PROVE FALSE
    OBVIOUS
  <2>1. k + 1 \in 1..Len(wave) /\ w[k] = wave[k + 1]
    BY <1>4
  <2>2. Len(wave) = 1
    BY <2>1 DEF WaveInv
  <2> QED BY <1>4, <2>1, <2>2
<1>8. CASE Me.by = "evaluate"
  <2>1. Len(wave) = 1 /\ todo \subseteq Finalizers
    BY <1>2, <1>8 DEF WaveInv
  <2>2. w = <<>> /\ pc' = "finalizers"
    BY <1>4, <1>5, <1>8, <2>1 DEF Next1
  <2>3. Requested
    BY <1>2, <1>8 DEF Requested
  <2>4. Len(w) = 0 /\ Len(w) <= MaxParallel
    BY <1>4, <2>1, BatchRunAssumption
  <2>5. WaveInv'
    BY <1>4, <1>5, <2>1, <2>2, <2>4 DEF WaveInv, PcState, AtWork
  <2> QED BY <2>3, <2>5
<1>9. CASE Me.by # "evaluate"
  <2>1. pc' = IF w = <<>> THEN "lease" ELSE "submit"
    BY <1>5, <1>9 DEF Next1
  <2>2. ~Requested'
    BY <1>5, <1>7, <2>1 DEF Requested
  <2>3. w # <<>> => Head(w) = w[1] /\ 1 \in 1..Len(w)
    BY <1>4
  <2>4. pc' \in AtWork => Me'.by # "evaluate"
    BY <1>5, <1>7, <2>1, <2>3 DEF Me, AtWork
  <2>5. Len(w) <= MaxParallel
    BY <1>3, <1>4, BatchRunAssumption
  <2> QED BY <1>3, <1>4, <1>5, <1>6, <1>7, <2>1, <2>2, <2>4, <2>5 DEF WaveInv, PcState, AtWork
<1> QED BY <1>8, <1>9

\* One step on within a submission.
LEMMA SubmissionGoes ==
  ASSUME WaveInv, Good(db), Good(db'), pc \in AtWork, Grows(db, db'), UNCHANGED <<wave, todo, crashes>>,
         pc' \in AtWork, pc' = "finalize" => Moved(db', Me.item, Me.n)
  PROVE  WaveInv' /\ (Requested' => Requested)
<1>3. \A k \in 1..Len(wave) : wave[k].n <= db'.tries[wave[k].item]
  BY AttemptsStay
<1> QED BY <1>3 DEF WaveInv, Requested, Me, AtWork, PcState

LEMMA RefusedStep ==
  ASSUME RunInv, pc \in AtWork, Refused, UNCHANGED crashes
  PROVE  Step
<1>1. CASE db' = Resumed(db) /\ Submitted
  <2>1. Good(db') /\ Keeps(db, db')
    BY <1>1, ResumedGood DEF RunInv
  <2>2. WaveInv' /\ (Requested' => Requested)
    BY <1>1, <2>1, SubmittedKeeps DEF RunInv, Keeps
  <2> QED BY <2>1, <2>2, KeepsStep
<1>2. CASE Ends /\ UNCHANGED db
  <2>1. WaveInv' /\ ~Requested'
    BY <1>2, EndsKeeps DEF RunInv, WaveInv
  <2> QED BY <1>2, <2>1, LoopStep
<1> QED BY <1>1, <1>2 DEF Refused

-----------------------------------------------------------------------------
(* The loop of run-all, and the evaluation.                                *)

\* A step of the command between waves, or the end of a wave's execution.
LEMMA GotoKeeps ==
  ASSUME WaveInv, Good(db), Good(db'), Grows(db, db'), UNCHANGED <<wave, crashes>>,
         todo' \in SUBSET Item, pc' \in PcState \ (AtWork \cup {"finalizers"}),
         pc \notin AtWork, pc' \in {"lease", "exec"} \/ wave = <<>>, pc' = "exec" => wave # <<>>
  PROVE  WaveInv' /\ (Requested' => pc' = "scoring")
<1>3. \A k \in 1..Len(wave) : wave[k].n <= db'.tries[wave[k].item]
  BY AttemptsStay
<1>4. \A k \in 1..Len(wave) : wave[k].by # "evaluate"
  BY DEF WaveInv
<1>5. WaveInv'
  BY <1>3, <1>4 DEF WaveInv, AtWork
<1> QED BY <1>4, <1>5 DEF Requested

\* The end of the command changes nothing else.
LEMMA EndsStep ==
  ASSUME RunInv, Ends, UNCHANGED db, crashes' \in 0..MaxCrashes
  PROVE  Step
BY EndsKeeps, LoopStep DEF RunInv

LEMMA LoopSteps ==
  ASSUME RunInv, Begin \/ MeetsReviews \/ MeetsEval6 \/ BeginsPass \/ PassReturns \/ WaveFull \/ WaveEnds
  PROVE  Step
<1>w. /\ WaveInv /\ Good(db) /\ crashes \in 0..MaxCrashes /\ Keeps(db, db) /\ todo \subseteq Item
      /\ wave \in Seq(Entry) /\ wave # <<>> => Len(wave) # 0
  BY KeepsSelf DEF RunInv, WaveInv
<1>1. CASE Begin
  <2>1. Good(db') /\ Keeps(db, db')
    <3>1. CASE db' = db
      BY <1>w, <3>1
    <3>2. CASE db' = [db EXCEPT !.batch = "running"]
      <4>1. db \in Store
        BY <1>w DEF Good
      <4>2. db' \in Store
        BY <3>2, <4>1 DEF Store, Statuses
      <4>3. /\ db'.stage = db.stage /\ db'.tries = db.tries /\ db'.made = db.made /\ db'.out = db.out
            /\ db'.dirs = db.dirs /\ db'.review = db.review /\ db'.held = db.held
        BY <3>2, <4>1 DEF Store
      <4> HIDE <3>2
      <4>4. \A i \in Item : Falls(db, i, db'.stage[i])
        BY <4>3 DEF Falls
      <4>5. /\ \A i \in Item : db'.held[i] # "none" => db'.stage[i] \in ActiveStates
            /\ \A i \in Item : db'.stage[i] \in {"leased", "committing"} => Unrevoked(db', i)
        BY <1>w, <4>3 DEF Good, HeldInv, Unrevoked
      <4> QED BY <1>w, <4>2, <4>3, <4>4, <4>5, FallsGood
    <3> QED BY <1>1, <3>1, <3>2 DEF Begin
  <2>2. pc = "off" /\ wave = <<>> /\ pc' = "top" /\ UNCHANGED <<wave, todo, crashes>>
    BY <1>1, <1>w DEF Begin, Goto, WaveInv, AtWork
  <2>3. WaveInv' /\ (Requested' => pc' = "scoring")
    BY <1>w, <2>1, <2>2, GotoKeeps DEF Keeps, PcState, AtWork
  <2> QED BY <2>1, <2>2, <2>3, KeepsStep
<1>2. CASE MeetsReviews
  <2>1. CASE Ends
    BY <1>2, <1>w, <2>1, EndsStep DEF MeetsReviews
  <2>2. CASE pc' = "deciding" /\ todo' = {Picture(t) : t \in PendingReviews} /\ UNCHANGED wave
    <3>1. todo' \in SUBSET Item
      BY <2>2, ItemFacts DEF PendingReviews, Picture
    <3>2. pc = "top" /\ wave = <<>> /\ UNCHANGED <<db, crashes>>
      BY <1>2, <1>w DEF MeetsReviews, WaveInv, AtWork
    <3>3. WaveInv' /\ (Requested' => pc' = "scoring")
      BY <1>w, <2>2, <3>1, <3>2, GotoKeeps DEF Keeps, PcState, AtWork
    <3> QED BY <2>2, <3>2, <3>3, LoopStep
  <2> QED BY <1>2, <2>1, <2>2 DEF MeetsReviews
<1>3. CASE MeetsEval6
  <2>1. pc = "top" /\ wave = <<>> /\ pc' = "score" /\ UNCHANGED <<db, wave, todo, crashes>>
    BY <1>3, <1>w DEF MeetsEval6, WaveInv, AtWork, Goto
  <2>2. WaveInv' /\ (Requested' => pc' = "scoring")
    BY <1>w, <2>1, GotoKeeps DEF Keeps, PcState, AtWork
  <2> QED BY <2>1, <2>2, LoopStep
<1>4. CASE BeginsPass
  <2>1. CASE Ends /\ UNCHANGED db
    BY <1>4, <1>w, <2>1, EndsStep DEF BeginsPass
  <2>2. CASE Goto("lease") /\ db' = Resumed(db)
    <3>1. Good(db') /\ Keeps(db, db')
      BY <1>w, <2>2, ResumedGood
    <3>2. pc = "top" /\ wave = <<>> /\ pc' = "lease" /\ UNCHANGED <<wave, todo, crashes>>
      BY <1>4, <1>w, <2>2 DEF BeginsPass, WaveInv, AtWork, Goto
    <3>3. WaveInv' /\ (Requested' => pc' = "scoring")
      BY <1>w, <3>1, <3>2, GotoKeeps DEF Keeps, PcState, AtWork
    <3> QED BY <3>1, <3>2, <3>3, KeepsStep
  <2> QED BY <1>4, <2>1, <2>2 DEF BeginsPass
<1>5. CASE PassReturns
  <2>1. CASE Ends
    BY <1>5, <1>w, <2>1, EndsStep DEF PassReturns
  <2>2. CASE Goto("score") \/ Goto("top")
    <3>1. pc = "return" /\ wave = <<>> /\ pc' \in {"score", "top"} /\ UNCHANGED <<db, wave, todo, crashes>>
      BY <1>5, <1>w, <2>2 DEF PassReturns, WaveInv, AtWork, Goto
    <3>2. WaveInv' /\ (Requested' => pc' = "scoring")
      BY <1>w, <3>1, GotoKeeps DEF Keeps, PcState, AtWork
    <3> QED BY <3>1, <3>2, LoopStep
  <2> QED BY <1>5, <2>1, <2>2 DEF PassReturns
<1>6. CASE WaveFull
  <2>1. Good(db') /\ Keeps(db, db')
    BY <1>6, <1>w, RefreshGood DEF WaveFull
  <2>2. /\ pc = "lease" /\ pc' \in {"return", "exec"} /\ (pc' = "exec" <=> wave # <<>>)
        /\ UNCHANGED <<wave, todo, crashes>>
    BY <1>6 DEF WaveFull, Goto
  <2>3. WaveInv' /\ (Requested' => pc' = "scoring")
    BY <1>w, <2>1, <2>2, GotoKeeps DEF Keeps, PcState, AtWork
  <2> QED BY <2>1, <2>2, <2>3, KeepsStep
<1>7. CASE WaveEnds
  <2>1. pc = "exec" /\ pc' = "submit" /\ UNCHANGED <<db, wave, todo, crashes>>
    BY <1>7 DEF WaveEnds, Goto
  <2>2. \A k \in 1..Len(wave) : wave[k].by # "evaluate"
    BY <1>w, <2>1 DEF WaveInv, AtWork
  <2>3. wave # <<>> /\ Me = wave[1] /\ 1 \in 1..Len(wave)
    <3>1. wave # <<>>
      BY <1>w, <2>1 DEF WaveInv
    <3> QED BY <1>w, <3>1 DEF Me
  <2>4. WaveInv' /\ (Requested' => Requested)
    BY <1>w, <2>1, <2>2, <2>3 DEF WaveInv, Requested, AtWork, PcState, Me
  <2> QED BY <2>1, <2>4, LoopStep
<1> QED BY <1>1, <1>2, <1>3, <1>4, <1>5, <1>6, <1>7

LEMMA ScoreSteps ==
  ASSUME RunInv, MeetsGate \/ ScoresMissing \/ ScoresMade \/ Scored \/ EvaluateCommand \/ Dies
  PROVE  Step
<1>w. /\ WaveInv /\ Good(db) /\ crashes \in 0..MaxCrashes /\ Keeps(db, db) /\ todo \subseteq Item
      /\ Repeated(db, db)
  BY KeepsSelf, KeptNotRepeated DEF RunInv, WaveInv, Keeps
<1>1. CASE MeetsGate \/ EvaluateCommand
  <2>1. CASE Ends
    BY <1>1, <1>w, <2>1, EndsStep DEF MeetsGate, EvaluateCommand
  <2>2. CASE Goto("scoring") /\ GateOpen
    <3>1. wave = <<>> /\ pc \notin AtWork /\ pc' = "scoring" /\ UNCHANGED <<db, wave, todo, crashes>>
      BY <1>1, <1>w, <2>2 DEF MeetsGate, EvaluateCommand, WaveInv, AtWork, Goto
    <3>2. WaveInv'
      BY <1>w, <3>1, GotoKeeps DEF Keeps, PcState, AtWork
    <3> QED BY <1>w, <2>2, <3>1, <3>2 DEF Step, Opens, Keeps
  <2> QED BY <1>1, <2>1, <2>2 DEF MeetsGate, EvaluateCommand
<1>2. CASE ScoresMissing \/ Scored
  BY <1>2, <1>w, EndsStep DEF ScoresMissing, Scored
<1>3. CASE ScoresMade
  <2>1. pc = "scoring" /\ pc' = "finalizers" /\ todo' \subseteq Finalizers /\ UNCHANGED <<db, wave, crashes>>
    BY <1>3 DEF ScoresMade
  <2>2. wave = <<>>
    BY <1>w, <2>1 DEF WaveInv, AtWork
  <2>3. WaveInv'
    BY <1>w, <2>1, <2>2 DEF WaveInv, AtWork, PcState, Finalizers
  <2>4. Requested
    BY <2>1 DEF Requested
  <2> QED BY <2>1, <2>3, <2>4, LoopStep
<1>4. CASE Dies
  <2>1. crashes' \in 0..MaxCrashes
    BY <1>4, <1>w, BatchRunAssumption DEF Dies
  <2> QED BY <1>4, <1>w, <2>1, EndsStep DEF Dies
<1> QED BY <1>1, <1>2, <1>3, <1>4

LEMMA ExecStep == ASSUME RunInv, NEW k \in 1..MaxParallel, k <= Len(wave), ExecEnds(k) PROVE Step
<1>1. /\ WaveInv /\ wave \in Seq(Entry) /\ pc = "exec" /\ k \in 1..Len(wave) /\ UNCHANGED <<db, pc, todo, crashes>>
  BY DEF RunInv, WaveInv, ExecEnds
<1>2. wave[k] \in Entry
  BY <1>1
<1>3. PICK outcome \in Outcome[wave[k].item[2]] : wave' = [wave EXCEPT ![k].res = outcome]
  BY DEF ExecEnds
<1>4. outcome \in Outcomes
  <2>1. wave[k].item[2] \in Stage
    BY <1>2, ItemFacts DEF Entry
  <2> QED BY <1>3, <2>1, BatchRunAssumption
<1>5. PICK x : x = [wave[k] EXCEPT !.res = outcome]
  OBVIOUS
<1>6. x \in Entry /\ x.item = wave[k].item /\ x.n = wave[k].n /\ x.by = wave[k].by
  BY <1>2, <1>4, <1>5 DEF Entry
<1>7. wave' = [wave EXCEPT ![k] = x]
  BY <1>3, <1>5
<1> HIDE <1>3
<1>8. /\ wave' \in Seq(Entry) /\ Len(wave') = Len(wave) /\ wave' # <<>>
      /\ \A m \in 1..Len(wave) : wave'[m].item = wave[m].item /\ wave'[m].n = wave[m].n /\ wave'[m].by = wave[m].by
  <2>1. wave' \in Seq(Entry) /\ Len(wave') = Len(wave)
    BY <1>1, <1>6, <1>7
  <2>2. \A m \in 1..Len(wave) : wave'[m] = IF m = k THEN x ELSE wave[m]
    BY <1>1, <1>7
  <2>3. wave' # <<>>
    BY <1>1, <2>1
  <2> QED BY <1>6, <2>1, <2>2, <2>3
<1>9. WaveInv' /\ (Requested' => Requested)
  BY <1>1, <1>8 DEF WaveInv, Requested, AtWork
<1> QED BY <1>1, <1>9, LoopStep

-----------------------------------------------------------------------------
(* Reviews and passes.                                                     *)

LEMMA DecisionSteps ==
  ASSUME RunInv, (\E i \in Item : DecidesNext(i)) \/ (\E t \in Task : ReviewCommand(t))
  PROVE  Step
<1>w. /\ WaveInv /\ Good(db) /\ crashes \in 0..MaxCrashes /\ todo \subseteq Item
  BY DEF RunInv, WaveInv
<1>d. ASSUME NEW t \in Task, db.review[t] = "pending", Decides(t)
      PROVE  Good(db') /\ Grows(db, db') /\ Closes(db, db') /\ Repeated(db, db')
  <2>1. PICK decision \in {"accepted", "rejected", "canceled", "regenerate"} : db' = Decided(db, t, decision)
    BY <1>d DEF Decides
  <2> QED BY <1>w, <1>d, <2>1, DecidedGood
<1>1. ASSUME NEW i \in Item, DecidesNext(i) PROVE Step
  <2>0. i[1] \in Task
    BY ItemFacts
  <2>1. CASE Ends /\ UNCHANGED db
    BY <1>1, <1>w, <2>1, EndsStep DEF DecidesNext
  <2>2. CASE db.review[i[1]] = "pending"
    <3>1. /\ Decides(i[1]) /\ pc = "deciding" /\ pc' \in {"top", "deciding"} /\ UNCHANGED <<wave, crashes>>
          /\ todo' \in SUBSET Item
      BY <1>1, <1>w, <2>2 DEF DecidesNext
    <3>2. Good(db') /\ Grows(db, db') /\ Closes(db, db') /\ Repeated(db, db')
      BY <1>d, <2>0, <2>2, <3>1
    <3>3. wave = <<>>
      BY <1>w, <3>1 DEF WaveInv, AtWork
    <3>4. WaveInv' /\ (Requested' => pc' = "scoring")
      BY <1>w, <3>1, <3>2, <3>3, GotoKeeps DEF PcState, AtWork
    <3> QED BY <3>1, <3>2, <3>4, DecisionStep
  <2> QED BY <1>1, <2>1, <2>2 DEF DecidesNext
<1>2. ASSUME NEW t \in Task, ReviewCommand(t) PROVE Step
  <2>1. db.review[t] = "pending" /\ Decides(t) /\ UNCHANGED <<pc, wave, todo, crashes>>
    BY <1>2 DEF ReviewCommand
  <2>2. Good(db') /\ Grows(db, db') /\ Closes(db, db') /\ Repeated(db, db')
    BY <1>d, <2>1
  <2>3. WaveInv' /\ (Requested' => Requested)
    BY <1>w, <2>1, <2>2, WaveStays
  <2> QED BY <2>2, <2>3, DecisionStep
<1> QED BY <1>1, <1>2

\* What lease_next does with a row it may take, and with one that is used up.
LEMMA TakesGood ==
  ASSUME Good(db), NEW i \in Item, Leasable(Refresh(db), i), i[2] # Gate, MayTry(i), db' = Leased(Refresh(db), i)
  PROVE  /\ Good(db') /\ Grows(db, db') /\ SuccessStays(db, db') /\ db'.tries[i] = Refresh(db).tries[i] + 1
         /\ i[2] # Evaluate => Keeps(db, db')
<1>1. PICK r : r = Refresh(db)
  OBVIOUS
<1>2. Good(r) /\ Keeps(db, r) /\ r.tries = db.tries
  BY <1>1, RefreshGood DEF Rest
<1>3. r.stage[i] = "ready" /\ r.tries[i] < MaxTries[i]
  BY <1>1, <1>2 DEF Leasable, MayTry
<1>4. /\ Good(db') /\ Grows(r, db') /\ SuccessStays(r, db') /\ db'.tries[i] = r.tries[i] + 1
      /\ \A j \in Item : j # i => db'.stage[j] = r.stage[j]
  BY <1>1, <1>2, <1>3, LeasedGood
<1>5. Grows(db, db')
  <2>1. \A j \in Item : db.tries[j] \in Nat /\ r.tries[j] \in Nat /\ db'.tries[j] \in Nat
    BY <1>2, <1>4 DEF Good, Store
  <2> QED BY <1>2, <1>4, <2>1 DEF Keeps, Grows
<1>6. SuccessStays(db, db')
  BY <1>2, <1>4 DEF Keeps, SuccessStays
<1>7. ASSUME i[2] # Evaluate PROVE Keeps(db, db')
  <2>1. Closes(r, db')
    BY <1>4, <1>7 DEF Closes, Finalizers
  <2> QED BY <1>2, <1>4, <2>1, GoodTwice DEF Keeps
<1> QED BY <1>1, <1>4, <1>5, <1>6, <1>7

LEMMA ExhaustedGood ==
  ASSUME Good(db), NEW i \in Item, Leasable(Refresh(db), i),
         db' = [Refresh(db) EXCEPT !.stage[i] = "failed_terminal"]
  PROVE  Good(db') /\ Keeps(db, db')
<1>1. PICK r : r = Refresh(db)
  OBVIOUS
<1>2. Good(r) /\ Keeps(db, r)
  BY <1>1, RefreshGood
<1>3. r \in Store /\ r.stage \in Table
  BY <1>2 DEF Good, Store
<1>4. PICK stage : stage = [r.stage EXCEPT ![i] = "failed_terminal"]
  OBVIOUS
<1>5. stage \in Table /\ stage[i] = "failed_terminal" /\ \A j \in Item : j # i => stage[j] = r.stage[j]
  BY <1>3, <1>4 DEF Table, StageState, TerminalStates
<1>6. PICK x : x = [r EXCEPT !.stage = stage]
  OBVIOUS
<1>7. /\ x \in Store /\ x.stage = stage /\ x.tries = r.tries /\ x.made = r.made /\ x.out = r.out
      /\ x.dirs = r.dirs /\ x.review = r.review /\ x.held = r.held
  BY <1>3, <1>5, <1>6 DEF Store
<1>8. db' = x
  BY <1>1, <1>4, <1>6, Zenon
<1>9. r.stage[i] = "ready"
  BY <1>1 DEF Leasable
<1>10. r.held[i] = "none"
  BY <1>2, <1>9 DEF Good, HeldInv, ActiveStates
<1>11. \A j \in Item : Falls(r, j, x.stage[j])
  BY <1>5, <1>7, <1>9 DEF Falls, Unreached, CanceledStates, ActiveStates
<1>12. /\ \A j \in Item : x.held[j] # "none" => x.stage[j] \in ActiveStates
       /\ \A j \in Item : x.stage[j] \in {"leased", "committing"} => Unrevoked(x, j)
  BY <1>2, <1>5, <1>7, <1>10 DEF Good, HeldInv, Unrevoked
<1>13. Good(x) /\ Keeps(r, x)
  BY <1>2, <1>7, <1>11, <1>12, FallsGood
<1> QED BY <1>2, <1>8, <1>13, GoodTwice

\* A leased row joins the wave.
LEMMA JoinsWave ==
  ASSUME WaveInv, Good(db), Good(db'), Grows(db, db'), NEW i \in Item, NEW who \in {"worker", "evaluate"},
         NEW res \in {"running", "ok"}, Takes(i, who, res), db'.tries[i] = Refresh(db).tries[i] + 1,
         Len(wave) < MaxParallel
  PROVE  /\ wave' \in Seq(Entry) /\ Len(wave') = Len(wave) + 1 /\ Len(wave') <= MaxParallel /\ wave' # <<>>
         /\ \A k \in 1..Len(wave') : wave'[k].n <= db'.tries[wave'[k].item]
         /\ \A k \in 1..Len(wave) : wave'[k] = wave[k]
         /\ wave'[Len(wave) + 1].by = who
<1>1. PICK x : x = [item |-> i, n |-> Refresh(db).tries[i] + 1, res |-> res, by |-> who]
  OBVIOUS
<1>2. wave' = Append(wave, x)
  BY <1>1 DEF Takes
<1>3. Refresh(db).tries[i] \in Nat /\ db'.tries[i] \in Nat
  <2>1. PICK r : r = Refresh(db)
    OBVIOUS
  <2>2. Good(r)
    BY <2>1, RefreshGood
  <2> QED BY <2>1, <2>2 DEF Good, Store
<1>4. x \in Entry /\ x.item = i /\ x.n = db'.tries[i] /\ x.by = who
  BY <1>1, <1>3 DEF Entry, Outcomes
<1> HIDE <1>1
<1>5. wave \in Seq(Entry) /\ Len(wave) \in Nat /\ MaxParallel \in Nat
  BY BatchRunAssumption DEF WaveInv
<1>6. /\ wave' \in Seq(Entry) /\ Len(wave') = Len(wave) + 1 /\ wave' # <<>>
      /\ \A k \in 1..Len(wave) : wave'[k] = wave[k]
      /\ wave'[Len(wave) + 1] = x
  BY <1>2, <1>4, <1>5
<1>8. ASSUME NEW k \in 1..Len(wave') PROVE wave'[k].n <= db'.tries[wave'[k].item]
  <2>1. CASE k = Len(wave) + 1
    BY <1>3, <1>4, <1>6, <2>1
  <2>2. CASE k \in 1..Len(wave)
    <3>1. wave[k].n <= db'.tries[wave[k].item]
      BY <2>2, AttemptsStay
    <3> QED BY <1>6, <2>2, <3>1
  <2> QED BY <1>5, <1>6, <2>1, <2>2
<1> QED BY <1>4, <1>5, <1>6, <1>8

LEMMA LeaseSteps ==
  ASSUME RunInv, NEW i \in Item, LeaseForWave(i) \/ LeaseExhausts(i)
  PROVE  Step
<1>w. WaveInv /\ Good(db)
  BY DEF RunInv
<1>0. i[2] \in Served => i[2] # Gate /\ i[2] # Evaluate
  BY BatchRunAssumption
<1>1. CASE LeaseForWave(i)
  <2>1. /\ pc = "lease" /\ Len(wave) < MaxParallel /\ i[2] \in Served /\ Leasable(Refresh(db), i) /\ MayTry(i)
        /\ Takes(i, "worker", "running") /\ UNCHANGED <<pc, todo, crashes>>
    BY <1>1 DEF LeaseForWave, Candidates
  <2>2. Good(db') /\ Grows(db, db') /\ Keeps(db, db') /\ db'.tries[i] = Refresh(db).tries[i] + 1
    <3>1. db' = Leased(Refresh(db), i)
      BY <2>1 DEF Takes
    <3> QED BY <1>0, <1>w, <2>1, <3>1, TakesGood
  <2>3. /\ wave' \in Seq(Entry) /\ Len(wave') = Len(wave) + 1 /\ Len(wave') <= MaxParallel /\ wave' # <<>>
        /\ \A k \in 1..Len(wave') : wave'[k].n <= db'.tries[wave'[k].item]
        /\ \A k \in 1..Len(wave) : wave'[k] = wave[k]
        /\ wave'[Len(wave) + 1].by = "worker"
    BY <1>w, <2>1, <2>2, JoinsWave
  <2>4. \A k \in 1..Len(wave') : wave'[k].by # "evaluate"
    <3> TAKE k \in 1..Len(wave')
    <3>1. \A m \in 1..Len(wave) : wave[m].by # "evaluate"
      BY <1>w, <2>1 DEF WaveInv, AtWork
    <3>2. Len(wave) \in Nat
      BY <1>w DEF WaveInv
    <3>3. k = Len(wave) + 1 \/ k \in 1..Len(wave)
      BY <2>3, <3>2
    <3> QED BY <2>3, <3>1, <3>3
  <2>5. WaveInv' /\ ~Requested'
    BY <1>w, <2>1, <2>3, <2>4 DEF WaveInv, AtWork, Requested
  <2> QED BY <2>2, <2>5, KeepsStep
<1>2. CASE LeaseExhausts(i)
  <2>1. Leasable(Refresh(db), i) /\ db' = [Refresh(db) EXCEPT !.stage[i] = "failed_terminal"]
    BY <1>2 DEF LeaseExhausts, Candidates
  <2>2. Good(db') /\ Keeps(db, db')
    BY <1>w, <2>1, ExhaustedGood
  <2> QED BY <1>2, <2>2, DbStep DEF LeaseExhausts
<1> QED BY <1>1, <1>2

LEMMA FinalizerTaken == ASSUME RunInv, NEW i \in Item, TakesFinalizer(i) PROVE Step
<1>w. WaveInv /\ Good(db) /\ crashes \in 0..MaxCrashes /\ UNCHANGED crashes /\ pc = "finalizers" /\ i \in todo
  BY DEF RunInv, WaveInv, TakesFinalizer
<1>0. wave = <<>> /\ Len(wave) = 0 /\ todo \subseteq Finalizers /\ i[2] # Gate
  <2>1. wave = <<>> /\ todo \subseteq Finalizers
    BY <1>w DEF WaveInv, AtWork
  <2> QED BY <1>w, <2>1, ItemFacts DEF Finalizers
<1>1. CASE Leasable(Refresh(db), i) /\ MayTry(i) /\ Takes(i, "evaluate", "ok") /\ pc' = "submit" /\ todo' = todo \ {i}
  <2>1. db' = Leased(Refresh(db), i)
    BY <1>1 DEF Takes
  <2>2. Good(db') /\ Grows(db, db') /\ SuccessStays(db, db') /\ db'.tries[i] = Refresh(db).tries[i] + 1
    BY <1>0, <1>1, <1>w, <2>1, TakesGood
  <2>3. Len(wave) < MaxParallel
    BY <1>0, BatchRunAssumption
  <2>4. /\ wave' \in Seq(Entry) /\ Len(wave') = Len(wave) + 1 /\ Len(wave') <= MaxParallel /\ wave' # <<>>
        /\ \A k \in 1..Len(wave') : wave'[k].n <= db'.tries[wave'[k].item]
    BY <1>1, <1>w, <2>2, <2>3, JoinsWave
  <2>5. WaveInv'
    BY <1>0, <1>1, <1>w, <2>4 DEF WaveInv, AtWork, PcState
  <2>6. Repeated(db, db')
    BY <2>2, KeptNotRepeated
  <2> QED BY <1>w, <2>2, <2>5, <2>6 DEF Step, Leases
<1>2. CASE Ends /\ db' = IF Leasable(Refresh(db), i) /\ Exhausted(Refresh(db), i)
                         THEN [Refresh(db) EXCEPT !.stage[i] = "failed_terminal"] ELSE Refresh(db)
  <2>1. Good(db') /\ Keeps(db, db')
    BY <1>2, <1>w, ExhaustedGood, RefreshGood
  <2>2. WaveInv' /\ ~Requested'
    BY <1>2, <1>w, EndsKeeps
  <2> QED BY <2>1, <2>2, KeepsStep
<1> QED BY <1>1, <1>2 DEF TakesFinalizer

-----------------------------------------------------------------------------
(* Submitting an outcome.                                                  *)

LEMMA FailureStep == ASSUME RunInv, ReportsFailure PROVE Step
<1>w. WaveInv /\ Good(db) /\ pc \in AtWork /\ UNCHANGED crashes
  BY DEF RunInv, ReportsFailure, AtWork
<1>1. CASE HasLease(db, Me.item, Me.n) /\ db' = Failed(db, Me.item, Me.res) /\ Submitted
  <2>1. Me.item \in Item /\ db.held[Me.item] = "live"
    BY <1>1, <1>w, HeadFacts DEF HasLease
  <2>2. Good(db') /\ Keeps(db, db')
    BY <1>1, <1>w, <2>1, FailedGood
  <2>3. WaveInv' /\ (Requested' => Requested)
    BY <1>1, <1>w, <2>2, SubmittedKeeps DEF Keeps
  <2> QED BY <2>2, <2>3, KeepsStep
<1>2. CASE Refused
  BY <1>2, <1>w, RefusedStep
<1> QED BY <1>1, <1>2 DEF ReportsFailure

LEMMA PrepareStep == ASSUME RunInv, Prepares PROVE Step
<1>w. WaveInv /\ Good(db) /\ pc \in AtWork /\ UNCHANGED crashes
  BY DEF RunInv, Prepares, AtWork
<1>1. CASE HasLease(db, Me.item, Me.n) /\ db' = [db EXCEPT !.stage[Me.item] = "committing"] /\ Goto("publish")
  <2>1. Me.item \in Item /\ db.held[Me.item] = "live" /\ db \in Store
    BY <1>1, <1>w, HeadFacts DEF HasLease, Good
  <2>2. PICK i \in Item : i = Me.item
    BY <2>1
  <2>3. PICK e : e = [db EXCEPT !.stage[i] = "committing", !.held[i] = "live"]
    OBVIOUS
  <2>4. Good(e) /\ Keeps(db, e)
    BY <1>w, <2>1, <2>2, <2>3, PreparedGood
  <2>5. e = [db EXCEPT !.stage[i] = "committing"]
    <3>1. [db.held EXCEPT ![i] = "live"] = db.held
      BY <2>1, <2>2 DEF Store
    <3>2. e = [db EXCEPT !.stage[i] = "committing", !.held = [db.held EXCEPT ![i] = "live"]]
      BY <2>3
    <3> QED BY <2>1, <3>1, <3>2 DEF Store
  <2>6. db' = e
    BY <1>1, <2>2, <2>5
  <2>7. pc' = "publish" /\ UNCHANGED <<wave, todo, crashes>>
    BY <1>1, <1>w DEF Goto
  <2>8. WaveInv' /\ (Requested' => Requested)
    BY <1>w, <2>4, <2>6, <2>7, SubmissionGoes DEF Keeps, AtWork
  <2> QED BY <2>4, <2>6, <2>8, KeepsStep
<1>2. CASE Refused
  BY <1>2, <1>w, RefusedStep
<1> QED BY <1>1, <1>2 DEF Prepares

LEMMA PublishStep == ASSUME RunInv, Publishes PROVE Step
<1>w. WaveInv /\ Good(db) /\ Keeps(db, db) /\ pc = "publish" /\ pc \in AtWork /\ UNCHANGED crashes
  BY KeepsSelf DEF RunInv, Publishes, AtWork
<1>m. Me.item \in Item /\ Me.n \in Nat /\ Me.n <= db.tries[Me.item]
  BY <1>w, HeadFacts
<1>1. CASE Moved(db, Me.item, Me.n) /\ Goto("finalize") /\ UNCHANGED db
  <2>1. pc' = "finalize" /\ UNCHANGED <<db, wave, todo, crashes>> /\ Moved(db', Me.item, Me.n)
    BY <1>1, <1>w DEF Goto
  <2>2. WaveInv' /\ (Requested' => Requested)
    BY <1>w, <2>1, SubmissionGoes DEF Keeps, AtWork
  <2> QED BY <2>1, <2>2, LoopStep
<1>2. CASE /\ MayPublish(db, Me.item) /\ Goto("finalize")
           /\ db' = [db EXCEPT !.dirs = @ \cup {<<Me.item, db.out[Me.item], Me.n>>}]
  <2>1. Good(db') /\ Keeps(db, db') /\ Moved(db', Me.item, Me.n)
    BY <1>2, <1>m, <1>w, PublishedGood DEF MayPublish
  <2>2. pc' = "finalize" /\ UNCHANGED <<wave, todo, crashes>>
    BY <1>2, <1>w DEF Goto
  <2>3. WaveInv' /\ (Requested' => Requested)
    BY <1>w, <2>1, <2>2, SubmissionGoes DEF Keeps, AtWork
  <2> QED BY <2>1, <2>3, KeepsStep
<1>3. CASE Refused
  BY <1>3, <1>w, RefusedStep
<1> QED BY <1>1, <1>2, <1>3 DEF Publishes

LEMMA FinalizeStep == ASSUME RunInv, Finalizes PROVE Step
<1>w. WaveInv /\ Good(db) /\ Keeps(db, db) /\ pc = "finalize" /\ pc \in AtWork /\ UNCHANGED crashes
  BY KeepsSelf DEF RunInv, Finalizes, AtWork
<1>m. Me.item \in Item /\ Moved(db, Me.item, Me.n)
  BY <1>w, HeadFacts DEF WaveInv
<1>1. CASE Submitted /\ UNCHANGED db
  <2>1. WaveInv' /\ (Requested' => Requested)
    BY <1>1, <1>w, SubmittedKeeps DEF Keeps
  <2> QED BY <1>1, <2>1, LoopStep
<1>2. CASE /\ HasLease(db, Me.item, Me.n) /\ db.stage[Me.item] = "committing"
           /\ db' = Aggregate(Committed(db, {Me.item})) /\ Submitted
  <2>1. PICK c : c = Committed(db, {Me.item})
    OBVIOUS
  <2>2. \A i \in {Me.item} : db.stage[i] \in ActiveStates /\ Moved(db, i, db.tries[i])
    BY <1>2, <1>m DEF HasLease, ActiveStates
  <2>3. Good(c) /\ Keeps(db, c)
    BY <1>m, <1>w, <2>1, <2>2, CommittedGood
  <2>4. Good(db') /\ Keeps(c, db')
    BY <1>2, <2>1, <2>3, AggregateGood
  <2>5. Keeps(db, db')
    BY <1>w, <2>3, <2>4, GoodTwice
  <2>6. WaveInv' /\ (Requested' => Requested)
    BY <1>2, <1>w, <2>4, <2>5, SubmittedKeeps DEF Keeps
  <2> QED BY <2>4, <2>5, <2>6, KeepsStep
<1>3. CASE Refused
  BY <1>3, <1>w, RefusedStep
<1> QED BY <1>1, <1>2, <1>3 DEF Finalizes

-----------------------------------------------------------------------------
(* Time, and the operator.                                                 *)

LEMMA TimeSteps == ASSUME RunInv, Due \/ \E i \in Item : Expire(i) PROVE Step
<1>w. Good(db) /\ db \in Store
  BY DEF RunInv, Good
<1>1. ASSUME NEW i \in Item, NEW e, e = [db EXCEPT !.held[i] = "expired"] \/ e = [db EXCEPT !.later = {}],
             e = [db EXCEPT !.held[i] = "expired"] => db.held[i] = "live"
      PROVE  Good(e) /\ Keeps(db, e)
  <2>1. /\ e \in Store /\ e.stage = db.stage /\ e.tries = db.tries /\ e.made = db.made /\ e.out = db.out
        /\ e.dirs = db.dirs /\ e.review = db.review
        /\ \A j \in Item : e.held[j] = db.held[j] \/ (db.held[j] = "live" /\ e.held[j] = "expired")
    <3>1. CASE e = [db EXCEPT !.later = {}]
      BY <1>w, <3>1 DEF Store
    <3>2. CASE e = [db EXCEPT !.held[i] = "expired"]
      BY <1>1, <1>w, <3>2 DEF Store
    <3> QED BY <1>1, <3>1, <3>2
  <2>2. \A j \in Item : Falls(db, j, e.stage[j])
    BY <2>1 DEF Falls
  <2>3. /\ \A j \in Item : e.held[j] # "none" => e.stage[j] \in ActiveStates
        /\ \A j \in Item : e.stage[j] \in {"leased", "committing"} => Unrevoked(e, j)
    BY <1>w, <2>1 DEF Good, HeldInv, Unrevoked
  <2> QED BY <1>w, <2>1, <2>2, <2>3, FallsGood
<1>2. CASE Due
  <2>1. PICK i \in Item : i \in db.later
    BY <1>2, <1>w DEF Due, Store
  <2>2. db' = [db EXCEPT !.later = {}] /\ UNCHANGED <<pc, wave, todo, crashes>>
    BY <1>2 DEF Due
  <2>3. db' # [db EXCEPT !.held[i] = "expired"]
    <3>1. db'.later = {} /\ db.later # {}
      BY <1>w, <2>1, <2>2 DEF Store
    <3>2. [db EXCEPT !.held[i] = "expired"].later = db.later
      BY <1>w DEF Store
    <3> QED BY <3>1, <3>2
  <2>4. Good(db') /\ Keeps(db, db')
    BY <1>1, <2>2, <2>3
  <2> QED BY <2>2, <2>4, DbStep
<1>3. ASSUME NEW i \in Item, Expire(i) PROVE Step
  <2>1. db' = [db EXCEPT !.held[i] = "expired"] /\ db.held[i] = "live" /\ UNCHANGED <<pc, wave, todo, crashes>>
    BY <1>3 DEF Expire
  <2>2. Good(db') /\ Keeps(db, db')
    BY <1>1, <2>1
  <2> QED BY <2>1, <2>2, DbStep
<1> QED BY <1>2, <1>3

LEMMA ResumeStep == ASSUME RunInv, ResumeCommand PROVE Step
<1>1. Good(db') /\ Keeps(db, db') /\ UNCHANGED <<pc, wave, todo, crashes>>
  BY ResumedGood DEF RunInv, ResumeCommand
<1> QED BY <1>1, DbStep

LEMMA CancelStep == ASSUME RunInv, NEW T, CancelCommand(T) PROVE Step
<1>w. Good(db) /\ db \in Store /\ UNCHANGED <<pc, wave, todo, crashes>>
  BY DEF RunInv, Good, CancelCommand
<1> DEFINE gone == {i \in Item : i[1] \in T /\ Cancelable(i)}
<1>1. PICK stage : stage = [i \in Item |-> IF i \in gone THEN "canceled" ELSE db.stage[i]]
  OBVIOUS
<1>2. PICK held : held = [i \in Item |-> IF i \in gone THEN "none" ELSE db.held[i]]
  OBVIOUS
<1>3. stage \in Table /\ held \in [Item -> {"none", "live", "expired", "revoked"}]
  BY <1>1, <1>2, <1>w DEF Store, Table, StageState, TerminalStates, CanceledStates
<1>4. PICK x : x = [db EXCEPT !.stage = stage, !.held = held]
  OBVIOUS
<1>5. /\ x \in Store /\ x.stage = stage /\ x.held = held /\ x.tries = db.tries /\ x.made = db.made /\ x.out = db.out
      /\ x.dirs = db.dirs /\ x.review = db.review
  BY <1>3, <1>4, <1>w DEF Store
<1>6. db' = Aggregate(x)
  BY <1>1, <1>2, <1>4, Zenon DEF CancelCommand
<1>7. \A i \in Item : Falls(db, i, x.stage[i])
  BY <1>1, <1>5 DEF Falls, Cancelable, Unreached, CanceledStates, TerminalStates, ActiveStates
<1>8. /\ \A i \in Item : x.held[i] # "none" => x.stage[i] \in ActiveStates
      /\ \A i \in Item : x.stage[i] \in {"leased", "committing"} => Unrevoked(x, i)
  BY <1>1, <1>2, <1>5, <1>w DEF Good, HeldInv, Unrevoked
<1>9. Good(x) /\ Keeps(db, x)
  BY <1>w, <1>5, <1>7, <1>8, FallsGood
<1>10. Good(db') /\ Keeps(x, db')
  BY <1>6, <1>9, AggregateGood
<1>11. Keeps(db, db')
  BY <1>w, <1>9, <1>10, GoodTwice
<1> QED BY <1>w, <1>10, <1>11, DbStep

LEMMA RetryStep == ASSUME RunInv, NEW T \in SUBSET Task, NEW S \in SUBSET Stage, RetryCommand(T, S) PROVE Step
<1>w. WaveInv /\ Good(db) /\ db \in Store /\ UNCHANGED <<pc, wave, todo, crashes>> /\ "retry" \in Ops
  BY DEF RunInv, Good, RetryCommand
<1> DEFINE rows == {i \in T \X S : db.stage[i] \in {"failed_terminal", "rejected", "waiting_manual"}}
           reset == rows \cup UNION {After(i) : i \in rows}
           budget == [i \in Item |-> IF i \in rows THEN AtLeast(db.budget[i], db.tries[i] + 1) ELSE db.budget[i]]
           later == db.later \ reset
<1>6. /\ ~BundleLeased(reset)
      /\ \E kept \in LeftReady(rows) :
           db' = [db EXCEPT !.batch = "running", !.stage = Retried(db.stage, rows, kept), !.later = later,
                            !.budget = budget]
  BY Zenon DEF RetryCommand
<1>3. rows \in SUBSET Item /\ \A i \in rows : db.stage[i] \in {"failed_terminal", "rejected", "waiting_manual"}
  BY DEF Item
<1>4. \A i \in rows : i \in reset /\ \A j \in After(i) : j \in reset
  OBVIOUS
<1>9. \A i \in Item : db.tries[i] \in Nat /\ db.budget[i] \in Nat
  BY <1>w DEF Store
<1>10. budget \in [Item -> Nat] /\ \A i \in rows : budget[i] > db.tries[i]
  BY <1>3, <1>9 DEF AtLeast
<1>11. later \in SUBSET Item
  BY <1>w DEF Store
<1> HIDE DEF rows, reset, budget, later
<1>7. PICK kept \in LeftReady(rows) :
        db' = [db EXCEPT !.batch = "running", !.stage = Retried(db.stage, rows, kept), !.later = later, !.budget = budget]
  BY <1>6, Zenon
<1>5. PICK stage : stage = Retried(db.stage, rows, kept)
  OBVIOUS
<1>15. db' = [db EXCEPT !.batch = "running", !.stage = stage, !.later = later, !.budget = budget]
  BY <1>5, <1>7, Zenon
<1>8. \A i \in rows : db.held[i] = "none" /\ \A j \in After(i) : db.held[j] = "none"
  <2> SUFFICES ASSUME NEW i \in rows PROVE db.held[i] = "none" /\ \A j \in After(i) : db.held[j] = "none"
    OBVIOUS
  <2>1. Debug = 0 \/ \A j \in After(i) : j[2] >= Debug => db.held[j] = "none"
    BY <1>4, <1>6 DEF BundleLeased
  <2> QED BY <1>3, <1>w, <2>1, RetriedFree
<1>12. /\ Good(db') /\ Grows(db, db') /\ Closes(db, db') /\ Repeated(db, db')
       /\ \A i \in Item : db.stage[i] = "succeeded" /\ db'.stage[i] # "succeeded" => \E j \in rows : i \in After(j)
  <2>1. PICK e : e = [db EXCEPT !.batch = "running", !.stage = stage, !.later = later, !.budget = budget]
    OBVIOUS
  <2>2. stage \in Table
    BY <1>5, <1>w DEF Retried, Store, Table, StageState
  <2>3. /\ e.stage = stage /\ e.budget = budget /\ e.tries = db.tries /\ e.made = db.made /\ e.held = db.held
        /\ e.out = db.out /\ e.dirs = db.dirs /\ e.review = db.review
    BY <1>w, <2>1 DEF Store
  <2>4. e \in Store
    BY <1>w, <1>10, <1>11, <2>1, <2>2 DEF Store, Statuses
  <2>5. db' = e
    BY <1>15, <2>1, Zenon
  <2>6. e.stage = Retried(db.stage, rows, kept) /\ \A i \in rows : e.budget[i] > db.tries[i]
    BY <1>5, <1>10, <2>3
  <2>7. Good(db) /\ rows \in SUBSET Item /\ kept \in LeftReady(rows)
    BY <1>w, <1>3, <1>7
  <2>8. /\ Good(e) /\ Grows(db, e) /\ Closes(db, e) /\ Repeated(db, e)
        /\ \A i \in Item : db.stage[i] = "succeeded" /\ e.stage[i] # "succeeded" => \E j \in rows : i \in After(j)
    BY <1>3, <1>8, <2>3, <2>4, <2>6, <2>7, RetriedGood
  <2> QED BY <2>5, <2>8
<1>13. WaveInv' /\ (Requested' => Requested)
  BY <1>w, <1>12, WaveStays
<1> QED BY <1>w, <1>12, <1>13 DEF Step, Calm

LEMMA RecoverStep == ASSUME RunInv, NEW i \in Item, RecoverRemote(i) PROVE Step
<1>w. /\ Good(db) /\ db \in Store /\ UNCHANGED <<pc, wave, todo, crashes>>
      /\ db.stage[i] = "recovering" /\ db.held[i] = "revoked" /\ db.stage[i] \in ActiveStates
  BY DEF RunInv, Good, RecoverRemote, ActiveStates
<1>s. ASSUME NEW x, Good(x), Keeps(db, x), db' = Aggregate(Refresh(x)) PROVE Step
  <2>1. PICK r : r = Refresh(x)
    OBVIOUS
  <2>2. Good(r) /\ Keeps(x, r)
    BY <1>s, <2>1, RefreshGood
  <2>3. Good(db') /\ Keeps(r, db')
    BY <1>s, <2>1, <2>2, AggregateGood
  <2>4. Keeps(db, db')
    BY <1>s, <1>w, <2>2, <2>3, GoodTwice
  <2> QED BY <1>w, <2>3, <2>4, DbStep
<1>t. ASSUME NEW stage \in Table, \A j \in Item : Falls(db, j, stage[j]), stage[i] \in {"ready", "failed_terminal"},
             \A j \in Item : j # i => stage[j] = db.stage[j] \/ (db.stage[j] \in {"pending", "ready"}
                                                                  /\ stage[j] \in {"ready", "canceled"}),
             NEW later \in SUBSET Item, NEW budget \in [Item -> Nat], NEW held,
             held = [db.held EXCEPT ![i] = "none"],
             NEW x, x = [db EXCEPT !.stage = stage, !.held = held, !.later = later, !.budget = budget]
      PROVE  Good(x) /\ Keeps(db, x)
  <2>1. /\ held \in [Item -> {"none", "live", "expired", "revoked"}] /\ held[i] = "none"
        /\ \A j \in Item : j # i => held[j] = db.held[j]
    BY <1>t, <1>w DEF Store
  <2>2. /\ x \in Store /\ x.stage = stage /\ x.held = held /\ x.tries = db.tries /\ x.made = db.made /\ x.out = db.out
        /\ x.dirs = db.dirs /\ x.review = db.review
    BY <1>t, <1>w, <2>1 DEF Store
  <2>3. /\ \A j \in Item : x.held[j] # "none" => x.stage[j] \in ActiveStates
        /\ \A j \in Item : x.stage[j] \in {"leased", "committing"} => Unrevoked(x, j)
    BY <1>t, <1>w, <2>1, <2>2 DEF Good, HeldInv, Unrevoked, ActiveStates
  <2> QED BY <1>t, <1>w, <2>2, <2>3, FallsGood
<1>1. CASE db' = Aggregate(Refresh([db EXCEPT !.stage[i] = "ready", !.held[i] = "none",
                    !.later = @ \ {i}, !.budget[i] = AtLeast(@, db.tries[i] + 1)]))
  <2>1. PICK stage : stage = [db.stage EXCEPT ![i] = "ready"]
    OBVIOUS
  <2>2. PICK held : held = [db.held EXCEPT ![i] = "none"]
    OBVIOUS
  <2>3. PICK later : later = db.later \ {i}
    OBVIOUS
  <2>4. PICK budget : budget = [db.budget EXCEPT ![i] = AtLeast(@, db.tries[i] + 1)]
    OBVIOUS
  <2>5. PICK x : x = [db EXCEPT !.stage = stage, !.held = held, !.later = later, !.budget = budget]
    OBVIOUS
  <2>6. db' = Aggregate(Refresh(x))
    BY <1>1, <2>1, <2>2, <2>3, <2>4, <2>5, Zenon
  <2>7. stage \in Table /\ stage[i] = "ready" /\ \A j \in Item : j # i => stage[j] = db.stage[j]
    BY <1>w, <2>1 DEF Store, Table, StageState
  <2>8. \A j \in Item : Falls(db, j, stage[j])
    BY <1>w, <2>7 DEF Falls, ActiveStates, Unreached, CanceledStates
  <2>9. later \in SUBSET Item
    BY <1>w, <2>3 DEF Store
  <2>10. budget \in [Item -> Nat]
    BY <1>w, <2>4 DEF Store, AtLeast
  <2>11. Good(x) /\ Keeps(db, x)
    BY <1>t, <2>2, <2>5, <2>7, <2>8, <2>9, <2>10
  <2> QED BY <1>s, <2>6, <2>11
<1>2. CASE db' = Aggregate(Refresh([db EXCEPT !.stage = Ended(@, i, "failed_terminal"), !.held[i] = "none"]))
  <2>1. PICK stage : stage = Ended(db.stage, i, "failed_terminal")
    OBVIOUS
  <2>2. PICK held : held = [db.held EXCEPT ![i] = "none"]
    OBVIOUS
  <2>3. PICK x : x = [db EXCEPT !.stage = stage, !.held = held]
    OBVIOUS
  <2>4. db' = Aggregate(Refresh(x))
    BY <1>2, <2>1, <2>2, <2>3, Zenon
  <2>5. /\ stage \in Table /\ stage[i] = "failed_terminal" /\ \A j \in Item : Falls(db, j, stage[j])
        /\ \A j \in Item : j # i /\ stage[j] # db.stage[j] =>
             db.stage[j] \in {"pending", "ready"} /\ stage[j] \in {"ready", "canceled"}
    BY <1>w, <2>1, EndedFalls
  <2>6. PICK y : y = [db EXCEPT !.stage = stage, !.held = held, !.later = db.later, !.budget = db.budget]
    OBVIOUS
  <2>7. x = y
    BY <1>w, <2>3, <2>6 DEF Store
  <2>8. db.later \in SUBSET Item /\ db.budget \in [Item -> Nat]
    BY <1>w DEF Store
  <2>9. Good(y) /\ Keeps(db, y)
    BY <1>t, <2>2, <2>5, <2>6, <2>8
  <2> QED BY <1>s, <2>4, <2>7, <2>9
<1>3. CASE Clash(db, i) /\ db' = [db EXCEPT !.stage[i] = "committing", !.held[i] = "live"]
  <2>1. Good(db') /\ Keeps(db, db')
    BY <1>3, <1>w, PreparedGood
  <2> QED BY <1>w, <2>1, DbStep
<1>4. CASE /\ ~Clash(db, i)
           /\ db' = Aggregate(Committed([db EXCEPT !.dirs = @ \cup {<<i, db.out[i], db.tries[i]>>}], {i}))
  <2>1. PICK x : x = [db EXCEPT !.dirs = @ \cup {<<i, db.out[i], db.tries[i]>>}]
    OBVIOUS
  <2>2. PICK c : c = Committed(x, {i})
    OBVIOUS
  <2>3. db' = Aggregate(c)
    BY <1>4, <2>1, <2>2
  <2>4. PICK n : n = db.tries[i]
    OBVIOUS
  <2>5. n \in Nat /\ n <= db.tries[i] /\ (~DirExists(db, i, db.out[i]) \/ (n = db.tries[i] /\ Moved(db, i, n)))
    BY <1>4, <1>w, <2>4 DEF Clash, Store
  <2>6. Good(x) /\ Keeps(db, x) /\ Moved(x, i, n) /\ x.stage = db.stage /\ x.tries = db.tries
    BY <1>w, <2>1, <2>4, <2>5, PublishedGood
  <2>7. \A j \in {i} : x.stage[j] \in ActiveStates /\ Moved(x, j, x.tries[j])
    BY <1>w, <2>4, <2>6
  <2>8. Good(c) /\ Keeps(x, c)
    BY <2>2, <2>6, <2>7, CommittedGood
  <2>9. Good(db') /\ Keeps(c, db')
    BY <2>3, <2>8, AggregateGood
  <2>10. Keeps(db, db')
    BY <1>w, <2>6, <2>8, <2>9, GoodTwice
  <2> QED BY <1>w, <2>9, <2>10, DbStep
<1> QED BY <1>1, <1>2, <1>3, <1>4 DEF RecoverRemote

-----------------------------------------------------------------------------
(* The theorems.                                                           *)

LEMMA InitInv == ASSUME Init PROVE RunInv
<1> USE ItemFacts
<1>1. /\ db.tries = [i \in Item |-> 0] /\ db.made = [i \in Item |-> 0] /\ db.dirs = {}
      /\ db.held = [i \in Item |-> "none"] /\ db.review = [t \in Task |-> "none"]
      /\ db.stage = [i \in Item |-> IF i[2] = 1 THEN "ready" ELSE "pending"]
  BY DEF Init, Planned
<1>2. db \in Store
  <2>1. NoDigest \in Key
    BY DEF NoDigest, Key
  <2>2. db.stage \in Table
    BY <1>1 DEF Table, StageState
  <2>3. [i \in Item |-> Budget[i[2]]] \in [Item -> Nat]
    BY BatchRunAssumption
  <2>4. [t \in Task |-> "none"] \in [Task -> Decision]
    BY DEF Decision
  <2>5. /\ db.batch \in Statuses /\ db.cand \in [Task -> {"open", "running", "done", "spent"}]
        /\ db.from \in [Task -> Nat] /\ db.accepted \in [Task -> Nat] /\ db.key \in [Item -> Key]
        /\ db.out \in [Item -> Key] /\ db.later \in SUBSET Item /\ db.budget \in [Item -> Nat]
    BY <2>1, <2>3 DEF Init, Planned, Statuses
  <2>6. /\ db.tries \in [Item -> Nat] /\ db.made \in [Item -> Nat] /\ db.dirs \in SUBSET (Item \X Key \X Nat)
        /\ db.held \in [Item -> {"none", "live", "expired", "revoked"}] /\ db.review \in [Task -> Decision]
    BY <1>1, <2>4
  <2>7. db = [batch |-> db.batch, stage |-> db.stage, review |-> db.review, cand |-> db.cand, from |-> db.from,
              accepted |-> db.accepted, tries |-> db.tries, budget |-> db.budget, made |-> db.made,
              key |-> db.key, out |-> db.out, held |-> db.held, later |-> db.later, dirs |-> db.dirs]
    BY DEF Init, Planned
  <2> QED BY <2>2, <2>5, <2>6, <2>7 DEF Store
<1>3. Counted(db)
  BY <1>1, BatchRunAssumption DEF Counted
<1>4. HeldInv(db)
  BY <1>1 DEF HeldInv, ActiveStates
<1>5. DirInv(db)
  BY <1>1 DEF DirInv
<1>6. ChainInv(db)
  <2> SUFFICES ASSUME NEW t \in Task, NEW s \in Stage, db.stage[<<t, s>>] \notin Unreached, NEW r \in Below(s)
               PROVE  FALSE
    BY DEF ChainInv, ChainIn
  <2>1. s = 1
    BY <1>1 DEF Unreached
  <2> QED BY <2>1 DEF Below
<1>7. ReviewInv(db)
  BY <1>1 DEF ReviewInv
<1>8. WaveInv
  <2>1. pc = "off" /\ wave = <<>> /\ todo = {} /\ crashes = 0
    BY DEF Init
  <2> QED BY <2>1, BatchRunAssumption DEF WaveInv, PcState, AtWork
<1> QED BY <1>2, <1>3, <1>4, <1>5, <1>6, <1>7, <1>8 DEF RunInv, Good

LEMMA NextStep == ASSUME RunInv, [Next]_vars PROVE Step
<1>1. CASE UNCHANGED vars
  <2>1. UNCHANGED <<db, pc, wave, todo, crashes>>
    BY <1>1 DEF vars
  <2>2. WaveInv' /\ (Requested' => Requested)
    BY <2>1 DEF RunInv, WaveInv, Requested, Me
  <2> QED BY <2>1, <2>2, LoopStep
<1>2. CASE BetweenPasses
  BY <1>2, LoopSteps, DecisionSteps DEF BetweenPasses
<1>3. CASE Pass
  BY <1>3, LoopSteps, LeaseSteps DEF Pass
<1>4. CASE Submission
  BY <1>4, FailureStep, PrepareStep, PublishStep, FinalizeStep DEF Submission
<1>5. CASE Evaluation
  BY <1>5, ScoreSteps, FinalizerTaken DEF Evaluation
<1>6. CASE Executing
  BY <1>6, ExecStep DEF Executing
<1>7. CASE Dies
  BY <1>7, ScoreSteps
<1>8. CASE Due \/ \E i \in Item : Expire(i)
  BY <1>8, TimeSteps
<1>9. CASE Operator
  <2>1. CASE ResumeCommand
    BY <2>1, ResumeStep
  <2>2. CASE EvaluateCommand
    BY <2>2, ScoreSteps
  <2>3. ASSUME NEW T \in {Task} \cup {{t} : t \in Task}, CancelCommand(T) PROVE Step
    BY <2>3, CancelStep
  <2>4. ASSUME NEW T \in {Task} \cup {{t} : t \in Task}, NEW S \in {Stage} \cup {{s} : s \in Stage}, RetryCommand(T, S)
        PROVE  Step
    <3>1. T \in SUBSET Task /\ S \in SUBSET Stage
      OBVIOUS
    <3> QED BY <2>4, <3>1, RetryStep
  <2> QED BY <1>9, <2>1, <2>2, <2>3, <2>4 DEF Operator
<1>10. CASE Attention
  BY <1>10, DecisionSteps, RecoverStep DEF Attention
<1> QED BY <1>1, <1>2, <1>3, <1>4, <1>5, <1>6, <1>7, <1>8, <1>9, <1>10 DEF Next, Command

\* The inductive invariant: everything that is true of the database, and of the
\* command that works on it, between any two steps of run-all and the operator.
THEOREM RunSound == Spec => []RunInv
<1>1. Init => RunInv
  BY InitInv
<1>2. RunInv /\ [Next]_vars => RunInv'
  BY NextStep DEF Step, RunInv
<1> QED BY <1>1, <1>2, PTL DEF Spec

\* A stage a worker holds has a lease, attempts stay within their bound, and an
\* attempt that succeeded was made: the types, and what they say of the database.
THEOREM TypeCorrect == Spec => []TypeOK
<1>1. ASSUME RunInv PROVE TypeOK
  <2>1. db \in Store
    BY <1>1 DEF RunInv, Good
  <2>2. /\ db.batch \in Statuses /\ db.stage \in [Item -> StageState] /\ db.review \in [Task -> Decision]
        /\ db.cand \in [Task -> {"open", "running", "done", "spent"}]
        /\ db.from \in [Task -> Nat] /\ db.accepted \in [Task -> Nat]
        /\ db.tries \in [Item -> Nat] /\ db.made \in [Item -> Nat] /\ db.key \in [Item -> Key] /\ db.out \in [Item -> Key]
        /\ db.held \in [Item -> {"none", "live", "expired", "revoked"}] /\ db.later \in SUBSET Item
    BY <2>1 DEF Store, Table
  <2>3. \A i \in Item : db.tries[i] \in 0..MaxTries[i] /\ db.made[i] \in 0..db.tries[i]
    <3> TAKE i \in Item
    <3>1. db.tries[i] \in Nat /\ db.made[i] \in Nat /\ MaxTries[i] \in Nat
      BY <2>2, BatchRunAssumption
    <3>2. db.tries[i] <= MaxTries[i] /\ db.made[i] <= db.tries[i]
      BY <1>1 DEF RunInv, Good, Counted
    <3> QED BY <3>1, <3>2
  <2>4. {db.from[t] : t \in Task} \cup {db.accepted[t] : t \in Task} \subseteq Nat
    BY <2>2
  <2>5. \A i \in Item : db.stage[i] \in {"leased", "committing"} => Unrevoked(db, i)
    BY <1>1 DEF RunInv, Good, HeldInv
  <2>6. /\ pc \in PcState /\ wave \in Seq(Entry) /\ Len(wave) <= MaxParallel
        /\ todo \subseteq Item /\ crashes \in 0..MaxCrashes
    BY <1>1 DEF RunInv, WaveInv
  <2> QED BY <2>2, <2>3, <2>4, <2>5, <2>6 DEF TypeOK, Statuses
<1> QED BY <1>1, RunSound, PTL

\* _publish_commit_files and reconcile_artifact_commits: no attempt's files take
\* the place of another's, and the files of what has succeeded are where they belong.
THEOREM OutputsKept == Spec => []OutputKept
<1>1. RunInv => OutputKept
  BY DEF RunInv, Good, DirInv, OutputKept
<1> QED BY <1>1, RunSound, PTL

\* run-all, worker passes, reviews, recovery and commands: only what an operator
\* asked for again is computed again.
THEOREM SuccessNotRepeated == Spec => NeverRepeated
<1>1. RunInv /\ [Next]_vars =>
        [\A i \in Item : db.stage[i] = "succeeded" /\ db'.stage[i] # "succeeded" =>
           \E s \in 1..i[2] : db'.budget[<<i[1], s>>] > db.tries[<<i[1], s>>]
                                 /\ db'.stage[<<i[1], s>>] = "ready"]_vars
  BY NextStep DEF Step, Repeated
<1> QED BY <1>1, RunSound, PTL DEF Spec, NeverRepeated

-----------------------------------------------------------------------------
(* The scores of the whole batch.                                          *)

\* The evidence of a task has been published: its directories stay, whatever an
\* operator does to the stage.
Evidenced(t) == \E x \in db.dirs : x[1] = <<t, Eval6>>

\* A finalizer is reached over the evidence of its own task, and once scores are
\* asked for, or a finalizer is leased, the evidence of every task was there.
ReachedInv == \A t \in Task : db.stage[<<t, Evaluate>>] \notin Unreached => Evidenced(t)
ClosingInv == Requested \/ (\E i \in Finalizers : db.stage[i] \in Closing) => \A t \in Task : Evidenced(t)
ScoreInv   == ReachedInv /\ ClosingInv

LEMMA FinalizerFacts ==
  /\ \A t \in Task : <<t, Evaluate>> \in Finalizers /\ EvidenceOf(<<t, Evaluate>>) = <<t, Eval6>>
  /\ \A t \in Task : <<t, Evaluate>> \in Item /\ <<t, Eval6>> \in Item
BY ItemFacts DEF Finalizers, EvidenceOf

\* What has succeeded has a directory, and directories stay.
LEMMA EvidenceFacts ==
  ASSUME RunInv, Step, NEW t \in Task
  PROVE  /\ db'.stage[<<t, Eval6>>] = "succeeded" => Evidenced(t)'
         /\ Evidenced(t) => Evidenced(t)'
<1>1. <<t, Eval6>> \in Item /\ <<t, Eval6>>[2] # Gate
  BY ItemFacts DEF Stage
<1>2. db'.stage[<<t, Eval6>>] = "succeeded" => Evidenced(t)'
  BY <1>1 DEF Step, Good, DirInv, Moved, Evidenced
<1>3. Evidenced(t) => Evidenced(t)'
  BY DEF Step, Grows, Evidenced
<1> QED BY <1>2, <1>3

LEMMA ScoreStep ==
  ASSUME RunInv, ScoreInv, [Next]_vars
  PROVE  ScoreInv'
<1>0. Step
  BY NextStep
<1>1. \A t \in Task : Evidenced(t) => Evidenced(t)'
  BY <1>0, EvidenceFacts
<1>2. ASSUME \A t \in Task : Evidenced(t) PROVE ScoreInv'
  BY <1>1, <1>2 DEF ScoreInv, ReachedInv, ClosingInv
<1>3. CASE Calm
  <2>1. ReachedInv'
    <3> SUFFICES ASSUME NEW t \in Task, db'.stage[<<t, Evaluate>>] \notin Unreached
                 PROVE  Evidenced(t)'
      BY DEF ReachedInv
    <3>1. db.stage[<<t, Evaluate>>] \notin Unreached \/ db'.stage[<<t, Eval6>>] = "succeeded"
      BY <1>3, FinalizerFacts DEF Calm, Closes
    <3> QED BY <1>0, <1>1, <3>1, EvidenceFacts DEF ScoreInv, ReachedInv
  <2>2. ClosingInv'
    BY <1>1, <1>3 DEF Calm, Closes, ScoreInv, ClosingInv
  <2> QED BY <2>1, <2>2 DEF ScoreInv
\* The gate is open when no finalizer is left to be reached; ...
<1>4. CASE Opens
  <2>1. \A t \in Task : db.stage[<<t, Evaluate>>] \in {"ready", "succeeded"}
    BY <1>4, FinalizerFacts DEF Opens, GateOpen, FinalizerStates
  <2>2. \A t \in Task : Evidenced(t)
    BY <2>1 DEF ScoreInv, ReachedInv, Unreached, CanceledStates
  <2> QED BY <1>2, <2>2
\* ... and it was, when a finalizer is leased.
<1>5. CASE Leases
  <2>1. \A t \in Task : Evidenced(t)
    BY <1>5 DEF Leases, ScoreInv, ClosingInv, Requested
  <2> QED BY <1>2, <2>1
<1> QED BY <1>0, <1>3, <1>4, <1>5 DEF Step

LEMMA InitScores == ASSUME Init PROVE ScoreInv
<1>1. \A i \in Item : db.stage[i] = IF i[2] = 1 THEN "ready" ELSE "pending"
  BY DEF Init, Planned
<1>2. \A i \in Finalizers : db.stage[i] = "pending"
  <2>1. Gate \in Nat /\ Eval6 \in Nat /\ Evaluate # 1
    BY ItemFacts DEF Stage
  <2> QED BY <1>1, <2>1 DEF Finalizers
<1>3. ReachedInv
  BY <1>2, FinalizerFacts DEF ReachedInv, Unreached
<1>4. ~Requested
  BY DEF Init, Requested
<1>5. ClosingInv
  BY <1>2, <1>4 DEF ClosingInv, Closing, ActiveStates
<1> QED BY <1>3, <1>5 DEF ScoreInv

\* _evaluation_queue_gate and _commit_evaluation_stages: no finalizer has succeeded
\* before unity_eval6 of every task has published its evidence, on any chain and
\* whatever was retried.  (Only without a bundle is it also still current:
\* ScoredTogether.)
ScoredOnce == (\E i \in Finalizers : db.stage[i] = "succeeded") => \A t \in Task : Evidenced(t)

\* No score closes a batch that has a task without published evidence, for any tasks,
\* chain, deaths and commands, retry on a chain with a debug bundle included.
THEOREM NoScoreBefore == Spec => []ScoredOnce
<1>1. Init => ScoreInv
  BY InitScores
<1>2. RunInv /\ ScoreInv /\ [Next]_vars => ScoreInv'
  BY ScoreStep
<1>3. ScoreInv => ScoredOnce
  BY DEF ScoreInv, ClosingInv, Closing, ScoredOnce
<1> QED BY <1>1, <1>2, <1>3, RunSound, PTL DEF Spec
=============================================================================
