--------------------------- MODULE ImageEditProofs ---------------------------
(***************************************************************************)
(* What holds of the image_edit stage for any number of candidates,        *)
(* groups, attempts, leases and worker processes: who generates what, and  *)
(* what a review may rely on.                                              *)
(***************************************************************************)
EXTENDS ImageEdit, FiniteSetTheorems, WellFoundedInduction, TLAPS

-----------------------------------------------------------------------------
Typed ==
  /\ stage \in [Item -> StageState]
  /\ group \in 1..Groups
  /\ gen \in [Candidate -> GenState]
  /\ cand \in [Try -> Candidate \cup {NoCandidate}]
  /\ lease \in [Try -> {"none", "live", "expired", "revoked"}]
  /\ review \in [Try -> ReviewState]

\* Attempts are numbered as they are made, and only they have a lease or a review.
\* The first stage of the chain is never pending.
MadeInv ==
  /\ Made = 1..Cardinality(Made)
  /\ \A n \in Try : lease[n] # "none" \/ review[n] # "none" => n \in Made
  /\ stage[Edit] # "pending"

\* The lease rows are of different candidates of the current group, and those
\* are being generated.  Every image has the attempt that made it.
LeaseInv ==
  /\ \A n \in Rows : cand[n] \in Members(group) /\ gen[cand[n]] = "running"
  /\ \A n, m \in Rows : cand[n] = cand[m] => n = m
  /\ Rows # {} => \A c \in Members(group) : gen[c] # "none"
  /\ \A c \in Candidate : gen[c] = "succeeded" => \E n \in Try : cand[n] = c

SettledStates == {"succeeded", "failed_terminal", "superseded"}

\* A group is reviewed when every candidate of it is settled, and as long as it
\* is the current one image_edit has succeeded; only its review can be pending.
ReviewedGroup(n) ==
  /\ cand[n][1] \in 1..group
  /\ cand[n][1] = group =>
       /\ stage[Edit] = "succeeded"
       /\ \A c \in Members(group) : gen[c] \in SettledStates
  /\ review[n] = "pending" => cand[n][1] = group /\ SucceededIn(group, gen) # {}
ReviewInv ==
  /\ \A n \in Try : review[n] # "none" => ReviewedGroup(n)
  /\ \A n, m \in Try : review[n] = "pending" /\ review[m] = "pending" => n = m

Inv == Typed /\ MadeInv /\ LeaseInv /\ ReviewInv

\* What a step may never do: ImagesKept without its temporal operator.
Kept ==
  /\ \A c \in Candidate : gen[c] = "succeeded" => gen'[c] = "succeeded"
  /\ \A n \in Try : review[n] \notin {"none", "pending"} => review'[n] = review[n]

NoReview == \A n \in Try : review[n] # "none" => cand[n][1] # group

\* How a step of a worker ends: the group goes on, a new attempt of it is made, or
\* its review is opened.
Rests  == UNCHANGED <<cand, review>> /\ stage'[Edit] # "succeeded"
Leases ==
  /\ UNCHANGED review /\ stage'[Edit] # "succeeded"
  /\ \E n \in Try : /\ Made' = Made \cup {n} /\ (\A m \in Made : m < n)
                     /\ cand'[n] \in Members(group)
                     /\ \A m \in Try : m # n => cand'[m] = cand[m]
Opens ==
  /\ UNCHANGED cand
  /\ \E r \in Try : /\ cand[r] \in Members(group)
                     /\ review' = [review EXCEPT ![r] = Opened]
                     /\ SucceededIn(group, gen') # {}

-----------------------------------------------------------------------------
(* The chain, and the operators the actions are built from.                *)

LEMMA Positions ==
  /\ Edit \in Item /\ GateItem \in Item /\ Edit # GateItem /\ Gate = 2
  /\ \A i \in Item : i \notin {Edit, GateItem} => i[2] > 2
  /\ \A i \in Item : Edit \notin After(i)
  /\ TheTask \in Task
  /\ Tries \in Nat /\ Count \in Nat /\ Groups \in Nat /\ Count > 0 /\ Groups > 0
<1>1. Task = {TheTask} /\ Last = 3 /\ Gate = 2
  BY ImageEditAssumption
<1>2. Tries \in Nat /\ Count \in Nat /\ Groups \in Nat /\ Count > 0 /\ Groups > 0
  BY ImageEditAssumption
<1>3. Stage = {1, 2, 3}
  BY <1>1 DEF Stage
<1>4. Item = {<<TheTask, 1>>, <<TheTask, 2>>, <<TheTask, 3>>}
  BY <1>1, <1>3 DEF Item
<1>5. \A i \in Item : i[2] \in {1, 2, 3}
  BY <1>4
<1>6. \A i \in Item : Edit \notin After(i)
  BY <1>1, <1>5 DEF After, Edit
<1> QED BY <1>1, <1>2, <1>4, <1>6 DEF Edit, GateItem

\* _refresh_ready moves pending stages only.
LEMMA RefreshKeeps ==
  ASSUME NEW st \in [Item -> StageState], NEW rv
  PROVE  /\ RefreshAll(st, rv) \in [Item -> StageState]
         /\ st[Edit] # "pending" => RefreshAll(st, rv)[Edit] = st[Edit]
<1> DEFINE d == [t \in Task |-> LatestDecision(rv)]
           once == RefreshOnce(st, d)
<1>1. \A x : GateState(x) \in StageState
  BY DEF GateState, StageState, TerminalStates, ActiveStates
<1>2. "ready" \in StageState
  BY DEF StageState
<1>3. once \in [Item -> StageState] /\ (st[Edit] # "pending" => once[Edit] = st[Edit])
  BY <1>1, <1>2, Positions DEF RefreshOnce, Unblocked
<1>4. RefreshOnce(once, d) \in [Item -> StageState]
      /\ (once[Edit] # "pending" => RefreshOnce(once, d)[Edit] = once[Edit])
  BY <1>1, <1>2, <1>3, Positions DEF RefreshOnce, Unblocked
<1> QED BY <1>3, <1>4 DEF RefreshAll, Refreshed

\* The least and the greatest number of a bounded set.
LEMMA HasMin ==
  ASSUME NEW S, S \subseteq Nat, S # {}
  PROVE  \E x \in S : \A y \in S : x <= y
<1>1. PICK x \in S : \A y \in S : ~ (<<y, x>> \in OpToRel(<, Nat))
  BY WFMin, NatLessThanWellFounded
<1>2. \A y \in S : ~ (y < x)
  BY <1>1 DEF OpToRel
<1> QED BY <1>2

LEMMA HasMax ==
  ASSUME NEW N \in Nat, NEW S, S \subseteq 1..N, S # {}
  PROVE  \E x \in S : \A y \in S : y <= x
<1> DEFINE T == {N - y : y \in S}
<1>0. \A y \in S : y \in Int /\ N - y \in Nat
  OBVIOUS
<1>1. T \subseteq Nat /\ T # {}
  BY <1>0
<1>2. PICK z \in T : \A y \in T : z <= y
  BY <1>1, HasMin
<1>3. PICK x \in S : z = N - x
  OBVIOUS
<1>4. \A y \in S : N - x <= N - y
  BY <1>2, <1>3
<1>5. \A y \in S : y \in Int /\ x \in Int /\ N \in Int
  OBVIOUS
<1> QED BY <1>4, <1>5

\* ORDER BY ... LIMIT 1 over a set of rows that is not empty returns a row of it.
LEMMA LatestIn ==
  ASSUME NEW S, S \subseteq Try, S # {}
  PROVE  Latest(S) \in S
<1>1. \E n \in S : \A m \in S : m <= n
  BY HasMax, Positions DEF Try
<1> QED BY <1>1 DEF Latest

LEMMA FirstIn ==
  ASSUME NEW g \in 1..Groups, NEW S, S \subseteq Members(g), S # {}
  PROVE  /\ (CHOOSE x \in S : \A y \in S : x[2] <= y[2]) \in S
         /\ (CHOOSE x \in S : \A y \in S : y[2] <= x[2]) \in S
<1> DEFINE T == {x[2] : x \in S}
<1>1. T \subseteq 1..Count /\ T # {} /\ T \subseteq Nat
  BY DEF Members
<1>2. \E x \in S : \A y \in S : x[2] <= y[2]
  <2>1. PICK i \in T : \A j \in T : i <= j
    BY <1>1, HasMin
  <2>2. PICK x \in S : i = x[2]
    OBVIOUS
  <2> QED BY <2>1, <2>2
<1>3. \E x \in S : \A y \in S : y[2] <= x[2]
  <2>1. PICK i \in T : \A j \in T : j <= i
    BY <1>1, HasMax, Positions
  <2>2. PICK x \in S : i = x[2]
    OBVIOUS
  <2> QED BY <2>1, <2>2
<1> QED BY <1>2, <1>3

\* A group of which Count candidates, or all, are settled has none unfinished.
LEMMA CompleteSettled ==
  ASSUME NEW g \in 1..Groups, NEW gs \in [Candidate -> GenState], Complete(g, gs)
  PROVE  \A c \in Members(g) : gs[c] \notin Unfinished
<1>1. CASE Cardinality(SucceededIn(g, gs)) >= Count
  <2>1. IsFiniteSet(1..Count) /\ Cardinality(1..Count) = Count
    BY Positions, FS_Interval
  <2>2. IsFiniteSet({g}) /\ Cardinality({g}) = 1
    BY FS_Singleton
  <2>3. IsFiniteSet(Members(g)) /\ Cardinality(Members(g)) = Count
    <3>1. IsFiniteSet({g} \X (1..Count))
          /\ Cardinality({g} \X (1..Count)) = Cardinality({g}) * Cardinality(1..Count)
      BY <2>1, <2>2, FS_Product
    <3>2. 1 * Count = Count
      BY Positions
    <3> QED BY <2>1, <2>2, <3>1, <3>2 DEF Members
  <2>4. SucceededIn(g, gs) \in SUBSET Members(g)
    BY DEF SucceededIn
  <2>5. /\ Cardinality(SucceededIn(g, gs)) <= Cardinality(Members(g))
        /\ Cardinality(SucceededIn(g, gs)) = Cardinality(Members(g)) => Members(g) = SucceededIn(g, gs)
        /\ IsFiniteSet(SucceededIn(g, gs))
    BY <2>3, <2>4, FS_Subset
  <2>6. Cardinality(SucceededIn(g, gs)) \in Nat
    BY <2>5, FS_CardinalityType
  <2>7. Members(g) = SucceededIn(g, gs)
    BY <1>1, <2>3, <2>5, <2>6, Positions
  <2> QED BY <2>7 DEF SucceededIn, Unfinished
<1>2. CASE \A c \in Members(g) : gs[c] \notin Unfinished
  BY <1>2
<1> QED BY <1>1, <1>2 DEF Complete

LEMMA Groupmates ==
  /\ \A g \in 1..Groups : Members(g) \subseteq Candidate
  /\ \A c \in Candidate : c[1] \in 1..Groups /\ c \in Members(c[1])
  /\ \A g, c : c \in Members(g) => c[1] = g
  /\ NoCandidate \notin Candidate
BY Positions DEF Members, Candidate, NoCandidate

-----------------------------------------------------------------------------
(* What the steps have in common.                                          *)

\* As long as a candidate is leased, or image_edit has not succeeded, the current
\* group has no review.
LEMMA NotReviewed ==
  ASSUME Inv, Rows # {} \/ stage[Edit] # "succeeded"
  PROVE  NoReview /\ \A n \in Try : review[n] # "pending"
<1>1. ASSUME NEW n \in Try, review[n] # "none", cand[n][1] = group
      PROVE  FALSE
  <2>1. stage[Edit] = "succeeded" /\ \A c \in Members(group) : gen[c] \in SettledStates
    BY <1>1 DEF Inv, ReviewInv, ReviewedGroup
  <2>2. PICK m \in Rows : TRUE
    BY <2>1
  <2>3. cand[m] \in Members(group) /\ gen[cand[m]] = "running"
    BY <2>2 DEF Inv, LeaseInv
  <2> QED BY <2>1, <2>3 DEF SettledStates
<1>2. \A n \in Try : review[n] = "pending" => cand[n][1] = group
  BY DEF Inv, ReviewInv, ReviewedGroup
<1> QED BY <1>1, <1>2 DEF NoReview

\* A step that ends leases at most, and leaves a reviewed stage succeeded.
LEMMA Frame ==
  ASSUME Inv, UNCHANGED <<group, gen, cand, review>>,
         stage' \in [Item -> StageState], stage'[Edit] # "pending",
         stage'[Edit] = stage[Edit] \/ Rows # {} \/ stage[Edit] # "succeeded",
         lease' \in [Try -> {"none", "live", "expired", "revoked"}],
         \A n \in Try : lease'[n] # "none" => lease[n] # "none"
  PROVE  Inv' /\ Kept
<1>1. Typed'
  BY DEF Inv, Typed
<1>2. MadeInv'
  <2>1. Made' = Made
    BY DEF Made
  <2> QED BY <2>1 DEF Inv, MadeInv
<1>3. LeaseInv'
  <2>1. Rows' \subseteq Rows
    BY DEF Rows
  <2> QED BY <2>1 DEF Inv, LeaseInv, Members
<1>4. \A n \in Try : review[n] # "none" /\ cand[n][1] = group => stage'[Edit] = "succeeded"
  <2>1. CASE stage'[Edit] = stage[Edit]
    BY <2>1 DEF Inv, ReviewInv, ReviewedGroup
  <2>2. CASE Rows # {} \/ stage[Edit] # "succeeded"
    BY <2>2, NotReviewed DEF NoReview
  <2> QED BY <2>1, <2>2
<1>5. ReviewInv'
  BY <1>4 DEF Inv, ReviewInv, ReviewedGroup, SucceededIn, Members
<1> QED BY <1>1, <1>2, <1>3, <1>5 DEF Inv, Kept

\* Candidates change state while their group has no review.
LEMMA Unreviewed ==
  ASSUME Inv, NoReview, UNCHANGED <<group, review>>,
         \A n \in Try : review[n] # "none" => cand'[n] = cand[n]
  PROVE  ReviewInv'
<1>1. \A n \in Try : review[n] # "none" => cand[n][1] \in 1..group /\ cand[n][1] # group /\ review[n] # "pending"
  BY DEF NoReview, Inv, ReviewInv, ReviewedGroup
<1> QED BY <1>1 DEF ReviewInv, ReviewedGroup

\* The review of the current group is opened.
LEMMA ReviewOpened ==
  ASSUME Inv, NoReview, UNCHANGED <<group, cand>>, NEW r \in Try, cand[r] \in Members(group),
         review' = [review EXCEPT ![r] = Opened], stage'[Edit] = "succeeded",
         \A c \in Members(group) : gen'[c] \in SettledStates,
         SucceededIn(group, gen') # {}
  PROVE  /\ ReviewInv' /\ review' \in [Try -> ReviewState] /\ review[r] = "none"
         /\ \A n \in Try : review'[n] # "none" => n \in Made
<1>1. \A n \in Try : review[n] # "none" => cand[n][1] \in 1..group /\ cand[n][1] # group /\ review[n] # "pending"
  BY DEF NoReview, Inv, ReviewInv, ReviewedGroup
<1>2. cand[r][1] = group /\ group \in 1..Groups /\ cand[r] \in Candidate
  BY Groupmates DEF Inv, Typed
<1>3. r \in Made /\ review[r] = "none"
  BY <1>1, <1>2, Groupmates DEF Made
<1>4. review \in [Try -> ReviewState] /\ Opened \in ReviewState /\ Opened # "none"
  BY DEF Inv, Typed, Opened, ReviewState
<1>5. /\ review' \in [Try -> ReviewState] /\ review'[r] = Opened
      /\ \A n \in Try : n # r => review'[n] = review[n]
  BY <1>4
<1>6. \A n \in Try : review'[n] # "none" => n \in Made
  BY <1>3, <1>5 DEF Inv, MadeInv
<1>7. \A n \in Try : review'[n] # "none" => ReviewedGroup(n)'
  <2>1. SUFFICES ASSUME NEW n \in Try, review'[n] # "none" PROVE ReviewedGroup(n)'
    OBVIOUS
  <2>2. CASE n = r
    <3>1. group \in 1..group
      BY <1>2, Positions
    <3> QED BY <2>2, <3>1, <1>2 DEF ReviewedGroup, SucceededIn, Members
  <2>3. CASE n # r
    BY <2>1, <2>3, <1>1, <1>5 DEF ReviewedGroup
  <2> QED BY <2>2, <2>3
<1>8. \A n, m \in Try : review'[n] = "pending" /\ review'[m] = "pending" => n = m
  BY <1>1, <1>5
<1> QED BY <1>3, <1>5, <1>6, <1>7, <1>8 DEF ReviewInv

\* The pending review is decided without a new group.
LEMMA ReviewDecided ==
  ASSUME Inv, UNCHANGED <<group, gen, cand, lease>>, NEW n \in Try, review[n] = "pending",
         NEW v \in {"accepted", "rejected", "canceled"}, review' = [review EXCEPT ![n] = v],
         stage' \in [Item -> StageState], stage'[Edit] = stage[Edit]
  PROVE  Inv' /\ Kept
<1>1. review \in [Try -> ReviewState] /\ v \in ReviewState
  BY DEF Inv, Typed, ReviewState
<1>2. /\ review' \in [Try -> ReviewState] /\ review'[n] = v
      /\ \A m \in Try : m # n => review'[m] = review[m]
  BY <1>1
<1>3. Typed'
  BY <1>2 DEF Inv, Typed
<1>4. MadeInv'
  <2>1. Made' = Made
    BY DEF Made
  <2>2. n \in Made
    BY DEF Inv, MadeInv
  <2> QED BY <1>2, <2>1, <2>2 DEF Inv, MadeInv
<1>5. LeaseInv'
  BY DEF Inv, LeaseInv, Rows, Members
<1>6. \A m \in Try : review'[m] # "none" => review[m] # "none" /\ (review'[m] = "pending" => review[m] = "pending")
  BY <1>2
<1>7. ReviewInv'
  BY <1>6 DEF Inv, ReviewInv, ReviewedGroup, SucceededIn, Members
<1> QED BY <1>2, <1>3, <1>4, <1>5, <1>7 DEF Inv, Kept

LEMMA SettledKeeps ==
  ASSUME NEW st \in [Item -> StageState], NEW rv, NEW gs, st[Edit] # "pending", Settled(st, rv, gs)
  PROVE  stage' \in [Item -> StageState] /\ stage'[Edit] = st[Edit]
BY RefreshKeeps DEF Settled

\* A stage row is set to another state.
LEMMA StageSet ==
  ASSUME stage \in [Item -> StageState], NEW i \in Item, NEW v \in StageState
  PROVE  /\ [stage EXCEPT ![i] = v] \in [Item -> StageState]
         /\ [stage EXCEPT ![i] = v][i] = v
         /\ i # Edit => [stage EXCEPT ![i] = v][Edit] = stage[Edit]
BY Positions

LEMMA States ==
  {"ready", "running", "committing", "succeeded", "failed_terminal", "waiting_manual", "canceled",
   "pending", "rejected"} \subseteq StageState
BY DEF StageState, TerminalStates, ActiveStates, CanceledStates

\* decide_edit(regenerate): the group is closed, and nothing of it is leased.
LEMMA RegenerateStep ==
  ASSUME Inv, NEW n \in Try, Regenerate(n)
  PROVE  Inv' /\ Kept
<1> DEFINE rv == [review EXCEPT ![n] = "regenerate"]
           gs == [c \in Candidate |-> IF c \in SupersededGroup(cand[n][1]) THEN "superseded" ELSE gen[c]]
           st == [stage EXCEPT ![Edit] = "ready", ![GateItem] = "pending"]
<1>1. /\ review[n] = "pending" /\ group < Groups /\ group' = group + 1 /\ review' = rv /\ gen' = gs
      /\ Settled(st, rv, gs) /\ UNCHANGED <<cand, lease>>
  BY DEF Regenerate
<1>2. Rows = {} /\ \A m \in Try : review[m] # "none" => cand[m][1] \in 1..group
  BY <1>1, NotReviewed DEF Inv, ReviewInv, ReviewedGroup
<1>3. /\ stage \in [Item -> StageState] /\ group \in 1..Groups /\ gen \in [Candidate -> GenState]
      /\ review \in [Try -> ReviewState]
  BY DEF Inv, Typed
<1>4. group \in Nat /\ Groups \in Nat /\ group' \in 1..Groups
  BY <1>1, <1>3, Positions
<1>5. st \in [Item -> StageState] /\ st[Edit] = "ready"
  BY <1>3, Positions, States
<1>6. stage' \in [Item -> StageState] /\ stage'[Edit] = "ready"
  BY <1>1, <1>5, SettledKeeps
<1>7. review' \in [Try -> ReviewState] /\ review'[n] = "regenerate" /\ \A m \in Try : m # n => review'[m] = review[m]
  BY <1>1, <1>3 DEF ReviewState
<1>8. gen' \in [Candidate -> GenState]
  <2>1. "superseded" \in GenState
    BY DEF GenState
  <2> QED BY <1>1, <1>3, <2>1
<1>9. \A c \in Candidate : (gen[c] = "succeeded" <=> gen'[c] = "succeeded")
  <2>1. \A c \in SupersededGroup(cand[n][1]) : gen[c] # "succeeded"
    BY DEF SupersededGroup, SucceededIn
  <2> QED BY <1>1, <2>1
<1>10. Typed'
  BY <1>1, <1>4, <1>6, <1>7, <1>8 DEF Inv, Typed
<1>11. MadeInv'
  <2>1. Made' = Made /\ n \in Made
    BY <1>1 DEF Made, Inv, MadeInv
  <2> QED BY <1>1, <1>6, <1>7, <2>1 DEF Inv, MadeInv
<1>12. LeaseInv'
  <2>1. Rows' = {}
    BY <1>1, <1>2 DEF Rows
  <2> QED BY <1>1, <1>9, <2>1 DEF Inv, LeaseInv
<1>13. \A m \in Try : review'[m] # "none" => /\ cand[m][1] \in 1..(group + 1) /\ cand[m][1] # group + 1
                                              /\ review'[m] # "pending"
  <2>1. SUFFICES ASSUME NEW m \in Try, review'[m] # "none"
                 PROVE /\ cand[m][1] \in 1..(group + 1) /\ cand[m][1] # group + 1
                       /\ review'[m] # "pending"
    OBVIOUS
  <2>2. cand[m][1] \in 1..group
    BY <1>1, <1>2, <1>7, <2>1
  <2>3. review'[m] # "pending"
    BY <1>1, <1>7 DEF Inv, ReviewInv
  <2> QED BY <1>4, <2>2, <2>3
<1>14. ReviewInv'
  BY <1>1, <1>13 DEF ReviewInv, ReviewedGroup
<1> QED BY <1>1, <1>7, <1>9, <1>10, <1>11, <1>12, <1>14 DEF Inv, Kept

\* One lease ends with a verdict on its candidate.
LEMMA Verdict ==
  ASSUME Inv, NEW n \in Rows, UNCHANGED <<group, cand>>,
         NEW v \in {"succeeded", "failed_retryable", "failed_terminal"},
         gen' = [gen EXCEPT ![cand[n]] = v], lease' = [lease EXCEPT ![n] = "none"],
         stage' \in [Item -> StageState], stage'[Edit] # "pending"
  PROVE  /\ LeaseInv' /\ Rows' = Rows \ {n} /\ Made' = Made
         /\ cand[n] \in Members(group) /\ group \in 1..Groups /\ gen' \in [Candidate -> GenState]
         /\ lease' \in [Try -> {"none", "live", "expired", "revoked"}]
         /\ \A c \in Candidate : gen[c] = "succeeded" => gen'[c] = "succeeded"
         /\ \A m \in Try : lease'[m] # "none" => m \in Made
         /\ \A c \in Members(group) : gen'[c] # "none"
<1>1. n \in Try /\ Rows \subseteq Try /\ group \in 1..Groups
  BY DEF Rows, Inv, Typed
<1>2. cand[n] \in Members(group) /\ gen[cand[n]] = "running" /\ cand[n] \in Candidate
  BY <1>1, Groupmates DEF Inv, LeaseInv
<1>3. gen \in [Candidate -> GenState] /\ v \in GenState
  BY DEF Inv, Typed, GenState
<1>4. /\ gen' \in [Candidate -> GenState] /\ gen'[cand[n]] = v
      /\ \A c \in Candidate : c # cand[n] => gen'[c] = gen[c]
  BY <1>2, <1>3
<1>5. lease \in [Try -> {"none", "live", "expired", "revoked"}]
  BY DEF Inv, Typed
<1>6. /\ lease' \in [Try -> {"none", "live", "expired", "revoked"}] /\ lease'[n] = "none"
      /\ \A m \in Try : m # n => lease'[m] = lease[m]
  BY <1>1, <1>5
<1>7. Rows' = Rows \ {n}
  BY <1>6 DEF Rows
<1>8. Made' = Made
  BY DEF Made
<1>9. \A m \in Rows' : m \in Rows /\ cand[m] # cand[n] /\ cand[m] \in Members(group) /\ gen'[cand[m]] = "running"
  <2>1. SUFFICES ASSUME NEW m \in Rows' PROVE cand[m] # cand[n] /\ cand[m] \in Members(group) /\ gen'[cand[m]] = "running"
    BY <1>7
  <2>2. m \in Rows /\ m # n
    BY <1>7
  <2>3. cand[m] # cand[n] /\ cand[m] \in Members(group) /\ gen[cand[m]] = "running"
    BY <2>2 DEF Inv, LeaseInv
  <2>4. cand[m] \in Candidate
    BY <2>3, <1>1, Groupmates
  <2> QED BY <2>3, <2>4, <1>4
<1>10. \A c \in Members(group) : gen'[c] # "none"
  <2>1. \A c \in Members(group) : gen[c] # "none" /\ c \in Candidate
    BY <1>1, Groupmates DEF Inv, LeaseInv
  <2> QED BY <1>4, <2>1
<1>11. \A c \in Candidate : gen'[c] = "succeeded" => \E m \in Try : cand[m] = c
  BY <1>1, <1>4 DEF Inv, LeaseInv
<1>12. LeaseInv'
  <2>1. \A m, k \in Rows' : cand[m] = cand[k] => m = k
    BY <1>9 DEF Inv, LeaseInv
  <2>2. Members(group)' = Members(group)
    BY DEF Members
  <2> QED BY <1>9, <1>10, <1>11, <2>1, <2>2 DEF LeaseInv
<1>13. \A m \in Try : lease'[m] # "none" => m \in Made
  BY <1>6 DEF Inv, MadeInv
<1> QED BY <1>1, <1>2, <1>4, <1>6, <1>7, <1>8, <1>10, <1>11, <1>12, <1>13

-----------------------------------------------------------------------------
(* The steps of the workers.                                               *)

LEMMA NotUnfinished ==
  ASSUME NEW x \in GenState, x \notin Unfinished, x # "none"
  PROVE  x \in SettledStates
BY DEF GenState, Unfinished, SettledStates

\* The tail of a commit: the candidate has its image, and the last one opens the
\* review.
LEMMA FinalizeStep ==
  ASSUME Inv, NEW n \in Rows, Finalize(n)
  PROVE  Inv' /\ Kept /\ (Rests \/ Opens)
<1> DEFINE gs == [gen EXCEPT ![cand[n]] = "succeeded"]
           whole == Complete(cand[n][1], gs)
           rv == IF whole THEN [review EXCEPT ![n] = Opened] ELSE review
           st == [stage EXCEPT ![Edit] = IF whole THEN "succeeded" ELSE "ready"]
<1>1. /\ gen' = gs /\ lease' = [lease EXCEPT ![n] = "none"] /\ review' = rv
      /\ Settled(st, rv, gs) /\ UNCHANGED <<group, cand>>
  BY DEF Finalize
<1>2. n \in Try /\ NoReview
  BY NotReviewed DEF Rows
<1>3. stage \in [Item -> StageState]
  BY DEF Inv, Typed
<1>4. st \in [Item -> StageState] /\ st[Edit] = IF whole THEN "succeeded" ELSE "ready"
  BY <1>3, Positions, States
<1>5. stage' \in [Item -> StageState] /\ stage'[Edit] = st[Edit] /\ stage'[Edit] # "pending"
  <2>1. st[Edit] # "pending"
    BY <1>4
  <2> HIDE DEF st, rv, gs
  <2> QED BY <1>1, <1>4, <2>1, SettledKeeps
<1>6. /\ LeaseInv' /\ Rows' = Rows \ {n} /\ Made' = Made
      /\ cand[n] \in Members(group) /\ group \in 1..Groups /\ gen' \in [Candidate -> GenState]
      /\ lease' \in [Try -> {"none", "live", "expired", "revoked"}]
      /\ \A c \in Candidate : gen[c] = "succeeded" => gen'[c] = "succeeded"
      /\ \A m \in Try : lease'[m] # "none" => m \in Made
      /\ \A c \in Members(group) : gen'[c] # "none"
  BY <1>1, <1>5, Verdict
<1>7. cand[n][1] = group /\ cand[n] \in Candidate
  BY <1>6, Groupmates
<1>8. CASE whole
  <2>1. \A c \in Members(group) : gen'[c] \notin Unfinished
    BY <1>1, <1>6, <1>7, <1>8, CompleteSettled
  <2>2. \A c \in Members(group) : gen'[c] \in SettledStates
    BY <1>6, <2>1, NotUnfinished, Groupmates
  <2>3. SucceededIn(group, gen') # {}
    <3>1. gen \in [Candidate -> GenState]
      BY DEF Inv, Typed
    <3>2. gen'[cand[n]] = "succeeded"
      BY <1>1, <1>7, <3>1
    <3> QED BY <1>6, <3>2 DEF SucceededIn
  <2>4. review' = [review EXCEPT ![n] = Opened] /\ stage'[Edit] = "succeeded"
    BY <1>1, <1>4, <1>5, <1>8
  <2>5. /\ ReviewInv' /\ review' \in [Try -> ReviewState] /\ review[n] = "none"
        /\ \A m \in Try : review'[m] # "none" => m \in Made
    BY <1>1, <1>2, <1>6, <2>2, <2>3, <2>4, ReviewOpened
  <2>6. Typed'
    BY <1>1, <1>5, <1>6, <2>5 DEF Inv, Typed
  <2>7. MadeInv'
    BY <1>5, <1>6, <2>5 DEF Inv, MadeInv
  <2>8. \A m \in Try : review[m] # "none" => review'[m] = review[m]
    BY <2>4, <2>5 DEF Inv, Typed
  <2>9. Opens
    BY <1>1, <1>2, <1>6, <2>3, <2>4 DEF Opens
  <2> QED BY <1>6, <2>5, <2>6, <2>7, <2>8, <2>9 DEF Inv, Kept
<1>9. CASE ~ whole
  <2>1. review' = review
    BY <1>1, <1>9
  <2>2. ReviewInv'
    BY <1>1, <1>2, <2>1, Unreviewed
  <2>3. Typed'
    BY <1>1, <1>5, <1>6, <2>1 DEF Inv, Typed
  <2>4. MadeInv'
    BY <1>5, <1>6, <2>1 DEF Inv, MadeInv
  <2>5. Rests
    BY <1>1, <1>4, <1>5, <1>9, <2>1 DEF Rests
  <2> QED BY <1>6, <2>1, <2>2, <2>3, <2>4, <2>5 DEF Inv, Kept
<1> QED BY <1>8, <1>9

\* fail: a candidate that failed for good closes the group as well, and the review
\* is opened for the latest attempt that made an image of it.
LEMMA FailStep ==
  ASSUME Inv, NEW n \in Try, NEW failure \in Failure, Fail(n, failure)
  PROVE  Inv' /\ Kept /\ (Rests \/ Opens)
<1> DEFINE state == FailState(n, failure)
           g  == cand[n][1]
           v  == IF state = "ready" THEN "failed_retryable" ELSE "failed_terminal"
           gs == [gen EXCEPT ![cand[n]] = v]
           images  == {m \in Made : cand[m] \in SucceededIn(g, gs)}
           partial == state = "failed_terminal" /\ Reviewable(g, gs)
           next == IF partial THEN "succeeded"
                   ELSE IF state = "failed_terminal" /\ ~Complete(g, gs) THEN "ready" ELSE state
<1>1. /\ lease[n] = "live" /\ gen' = gs /\ lease' = [lease EXCEPT ![n] = "none"]
      /\ review' = IF partial THEN [review EXCEPT ![Latest(images)] = Opened] ELSE review
      /\ stage' = [stage EXCEPT ![Edit] = next] /\ UNCHANGED <<group, cand>>
  BY DEF Fail, Submits, Aggregate
<1>2. n \in Rows /\ NoReview
  BY <1>1, NotReviewed DEF Rows
<1>3. stage \in [Item -> StageState] /\ state \in {"waiting_manual", "ready", "failed_terminal"}
  BY DEF Inv, Typed, FailState
<1>4. next \in {"succeeded", "ready", "waiting_manual", "failed_terminal"} /\ (partial => next = "succeeded")
  BY <1>3
<1>5. stage' \in [Item -> StageState] /\ stage'[Edit] = next /\ stage'[Edit] # "pending"
  <2> HIDE DEF next
  <2> QED BY <1>1, <1>3, <1>4, Positions, States
<1>6. /\ LeaseInv' /\ Rows' = Rows \ {n} /\ Made' = Made
      /\ cand[n] \in Members(group) /\ group \in 1..Groups /\ gen' \in [Candidate -> GenState]
      /\ lease' \in [Try -> {"none", "live", "expired", "revoked"}]
      /\ \A c \in Candidate : gen[c] = "succeeded" => gen'[c] = "succeeded"
      /\ \A m \in Try : lease'[m] # "none" => m \in Made
      /\ \A c \in Members(group) : gen'[c] # "none"
  <2>1. v \in {"succeeded", "failed_retryable", "failed_terminal"}
    OBVIOUS
  <2> HIDE DEF v, next
  <2> QED BY <1>1, <1>2, <1>5, <2>1, Verdict
<1>7. g = group /\ cand[n] \in Candidate
  BY <1>6, Groupmates
<1>8. CASE partial
  <2>1. Complete(group, gen') /\ SucceededIn(group, gen') # {}
    BY <1>1, <1>7, <1>8 DEF Reviewable
  <2>2. \A c \in Members(group) : gen'[c] \notin Unfinished
    BY <1>6, <2>1, CompleteSettled
  <2>3. \A c \in Members(group) : gen'[c] \in SettledStates
    BY <1>6, <2>2, NotUnfinished, Groupmates
  <2> DEFINE r == Latest(images)
  <2>4. images \subseteq Try /\ images # {}
    <3>1. PICK c \in SucceededIn(group, gen') : TRUE
      BY <2>1
    <3>2. c \in Members(group) /\ c \in Candidate /\ gen'[c] = "succeeded"
      BY <1>6, <3>1, Groupmates DEF SucceededIn
    <3>3. PICK m \in Try : cand[m] = c
      BY <1>1, <1>6, <3>2 DEF LeaseInv
    <3>4. m \in Made
      BY <3>2, <3>3, Groupmates DEF Made
    <3> QED BY <1>1, <1>7, <3>1, <3>3, <3>4 DEF Made
  <2>5. r \in images
    BY <2>4, LatestIn
  <2>6. r \in Try /\ cand[r] \in Members(group)
    BY <1>7, <2>4, <2>5 DEF SucceededIn
  <2>7. review' = [review EXCEPT ![r] = Opened] /\ stage'[Edit] = "succeeded"
    BY <1>1, <1>4, <1>5, <1>8
  <2> HIDE DEF r
  <2>8. /\ ReviewInv' /\ review' \in [Try -> ReviewState] /\ review[r] = "none"
        /\ \A m \in Try : review'[m] # "none" => m \in Made
    BY <1>1, <1>2, <2>1, <2>3, <2>6, <2>7, ReviewOpened
  <2>9. Typed'
    BY <1>1, <1>5, <1>6, <2>8 DEF Inv, Typed
  <2>10. MadeInv'
    BY <1>5, <1>6, <2>8 DEF Inv, MadeInv
  <2>11. \A m \in Try : review[m] # "none" => review'[m] = review[m]
    BY <2>6, <2>7, <2>8 DEF Inv, Typed
  <2>12. Opens
    BY <1>1, <2>1, <2>6, <2>7 DEF Opens
  <2> QED BY <1>6, <2>8, <2>9, <2>10, <2>11, <2>12 DEF Inv, Kept
<1>9. CASE ~ partial
  <2>1. review' = review
    BY <1>1, <1>9
  <2>2. ReviewInv'
    BY <1>1, <1>2, <2>1, Unreviewed
  <2>3. Typed'
    BY <1>1, <1>5, <1>6, <2>1 DEF Inv, Typed
  <2>4. MadeInv'
    BY <1>5, <1>6, <2>1 DEF Inv, MadeInv
  <2>5. next # "succeeded"
    BY <1>3, <1>9
  <2>6. Rests
    BY <1>1, <1>5, <2>1, <2>5 DEF Rests
  <2> QED BY <1>6, <2>1, <2>2, <2>3, <2>4, <2>6 DEF Inv, Kept
<1> QED BY <1>8, <1>9

\* The rows of a new group begin as pending, and nothing else changes.
LEMMA Materializes ==
  ASSUME Inv
  PROVE  /\ Materialized \in [Candidate -> GenState]
         /\ \A c \in Candidate : gen[c] # "none" => Materialized[c] = gen[c]
         /\ \A c \in Candidate : gen[c] = "none" => Materialized[c] \in {"none", "pending"}
         /\ \A c \in Members(group) : Materialized[c] # "none" /\ c \in Candidate
<1>1. gen \in [Candidate -> GenState] /\ "pending" \in GenState /\ group \in 1..Groups
  BY DEF Inv, Typed, GenState
<1>2. \A c \in Members(group) : c \in Candidate /\ c[1] = group
  BY <1>1, Groupmates
<1> QED BY <1>1, <1>2 DEF Materialized

\* A new attempt has the next number.
LEMMA NextTry ==
  ASSUME Inv, NEW n, n = Cardinality(Made) + 1, n \in Try, NEW c \in Candidate,
         cand' = [cand EXCEPT ![n] = c]
  PROVE  /\ n \notin Made /\ lease[n] = "none" /\ review[n] = "none" /\ (\A m \in Made : m < n)
         /\ Made' = Made \cup {n} /\ Made' = 1..Cardinality(Made')
         /\ cand' \in [Try -> Candidate \cup {NoCandidate}] /\ cand'[n] = c
         /\ \A m \in Try : m # n => cand'[m] = cand[m]
<1>1. cand \in [Try -> Candidate \cup {NoCandidate}] /\ Made = 1..Cardinality(Made)
  BY DEF Inv, Typed, MadeInv
<1>2. cand' \in [Try -> Candidate \cup {NoCandidate}] /\ cand'[n] = c /\ \A m \in Try : m # n => cand'[m] = cand[m]
  BY <1>1
<1>3. IsFiniteSet(1..Tries) /\ Made \in SUBSET (1..Tries)
  BY Positions, FS_Interval DEF Made, Try
<1>4. IsFiniteSet(Made) /\ Cardinality(Made) \in Nat
  BY <1>3, FS_Subset, FS_CardinalityType
<1>5. n \notin Made /\ \A m \in Made : m < n
  <2> DEFINE k == Cardinality(Made)
  <2>1. k \in Nat /\ n = k + 1 /\ Made = 1..k
    BY <1>1, <1>4
  <2> HIDE DEF k
  <2> QED BY <2>1
<1>6. Made' = Made \cup {n}
  BY <1>2, Groupmates DEF Made
<1>7. Cardinality(Made') = Cardinality(Made) + 1
  BY <1>4, <1>5, <1>6, FS_AddElement
<1>8. Made' = 1..Cardinality(Made')
  <2> DEFINE k == Cardinality(Made)
  <2>1. k \in Nat /\ n = k + 1 /\ Made' = (1..k) \cup {n} /\ Cardinality(Made') = k + 1
    BY <1>1, <1>4, <1>6, <1>7
  <2> HIDE DEF k
  <2> QED BY <2>1
<1>9. lease[n] = "none" /\ review[n] = "none"
  BY <1>5 DEF Inv, MadeInv
<1> QED BY <1>2, <1>5, <1>6, <1>8, <1>9

\* lease_next: a candidate is leased, given up, or the group is closed.
LEMMA LeaseNextStep ==
  ASSUME Inv, NEW w \in Worker, LeaseNext(w)
  PROVE  Inv' /\ Kept /\ (Rests \/ Leases \/ Opens)
<1> DEFINE gs == Materialized
           st == RefreshAll(stage, review)
           n  == Cardinality(Made) + 1
           c  == CHOOSE x \in Leasable(gs) : \A y \in Leasable(gs) : x[2] <= y[2]
           done == SucceededIn(group, gs)
           top  == CHOOSE x \in done : \A y \in done : y[2] <= x[2]
<1>1. st[Edit] \in {"ready", "leased", "running"} /\ group' = group
  BY DEF LeaseNext
<1>2. st \in [Item -> StageState] /\ st[Edit] = stage[Edit] /\ st[Edit] # "pending"
  BY <1>1, RefreshKeeps DEF Inv, Typed, MadeInv
<1>3. NoReview
  BY <1>1, <1>2, NotReviewed
<1>4. /\ gs \in [Candidate -> GenState]
      /\ \A x \in Candidate : gen[x] # "none" => gs[x] = gen[x]
      /\ \A x \in Candidate : gen[x] = "none" => gs[x] \in {"none", "pending"}
      /\ \A x \in Members(group) : gs[x] # "none" /\ x \in Candidate
  BY Materializes
<1>5. group \in 1..Groups
  BY DEF Inv, Typed
<1> HIDE DEF gs, st
<1>6. ASSUME Leasable(gs) # {} PROVE c \in Members(group) /\ c \in Candidate /\ gs[c] \in {"pending", "failed_retryable"}
  <2>1. Leasable(gs) \subseteq Members(group)
    BY DEF Leasable
  <2>2. c \in Leasable(gs)
    BY <1>5, <1>6, <2>1, FirstIn
  <2> QED BY <1>4, <2>2 DEF Leasable
<1> HIDE DEF c
\* the candidate has had all its attempts
<1>7. CASE /\ Leasable(gs) # {} /\ gen' = [gs EXCEPT ![c] = "failed_terminal"] /\ stage' = st
           /\ UNCHANGED <<cand, lease, review>>
  <2>1. "failed_terminal" \in GenState
    BY DEF GenState
  <2>2. /\ gen' \in [Candidate -> GenState] /\ gen'[c] = "failed_terminal"
        /\ \A x \in Candidate : x # c => gen'[x] = gs[x]
    BY <1>4, <1>6, <1>7, <2>1
  <2>3. \A x \in Candidate : gen[x] \in {"running", "succeeded"} => gen'[x] = gen[x]
    BY <1>4, <1>6, <1>7, <2>2
  <2>4. \A x \in Candidate : gen'[x] = "succeeded" => gen[x] = "succeeded"
    BY <1>4, <2>2
  <2>5. \A x \in Members(group) : gen'[x] # "none"
    BY <1>4, <2>2
  <2>6. Typed'
    BY <1>1, <1>2, <1>7, <2>2 DEF Inv, Typed
  <2>7. MadeInv'
    <3>1. Made' = Made
      BY <1>7 DEF Made
    <3> QED BY <1>2, <1>7, <3>1 DEF Inv, MadeInv
  <2>8. LeaseInv'
    <3>1. Rows' = Rows
      BY <1>7 DEF Rows
    <3>2. \A m \in Rows : cand[m] \in Members(group) /\ gen[cand[m]] = "running" /\ cand[m] \in Candidate
      BY <1>4 DEF Inv, LeaseInv
    <3>3. Members(group)' = Members(group)
      BY <1>1 DEF Members
    <3> QED BY <1>7, <2>3, <2>4, <2>5, <3>1, <3>2, <3>3 DEF Inv, LeaseInv
  <2>9. ReviewInv'
    BY <1>1, <1>3, <1>7, Unreviewed
  <2>10. Rests
    BY <1>1, <1>7 DEF Rests
  <2> QED BY <1>7, <2>3, <2>6, <2>7, <2>8, <2>9, <2>10 DEF Inv, Kept
\* a new attempt is made
<1>8. CASE /\ Leasable(gs) # {} /\ n \in Try /\ gen' = [gs EXCEPT ![c] = "running"]
           /\ stage' = [st EXCEPT ![Edit] = "running"] /\ cand' = [cand EXCEPT ![n] = c]
           /\ lease' = [lease EXCEPT ![n] = "live"] /\ UNCHANGED review
  <2>1. "running" \in GenState
    BY DEF GenState
  <2>2. /\ gen' \in [Candidate -> GenState] /\ gen'[c] = "running"
        /\ \A x \in Candidate : x # c => gen'[x] = gs[x]
    BY <1>4, <1>6, <1>8, <2>1
  <2>3. \A x \in Candidate : gen[x] \in {"running", "succeeded"} => gen'[x] = gen[x] /\ x # c
    BY <1>4, <1>6, <1>8, <2>2
  <2>4. \A x \in Candidate : gen'[x] = "succeeded" => gen[x] = "succeeded"
    BY <1>4, <2>2
  <2>5. \A x \in Members(group) : gen'[x] # "none"
    BY <1>4, <2>2
  <2>6. /\ n \notin Made /\ lease[n] = "none" /\ review[n] = "none" /\ (\A m \in Made : m < n)
        /\ Made' = Made \cup {n} /\ Made' = 1..Cardinality(Made')
        /\ cand' \in [Try -> Candidate \cup {NoCandidate}] /\ cand'[n] = c
        /\ \A m \in Try : m # n => cand'[m] = cand[m]
    BY <1>6, <1>8, NextTry
  <2> HIDE DEF n
  <2>7. lease \in [Try -> {"none", "live", "expired", "revoked"}]
    BY DEF Inv, Typed
  <2>8. /\ lease' \in [Try -> {"none", "live", "expired", "revoked"}] /\ lease'[n] = "live"
        /\ \A m \in Try : m # n => lease'[m] = lease[m]
    BY <1>8, <2>7
  <2>9. stage' \in [Item -> StageState] /\ stage'[Edit] = "running"
    BY <1>2, <1>8, Positions, States
  <2>10. Typed'
    BY <1>1, <1>8, <2>2, <2>6, <2>8, <2>9 DEF Inv, Typed
  <2>11. MadeInv'
    BY <1>8, <2>6, <2>8, <2>9 DEF Inv, MadeInv
  <2>12. LeaseInv'
    <3>1. Rows' = Rows \cup {n} /\ n \notin Rows
      BY <1>8, <2>6, <2>8 DEF Rows
    <3>2. \A m \in Rows : /\ m # n /\ cand'[m] = cand[m] /\ cand[m] \in Members(group)
                          /\ gen'[cand[m]] = "running" /\ cand[m] # c
      <4>1. SUFFICES ASSUME NEW m \in Rows
                     PROVE /\ m # n /\ cand'[m] = cand[m] /\ cand[m] \in Members(group)
                           /\ gen'[cand[m]] = "running" /\ cand[m] # c
        OBVIOUS
      <4>2. m \in Try /\ m # n /\ cand'[m] = cand[m]
        BY <2>6, <3>1 DEF Rows
      <4>3. cand[m] \in Members(group) /\ gen[cand[m]] = "running" /\ cand[m] \in Candidate
        BY <1>4 DEF Inv, LeaseInv
      <4> QED BY <2>3, <4>2, <4>3
    <3>3. Members(group)' = Members(group)
      BY <1>1 DEF Members
    <3>4. \A m \in Rows' : cand'[m] \in Members(group) /\ gen'[cand'[m]] = "running"
      BY <1>6, <1>8, <2>2, <2>6, <3>1, <3>2
    <3>5. \A m, k \in Rows' : cand'[m] = cand'[k] => m = k
      <4>1. \A m, k \in Rows : cand[m] = cand[k] => m = k
        BY DEF Inv, LeaseInv
      <4> QED BY <2>6, <3>1, <3>2, <4>1
    <3>6. \A x \in Candidate : gen'[x] = "succeeded" => \E m \in Try : cand'[m] = x
      <4>1. SUFFICES ASSUME NEW x \in Candidate, gen'[x] = "succeeded" PROVE \E m \in Try : cand'[m] = x
        OBVIOUS
      <4>2. PICK m \in Try : cand[m] = x
        BY <2>4, <4>1 DEF Inv, LeaseInv
      <4>3. m \in Made
        BY <4>2, Groupmates DEF Made
      <4> QED BY <2>6, <4>2, <4>3
    <3> QED BY <2>5, <3>3, <3>4, <3>5, <3>6 DEF LeaseInv
  <2>13. ReviewInv'
    <3>1. \A m \in Try : review[m] # "none" => cand'[m] = cand[m]
      BY <2>6
    <3> QED BY <1>1, <1>3, <1>8, <3>1, Unreviewed
  <2>14. Leases
    BY <1>6, <1>8, <2>6, <2>9 DEF Leases
  <2> QED BY <1>8, <2>3, <2>10, <2>11, <2>12, <2>13, <2>14 DEF Inv, Kept
\* nothing is left to generate
<1>9. CASE /\ \A x \in Members(group) : gs[x] \notin Unfinished
           /\ gen' = gs
           /\ IF done # {}
              THEN /\ stage' = [st EXCEPT ![Edit] = "succeeded"]
                   /\ review' = [review EXCEPT ![Latest(TriesOf(top))] = Opened]
              ELSE /\ stage' = [st EXCEPT ![Edit] = "failed_terminal"]
                   /\ UNCHANGED review
           /\ UNCHANGED <<cand, lease>>
  <2>1. \A x \in Members(group) : gen'[x] \in SettledStates /\ gen'[x] # "none"
    BY <1>4, <1>9, NotUnfinished
  <2>2. \A x \in Candidate : gen[x] = "succeeded" <=> gen'[x] = "succeeded"
    BY <1>4, <1>9
  <2>3. Rows = {}
    <3>1. ASSUME NEW m \in Rows PROVE FALSE
      <4>1. cand[m] \in Members(group) /\ gen[cand[m]] = "running"
        BY DEF Inv, LeaseInv
      <4>2. gs[cand[m]] = "running"
        BY <1>4, <4>1
      <4> QED BY <1>9, <4>1, <4>2 DEF Unfinished
    <3> QED BY <3>1
  <2>4. /\ stage' \in [Item -> StageState] /\ stage'[Edit] # "pending"
        /\ done # {} => stage'[Edit] = "succeeded"
    BY <1>2, <1>9, Positions, States
  <2>5. LeaseInv'
    <3>1. Rows' = {}
      BY <1>9, <2>3 DEF Rows
    <3> QED BY <1>9, <2>2, <3>1 DEF Inv, LeaseInv
  <2>6. Made' = Made
    BY <1>9 DEF Made
  <2>7. CASE done # {}
    <3> DEFINE r == Latest(TriesOf(top))
    <3>1. done \subseteq Members(group)
      BY DEF SucceededIn
    <3>2. top \in done
      BY <1>5, <2>7, <3>1, FirstIn
    <3>3. top \in Members(group) /\ gs[top] = "succeeded"
      BY <3>2 DEF SucceededIn
    <3> HIDE DEF top
    <3>4. top \in Candidate /\ gen[top] = "succeeded"
      BY <1>4, <3>3
    <3>5. TriesOf(top) \subseteq Try /\ TriesOf(top) # {}
      BY <3>4 DEF TriesOf, Inv, LeaseInv
    <3>6. r \in TriesOf(top)
      BY <3>5, LatestIn
    <3>7. r \in Try /\ cand[r] \in Members(group)
      BY <3>3, <3>6 DEF TriesOf
    <3>8. review' = [review EXCEPT ![r] = Opened] /\ stage'[Edit] = "succeeded"
      BY <1>9, <2>4, <2>7
    <3>9. SucceededIn(group, gen') # {}
      BY <1>9, <2>7
    <3> HIDE DEF r
    <3>10. /\ ReviewInv' /\ review' \in [Try -> ReviewState] /\ review[r] = "none"
           /\ \A m \in Try : review'[m] # "none" => m \in Made
      BY <1>1, <1>3, <1>9, <2>1, <3>7, <3>8, <3>9, ReviewOpened
    <3>11. Typed'
      BY <1>1, <1>4, <1>9, <2>4, <3>10 DEF Inv, Typed
    <3>12. MadeInv'
      BY <1>9, <2>4, <2>6, <3>10 DEF Inv, MadeInv
    <3>13. \A m \in Try : review[m] # "none" => review'[m] = review[m]
      BY <3>7, <3>8, <3>10 DEF Inv, Typed
    <3>14. Opens
      BY <1>9, <3>7, <3>8, <3>9 DEF Opens
    <3> QED BY <2>2, <2>5, <3>10, <3>11, <3>12, <3>13, <3>14 DEF Inv, Kept
  <2>8. CASE done = {}
    <3>1. review' = review
      BY <1>9, <2>8
    <3>2. ReviewInv'
      BY <1>1, <1>3, <1>9, <3>1, Unreviewed
    <3>3. Typed'
      BY <1>1, <1>4, <1>9, <2>4, <3>1 DEF Inv, Typed
    <3>4. MadeInv'
      BY <1>9, <2>4, <2>6, <3>1 DEF Inv, MadeInv
    <3>5. stage' = [st EXCEPT ![Edit] = "failed_terminal"]
      BY <1>9, <2>8
    <3>6. Rests
      BY <1>2, <1>9, <3>1, <3>5, Positions DEF Rests
    <3> QED BY <2>2, <2>5, <3>1, <3>2, <3>3, <3>4, <3>6 DEF Inv, Kept
  <2> QED BY <2>7, <2>8
<1> QED BY <1>7, <1>8, <1>9 DEF LeaseNext, gs, st, c

LEMMA AttemptStepInv ==
  ASSUME Inv, NEW n \in Try, AttemptStep(n)
  PROVE  Inv' /\ Kept
<1>1. /\ stage \in [Item -> StageState] /\ stage[Edit] # "pending"
      /\ lease \in [Try -> {"none", "live", "expired", "revoked"}]
  BY DEF Inv, Typed, MadeInv
<1>2. CASE Prepare(n)
  <2>1. n \in Rows /\ UNCHANGED <<group, gen, cand, review, lease>> /\ stage' = [stage EXCEPT ![Edit] = "committing"]
    BY <1>2 DEF Prepare, Submits, Rows, made, gate
  <2>2. stage' \in [Item -> StageState] /\ stage'[Edit] = "committing"
    BY <1>1, <2>1, Positions, States
  <2> QED BY <1>1, <2>1, <2>2, Frame
<1>3. CASE Publish(n)
  <2>1. UNCHANGED <<group, gen, cand, review, lease, stage>>
    BY <1>3 DEF Publish, queue, made, gate
  <2> QED BY <1>1, <2>1, Frame
<1>4. CASE Fenced(n)
  <2>1. UNCHANGED <<group, gen, cand, review, lease, stage>>
    BY <1>4 DEF Fenced, queue, made, gate
  <2> QED BY <1>1, <2>1, Frame
<1>5. CASE WorkerFinalize(n)
  <2>1. CASE lease[n] = "live" /\ Finalize(n)
    <3>1. n \in Rows
      BY <2>1 DEF Rows
    <3> QED BY <2>1, <3>1, FinalizeStep
  <2>2. CASE UNCHANGED <<queue, made, lease, commit, gate, ctl>>
    <3>1. UNCHANGED <<group, gen, cand, review, lease, stage>>
      BY <2>2 DEF queue, made, gate
    <3> QED BY <1>1, <3>1, Frame
  <2> QED BY <1>5, <2>1, <2>2 DEF WorkerFinalize
<1>6. CASE \E failure \in Failure : Fail(n, failure)
  BY <1>6, FailStep
<1> QED BY <1>2, <1>3, <1>4, <1>5, <1>6 DEF AttemptStep

-----------------------------------------------------------------------------
(* The steps of resume, cancel, retry and of the environment.              *)

LEMMA ResumeStepInv ==
  ASSUME Inv, ResumeStep
  PROVE  Inv' /\ Kept
<1>1. /\ stage \in [Item -> StageState] /\ stage[Edit] # "pending"
      /\ lease \in [Try -> {"none", "live", "expired", "revoked"}]
  BY DEF Inv, Typed, MadeInv
<1>2. /\ NoRows \in [Try -> {"none", "live", "expired", "revoked"}]
      /\ Revoked \in [Try -> {"none", "live", "expired", "revoked"}]
      /\ \A n \in Try : NoRows[n] = "none" /\ (Revoked[n] # "none" => lease[n] # "none")
  BY DEF NoRows, Revoked, Rows
<1>3. CASE RecoverBegins
  <2>1. UNCHANGED <<group, gen, cand, review, lease, stage>>
    BY <1>3 DEF RecoverBegins, queue, made, gate
  <2> QED BY <1>1, <2>1, Frame
<1>4. CASE ResumeEnds \/ Refresh
  <2>1. UNCHANGED <<group, gen, cand, review, lease>> /\ Settled(stage, review, gen)
    BY <1>4 DEF ResumeEnds, Refresh, made
  <2>2. stage' \in [Item -> StageState] /\ stage'[Edit] = stage[Edit]
    BY <1>1, <2>1, SettledKeeps
  <2> QED BY <1>1, <2>1, <2>2, Frame
<1>5. ASSUME NEW n \in Try, Reconcile(n) PROVE Inv' /\ Kept
  <2>1. n \in Rows
    BY <1>5 DEF Reconcile, Unrevoked, Rows
  <2>2. CASE Finalize(n)
    BY <2>1, <2>2, FinalizeStep
  <2>3. CASE /\ stage' = [stage EXCEPT ![Edit] = "failed_terminal"] /\ lease' = NoRows
             /\ UNCHANGED <<batch, budget, group, made, gate>>
    <3>1. UNCHANGED <<group, gen, cand, review>>
      BY <2>3 DEF made, gate
    <3>2. stage' \in [Item -> StageState] /\ stage'[Edit] = "failed_terminal"
      BY <1>1, <2>3, Positions, States
    <3> QED BY <1>2, <2>1, <2>3, <3>1, <3>2, Frame
  <2> QED BY <1>5, <2>2, <2>3 DEF Reconcile
<1>6. ASSUME NEW n \in Try, RecoverRevokes(n) PROVE Inv' /\ Kept
  <2>1. UNCHANGED <<group, gen, cand, review, stage>> /\ (lease' = Revoked \/ lease' = lease)
    BY <1>6 DEF RecoverRevokes, queue, made, gate
  <2>2. /\ lease' \in [Try -> {"none", "live", "expired", "revoked"}]
        /\ \A m \in Try : lease'[m] # "none" => lease[m] # "none"
    BY <1>1, <1>2, <2>1
  <2> QED BY <1>1, <2>1, <2>2, Frame
<1>7. ASSUME NEW n \in Try, RecoverSettles(n) PROVE Inv' /\ Kept
  <2>1. UNCHANGED <<group, gen, cand, review>>
    BY <1>7 DEF RecoverSettles, made, gate
  <2>2. CASE IsFirstLease(n)
    <3>1. n \in Rows /\ lease' = NoRows
          /\ stage' = [stage EXCEPT ![Edit] = IF n < budget THEN "ready" ELSE "failed_terminal"]
      BY <1>7, <2>2 DEF RecoverSettles, IsFirstLease
    <3>2. stage' \in [Item -> StageState] /\ stage'[Edit] # "pending"
      BY <1>1, <3>1, Positions, States
    <3> QED BY <1>2, <2>1, <3>1, <3>2, Frame
  <2>3. CASE ~ IsFirstLease(n)
    <3>1. UNCHANGED <<stage, lease>>
      BY <1>7, <2>3 DEF RecoverSettles
    <3> QED BY <1>1, <2>1, <3>1, Frame
  <2> QED BY <2>2, <2>3
<1> QED BY <1>3, <1>4, <1>5, <1>6, <1>7 DEF ResumeStep

LEMMA OperatorInv ==
  ASSUME Inv, Operator
  PROVE  Inv' /\ Kept
<1>1. /\ stage \in [Item -> StageState] /\ stage[Edit] # "pending"
      /\ lease \in [Try -> {"none", "live", "expired", "revoked"}]
  BY DEF Inv, Typed, MadeInv
<1>2. /\ NoRows \in [Try -> {"none", "live", "expired", "revoked"}]
      /\ Revoked \in [Try -> {"none", "live", "expired", "revoked"}]
      /\ \A n \in Try : NoRows[n] = "none" /\ (Revoked[n] # "none" => lease[n] # "none")
  BY DEF NoRows, Revoked, Rows
<1>3. CASE CancelBegins
  <2>1. /\ UNCHANGED <<group, gen, cand, review>>
        /\ stage' = [i \in Item |-> IF stage[i] \in TerminalStates THEN stage[i] ELSE "canceled"]
        /\ lease' = lease \/ lease' = Revoked
    BY <1>3 DEF CancelBegins, made, gate
  <2>2. stage' \in [Item -> StageState]
    BY <1>1, <2>1, States
  <2>3. stage'[Edit] = stage[Edit] \/ (stage'[Edit] = "canceled" /\ stage[Edit] # "succeeded")
    BY <2>1, Positions DEF TerminalStates
  <2>4. /\ lease' \in [Try -> {"none", "live", "expired", "revoked"}]
        /\ \A m \in Try : lease'[m] # "none" => lease[m] # "none"
    BY <1>1, <1>2, <2>1
  <2> QED BY <1>1, <2>1, <2>2, <2>3, <2>4, Frame
<1>4. CASE CancelEnds
  <2>1. UNCHANGED <<group, gen, cand, review, stage>> /\ (lease' = lease \/ lease' = NoRows)
    BY <1>4 DEF CancelEnds, Aggregate, made, gate
  <2>2. /\ lease' \in [Try -> {"none", "live", "expired", "revoked"}]
        /\ \A m \in Try : lease'[m] # "none" => lease[m] # "none"
    BY <1>1, <1>2, <2>1
  <2> QED BY <1>1, <2>1, <2>2, Frame
<1>5. ASSUME NEW S \in {Item, {Edit}, {GateItem}}, Retry(S) PROVE Inv' /\ Kept
  <2> DEFINE rows == {i \in S : stage[i] \in {"failed_terminal", "rejected", "waiting_manual"}}
  <2>1. UNCHANGED <<group, gen, cand, review, lease>> /\ \E kept \in LeftReady(rows) : stage' = Retried(stage, rows, kept)
    BY <1>5 DEF Retry, made, gate
  <2>2. \A i \in rows : i \in Item /\ Edit \notin After(i)
    BY Positions
  <2> HIDE DEF rows
  <2>5. PICK kept \in LeftReady(rows) : stage' = Retried(stage, rows, kept)
    BY <2>1
  <2>6. Edit \in kept <=> Edit \in rows
    BY <2>2, <2>5 DEF LeftReady, Foremost
  <2>3. stage' \in [Item -> StageState]
    BY <1>1, <2>5, States DEF Retried
  <2>4. stage'[Edit] = IF Edit \in rows THEN "ready" ELSE stage[Edit]
    BY <2>2, <2>5, <2>6, Positions DEF Retried
  <2> USE DEF rows
  <2> QED BY <1>1, <2>1, <2>3, <2>4, Frame
<1>6. ASSUME NEW n \in Try, NEW c \in Candidate, Accept(n, c) PROVE Inv' /\ Kept
  <2> DEFINE rv == [review EXCEPT ![n] = "accepted"]
             st == [stage EXCEPT ![GateItem] = "succeeded"]
  <2>1. /\ review[n] = "pending" /\ review' = rv /\ stage' = RefreshAll(st, rv)
        /\ UNCHANGED <<group, gen, cand, lease>>
    BY <1>6 DEF Accept, Aggregate, made
  <2>2. st \in [Item -> StageState] /\ st[Edit] = stage[Edit]
    BY <1>1, Positions, States
  <2>3. stage' \in [Item -> StageState] /\ stage'[Edit] = stage[Edit]
    <3> HIDE DEF st, rv
    <3> QED BY <1>1, <2>1, <2>2, RefreshKeeps
  <2> QED BY <2>1, <2>3, ReviewDecided
<1>7. ASSUME NEW n \in Try, Reject(n) PROVE Inv' /\ Kept
  <2> DEFINE rv == [review EXCEPT ![n] = "rejected"]
             st == [stage EXCEPT ![GateItem] = "rejected"]
  <2>1. /\ review[n] = "pending" /\ review' = rv /\ Settled(st, rv, gen)
        /\ UNCHANGED <<group, gen, cand, lease>>
    BY <1>7 DEF Reject, made
  <2>2. st \in [Item -> StageState] /\ st[Edit] = stage[Edit]
    BY <1>1, Positions, States
  <2>3. stage' \in [Item -> StageState] /\ stage'[Edit] = stage[Edit]
    <3> HIDE DEF st, rv
    <3> QED BY <1>1, <2>1, <2>2, SettledKeeps
  <2> QED BY <2>1, <2>3, ReviewDecided
<1>8. ASSUME NEW n \in Try, CancelTask(n) PROVE Inv' /\ Kept
  <2> DEFINE rv == [review EXCEPT ![n] = "canceled"]
             st == [i \in Item |-> IF i = GateItem \/ (i[2] > Gate /\ stage[i] \notin TerminalStates)
                                   THEN "canceled" ELSE stage[i]]
  <2>1. /\ review[n] = "pending" /\ review' = rv /\ Settled(st, rv, gen)
        /\ UNCHANGED <<group, gen, cand, lease>>
    BY <1>8 DEF CancelTask, made
  <2>2. st \in [Item -> StageState] /\ st[Edit] = stage[Edit]
    <3>1. Edit[2] = 1
      BY DEF Edit
    <3>2. ~ (Edit[2] > Gate)
      BY <3>1, Positions
    <3> QED BY <1>1, <3>2, Positions, States
  <2>3. stage' \in [Item -> StageState] /\ stage'[Edit] = stage[Edit]
    <3> HIDE DEF st, rv
    <3> QED BY <1>1, <2>1, <2>2, SettledKeeps
  <2> QED BY <2>1, <2>3, ReviewDecided
<1>9. ASSUME NEW n \in Try, Regenerate(n) PROVE Inv' /\ Kept
  BY <1>9, RegenerateStep
<1> QED BY <1>3, <1>4, <1>5, <1>6, <1>7, <1>8, <1>9 DEF Operator, Decide

LEMMA EnvironmentInv ==
  ASSUME Inv, Environment \/ ServeGate \/ UNCHANGED vars
  PROVE  Inv' /\ Kept
<1>1. /\ stage \in [Item -> StageState] /\ stage[Edit] # "pending"
      /\ lease \in [Try -> {"none", "live", "expired", "revoked"}]
  BY DEF Inv, Typed, MadeInv
<1>2. ASSUME NEW n \in Try, Expire(n) PROVE Inv' /\ Kept
  <2>1. /\ UNCHANGED <<group, gen, cand, review, stage>> /\ lease[n] = "live"
        /\ lease' = [lease EXCEPT ![n] = "expired"]
    BY <1>2 DEF Expire, queue, made, gate
  <2>2. /\ lease' \in [Try -> {"none", "live", "expired", "revoked"}]
        /\ \A m \in Try : lease'[m] # "none" => lease[m] # "none"
    BY <1>1, <2>1
  <2> QED BY <1>1, <2>1, <2>2, Frame
<1>3. ASSUME NEW w \in Worker, WorkerDies(w) PROVE Inv' /\ Kept
  <2>1. UNCHANGED <<group, gen, cand, review, lease, stage>>
    BY <1>3 DEF WorkerDies, queue, made, gate
  <2> QED BY <1>1, <2>1, Frame
<1>4. CASE ServeGate
  <2> DEFINE st == [stage EXCEPT ![GateItem] = "succeeded"]
  <2>1. Settled(st, review, gen) /\ UNCHANGED <<group, gen, cand, review, lease>>
    BY <1>4 DEF ServeGate, made
  <2>2. st \in [Item -> StageState] /\ st[Edit] = stage[Edit]
    BY <1>1, Positions, States
  <2>3. stage' \in [Item -> StageState] /\ stage'[Edit] = stage[Edit]
    <3> HIDE DEF st
    <3> QED BY <1>1, <2>1, <2>2, SettledKeeps
  <2> QED BY <1>1, <2>1, <2>3, Frame
<1>5. CASE UNCHANGED vars
  <2>1. UNCHANGED <<group, gen, cand, review, lease, stage>>
    BY <1>5 DEF vars, queue, made, gate
  <2> QED BY <1>1, <2>1, Frame
<1> QED BY <1>2, <1>3, <1>4, <1>5 DEF Environment

-----------------------------------------------------------------------------
(* The theorems.                                                           *)

LEMMA InitInv == Init => Inv
<1> SUFFICES ASSUME Init PROVE Inv
  OBVIOUS
<1>1. Rows = {} /\ \A n \in Try : review[n] = "none" /\ lease[n] = "none"
  BY DEF Init, Rows
<1>2. Made = {}
  BY Groupmates DEF Init, Made
<1>3. Typed
  <2>1. stage \in [Item -> StageState]
    BY States DEF Init
  <2>2. group \in 1..Groups
    BY Positions DEF Init
  <2>3. gen \in [Candidate -> GenState] /\ review \in [Try -> ReviewState]
    BY DEF Init, GenState, ReviewState
  <2> QED BY <2>1, <2>2, <2>3 DEF Init, Typed
<1>4. MadeInv
  <2>1. Cardinality(Made) = 0
    BY <1>2, FS_EmptySet
  <2>2. Made = 1..Cardinality(Made)
    BY <1>2, <2>1
  <2>3. stage[Edit] = "ready"
    BY Positions DEF Init
  <2> QED BY <1>1, <2>2, <2>3 DEF MadeInv
<1>5. LeaseInv
  BY <1>1 DEF LeaseInv, Init
<1>6. ReviewInv
  BY <1>1 DEF ReviewInv
<1> QED BY <1>3, <1>4, <1>5, <1>6 DEF Inv

LEMMA StepInv ==
  ASSUME Inv, [Next]_vars
  PROVE  Inv' /\ Kept
<1>1. ASSUME NEW w \in Worker, LeaseNext(w) PROVE Inv' /\ Kept
  BY <1>1, LeaseNextStep
<1>2. ASSUME NEW n \in Try, AttemptStep(n) PROVE Inv' /\ Kept
  BY <1>2, AttemptStepInv
<1> QED BY <1>1, <1>2, ResumeStepInv, OperatorInv, EnvironmentInv DEF Next, WorkerStep

LEMMA Invariant == Spec => []Inv
<1>1. Inv /\ [Next]_vars => Inv'
  BY StepInv
<1> QED BY <1>1, InitInv, PTL DEF Spec

\* No two attempts hold an unrevoked lease for the same candidate, for any number
\* of workers, slots and attempts: lease_next takes a candidate that is not being
\* generated, and recovery hands out nothing before every lease is gone.
THEOREM OneAttemptPerCandidate == Spec => []CandidateExclusive
<1>1. Inv => CandidateExclusive
  <2> SUFFICES ASSUME Inv, NEW n \in Try, NEW m \in Try, Unrevoked(n), Unrevoked(m), cand[n] = cand[m]
               PROVE n = m
    BY DEF CandidateExclusive
  <2>1. n \in Rows /\ m \in Rows
    BY DEF Unrevoked, Rows
  <2> QED BY <2>1 DEF Inv, LeaseInv
<1> QED BY <1>1, Invariant, PTL

\* A review that waits for a decision has images to choose from, is the only one,
\* and nothing of its group is being generated: whichever of commit, failure and
\* lease_next closed the group.
THEOREM ReviewsAreSound == Spec => []ReviewSound
<1>1. Inv => ReviewSound
  <2> SUFFICES ASSUME Inv, NEW n \in Try, review[n] = "pending"
               PROVE /\ SucceededIn(cand[n][1], gen) # {}
                     /\ \A m \in Try \ {n} : review[m] # "pending"
                     /\ \A m \in Try : Unrevoked(m) => cand[m][1] # cand[n][1]
    BY DEF ReviewSound
  <2>1. cand[n][1] = group /\ SucceededIn(group, gen) # {}
    BY DEF Inv, ReviewInv, ReviewedGroup
  <2>2. \A m \in Try \ {n} : review[m] # "pending"
    BY DEF Inv, ReviewInv
  <2>3. Rows = {}
    BY NotReviewed
  <2>4. \A m \in Try : ~ Unrevoked(m)
    BY <2>3 DEF Unrevoked, Rows
  <2> QED BY <2>1, <2>2, <2>4
<1> QED BY <1>1, Invariant, PTL

\* An image once generated stays available and a decided review stays decided,
\* whatever failures of siblings, recoveries and regenerations follow.
THEOREM ImagesStay == Spec => ImagesKept
<1>1. Inv /\ [Next]_vars =>
        [/\ \A c \in Candidate : gen[c] = "succeeded" => gen'[c] = "succeeded"
         /\ \A n \in Try : review[n] \notin {"none", "pending"} => review'[n] = review[n]]_vars
  BY StepInv DEF Kept
<1> QED BY <1>1, Invariant, PTL DEF Spec, ImagesKept

-----------------------------------------------------------------------------
(* What has passed the gate, where no worker serves it.                    *)

GroupOf(n) == cand[n][1]
Passed     == stage[GateItem] = "succeeded"

\* A later attempt is of the same group or a later one, none is of a group to
\* come, and a group has one review.
GroupInv ==
  /\ \A n, m \in Made : n <= m => GroupOf(n) <= GroupOf(m)
  /\ \A n \in Made : GroupOf(n) <= group
  /\ \A n, m \in Reviewed(review) : GroupOf(n) = GroupOf(m) => n = m

\* When image_edit has succeeded its current group is reviewed, and what has passed
\* the gate is an image of this group, which that review accepted.
GateInv ==
  /\ stage[Edit] = "succeeded" => \E n \in Reviewed(review) : GroupOf(n) = group
  /\ \A n \in Reviewed(review) : review[n] = "accepted" /\ GroupOf(n) = group =>
        SucceededIn(group, gen) # {} /\ (mode # "automatic" => Passed)
  /\ Passed => /\ accepted \in SucceededIn(group, gen)
               /\ \E n \in Reviewed(review) : review[n] = "accepted" /\ GroupOf(n) = group

AcceptedInv == GroupInv /\ GateInv

\* _refresh_ready opens the gate for a decision, once image_edit has succeeded.
LEMMA RefreshOfGate ==
  ASSUME NEW st \in [Item -> StageState], NEW rv, st[Edit] # "pending"
  PROVE  RefreshAll(st, rv)[GateItem] =
           IF st[GateItem] = "pending" /\ st[Edit] = "succeeded"
           THEN GateState(LatestDecision(rv)) ELSE st[GateItem]
<1> DEFINE d == [t \in Task |-> LatestDecision(rv)]
           once == RefreshOnce(st, d)
           twice == RefreshOnce(once, d)
<1>1. GateItem \in Item /\ GateItem[1] = TheTask /\ GateItem[2] = 2 /\ Gate = 2 /\ d[TheTask] = LatestDecision(rv)
  BY Positions DEF GateItem
<1>2. <<GateItem[1], GateItem[2] - 1>> = Edit
  BY <1>1 DEF Edit
<1>3. once[Edit] = st[Edit]
  BY Positions DEF RefreshOnce, Unblocked
<1>4. once[GateItem] = IF st[GateItem] = "pending" /\ st[Edit] = "succeeded"
                       THEN GateState(d[TheTask]) ELSE st[GateItem]
  BY <1>1, <1>2 DEF RefreshOnce, Unblocked, PredecessorOk
<1>5. twice[GateItem] = IF once[GateItem] = "pending" /\ once[Edit] = "succeeded"
                        THEN GateState(d[TheTask]) ELSE once[GateItem]
  BY <1>1, <1>2 DEF RefreshOnce, Unblocked, PredecessorOk
<1> HIDE DEF once, twice, d
<1>6. twice[GateItem] = IF st[GateItem] = "pending" /\ st[Edit] = "succeeded"
                        THEN GateState(LatestDecision(rv)) ELSE st[GateItem]
  BY <1>1, <1>3, <1>4, <1>5
<1> QED BY <1>6 DEF RefreshAll, Refreshed, twice, once, d

LEMMA OpensForAccepted ==
  ASSUME NEW x, GateState(x) = "succeeded"
  PROVE  x = "accepted"
BY DEF GateState

\* The last review is that of the current group, if this group has one.
LEMMA LastReview ==
  ASSUME NEW S \in SUBSET Try, NEW c, NEW n \in S,
         \A m \in S : c[m][1] \in Nat,
         \A m \in S : n <= m => c[n][1] <= c[m][1],
         \A m \in S : c[m][1] <= c[n][1],
         \A m \in S : c[m][1] = c[n][1] => m = n
  PROVE  Latest(S) = n
<1>1. \A m \in S : m \in Nat
  BY Positions DEF Try
<1>2. ASSUME NEW m \in S, n <= m PROVE m = n
  BY <1>2
<1>3. \A m \in S : m <= n
  BY <1>1, <1>2
<1>4. ASSUME NEW x \in S, \A m \in S : m <= x PROVE x = n
  BY <1>4, <1>2
<1> QED BY <1>3, <1>4 DEF Latest

\* A step without a refresh.
LEMMA GateRests ==
  ASSUME GateInv, UNCHANGED <<group, cand, review, accepted, mode>>,
         \A c \in Members(group) : gen[c] = "succeeded" => gen'[c] = "succeeded",
         stage'[Edit] = "succeeded" => stage[Edit] = "succeeded",
         Passed' <=> Passed
  PROVE  GateInv'
<1>1. SucceededIn(group, gen) \subseteq SucceededIn(group, gen')
  BY DEF SucceededIn
<1>2. Reviewed(review)' = Reviewed(review) /\ \A n : GroupOf(n)' = GroupOf(n)
  BY DEF Reviewed, GroupOf
<1>3. stage'[Edit] = "succeeded" => \E n \in Reviewed(review) : GroupOf(n) = group
  BY DEF GateInv
<1>4. \A n \in Reviewed(review) : review[n] = "accepted" /\ GroupOf(n) = group =>
        SucceededIn(group, gen') # {} /\ (mode # "automatic" => Passed')
  BY <1>1 DEF GateInv
<1>5. Passed' => /\ accepted \in SucceededIn(group, gen')
                 /\ \E n \in Reviewed(review) : review[n] = "accepted" /\ GroupOf(n) = group
  BY <1>1 DEF GateInv
<1>6. SucceededIn(group, gen)' = SucceededIn(group, gen')
  BY DEF SucceededIn, Members
<1> QED BY <1>2, <1>3, <1>4, <1>5, <1>6 DEF GateInv

\* A transaction that ends in a refresh of the table st it has made.
LEMMA GateSettles ==
  ASSUME Inv', GroupInv', UNCHANGED <<cand, mode>>, NEW st \in [Item -> StageState], st[Edit] # "pending",
         NEW rv, NEW gs, review' = rv, gen' = gs, Settled(st, rv, gs),
         st[Edit] = "succeeded" => \E n \in Reviewed(rv) : GroupOf(n) = group',
         \A n \in Reviewed(rv) : rv[n] = "accepted" /\ GroupOf(n) = group' =>
            SucceededIn(group', gs) # {} /\ (mode # "automatic" => st[GateItem] = "succeeded"),
         st[GateItem] = "succeeded" =>
            /\ Passed /\ accepted \in SucceededIn(group', gs)
            /\ \E n \in Reviewed(rv) : rv[n] = "accepted" /\ GroupOf(n) = group',
         st[Edit] = "succeeded" /\ st[GateItem] = "pending" => ~ Passed
  PROVE  GateInv'
<1>0. /\ Reviewed(review)' = Reviewed(rv) /\ SucceededIn(group, gen)' = SucceededIn(group', gs)
      /\ \A n : GroupOf(n)' = GroupOf(n)
      /\ LatestDecision(rv) = LatestDecision(review)'
  BY DEF Reviewed, SucceededIn, Members, GroupOf, LatestDecision, Latest
<1>1. stage' = RefreshAll(st, rv) /\ accepted' = PolicyAccepts(stage', rv, gs) /\ stage'[Edit] = st[Edit]
  BY RefreshKeeps DEF Settled
<1>2. stage'[GateItem] = IF st[GateItem] = "pending" /\ st[Edit] = "succeeded"
                         THEN GateState(LatestDecision(rv)) ELSE st[GateItem]
  BY <1>1, RefreshOfGate
<1>3. st[GateItem] = "succeeded" => stage'[GateItem] = "succeeded" /\ accepted' = accepted
  BY <1>1, <1>2 DEF PolicyAccepts, Passed
<1>4. ASSUME Passed', st[GateItem] # "succeeded"
      PROVE  accepted' \in SucceededIn(group', gs)
             /\ \E n \in Reviewed(rv) : rv[n] = "accepted" /\ GroupOf(n) = group'
  <2>1. st[GateItem] = "pending" /\ st[Edit] = "succeeded" /\ GateState(LatestDecision(rv)) = "succeeded"
    BY <1>2, <1>4 DEF Passed
  <2>2. PICK n \in Reviewed(rv) : GroupOf(n) = group'
    BY <2>1
  <2>3. Latest(Reviewed(rv)) = n
    <3>1. Reviewed(rv) \in SUBSET Try /\ Reviewed(rv) \subseteq Made'
      BY DEF Reviewed, Inv, MadeInv
    <3>2. \A m \in Reviewed(rv) : cand[m][1] \in Nat
      <4>1. \A m \in Reviewed(rv) : cand'[m][1] \in 1..group'
        BY <3>1 DEF Reviewed, Inv, ReviewInv, ReviewedGroup
      <4> QED BY <4>1
    <3>3. /\ \A m \in Reviewed(rv) : n <= m => cand[n][1] <= cand[m][1]
          /\ \A m \in Reviewed(rv) : cand[m][1] <= cand[n][1]
          /\ \A m \in Reviewed(rv) : cand[m][1] = cand[n][1] => m = n
      BY <1>0, <2>2, <3>1 DEF GroupInv, GroupOf
    <3> QED BY <3>1, <3>2, <3>3, LastReview
  <2>4. rv[n] = "accepted"
    <3>1. LatestDecision(rv) = "accepted"
      BY <2>1, OpensForAccepted
    <3> QED BY <2>2, <2>3, <3>1 DEF LatestDecision
  <2>5. SucceededIn(group', gs) # {} /\ mode = "automatic" /\ ~ Passed
    BY <2>1, <2>2, <2>4
  <2>6. accepted' = FirstSucceeded(group', gs)
    BY <1>1, <1>4, <2>2, <2>3, <2>5 DEF PolicyAccepts, Passed, GroupOf
  <2>7. SucceededIn(group', gs) \subseteq Members(group') /\ group' \in 1..Groups
    BY DEF SucceededIn, Inv, Typed
  <2>8. FirstSucceeded(group', gs) \in SucceededIn(group', gs)
    BY <2>5, <2>7, FirstIn DEF FirstSucceeded
  <2> QED BY <2>2, <2>4, <2>6, <2>8
<1>5. stage'[Edit] = "succeeded" => \E n \in Reviewed(rv) : GroupOf(n) = group'
  BY <1>1
<1>6. \A n \in Reviewed(rv) : rv[n] = "accepted" /\ GroupOf(n) = group' =>
        SucceededIn(group', gs) # {} /\ (mode # "automatic" => Passed')
  BY <1>3 DEF Passed
<1>7. Passed' => /\ accepted' \in SucceededIn(group', gs)
                 /\ \E n \in Reviewed(rv) : rv[n] = "accepted" /\ GroupOf(n) = group'
  BY <1>3, <1>4
<1> QED BY <1>0, <1>5, <1>6, <1>7 DEF GateInv

\* While the current group has no review nothing has passed the gate.
LEMMA NotPassed ==
  ASSUME GateInv, NoReview
  PROVE  ~ Passed /\ stage[Edit] # "succeeded"
BY DEF GateInv, NoReview, Reviewed, GroupOf

\* Groups stay in order when attempts and group do.
LEMMA GroupRests ==
  ASSUME GroupInv, UNCHANGED <<cand, group>>, Reviewed(review)' \subseteq Reviewed(review)
  PROVE  GroupInv'
BY DEF GroupInv, GroupOf, Made

\* A worker goes on with a group that has no review.
LEMMA GroupGoesOn ==
  ASSUME Inv, GroupInv, NoReview, UNCHANGED group, Rests \/ Leases \/ Opens
  PROVE  GroupInv'
<1>0. /\ Reviewed(review) \subseteq Made /\ Made \subseteq Try /\ group \in Nat /\ Try \subseteq Nat
      /\ \A c \in Members(group) : c[1] = group
      /\ \A n \in Reviewed(review) : GroupOf(n) # group
  BY Positions, Groupmates DEF Inv, Typed, MadeInv, Reviewed, Made, Try, NoReview, GroupOf
<1>1. CASE Rests
  <2>1. Reviewed(review)' = Reviewed(review)
    BY <1>1 DEF Rests, Reviewed
  <2> QED BY <1>1, <2>1, GroupRests DEF Rests
<1>2. CASE Leases
  <2>1. PICK n \in Try : /\ Made' = Made \cup {n} /\ (\A m \in Made : m < n)
                         /\ cand'[n] \in Members(group)
                         /\ \A m \in Try : m # n => cand'[m] = cand[m]
    BY <1>2 DEF Leases
  <2>2. cand'[n][1] = group /\ \A m \in Made : m # n /\ cand'[m] = cand[m]
    BY <1>0, <2>1
  <2>3. Reviewed(review)' = Reviewed(review)
    BY <1>2 DEF Leases, Reviewed
  <2>4. \A k, m \in Made' : k <= m => cand'[k][1] <= cand'[m][1]
    <3>1. SUFFICES ASSUME NEW k \in Made', NEW m \in Made', k <= m PROVE cand'[k][1] <= cand'[m][1]
      OBVIOUS
    <3>2. CASE k \in Made /\ m \in Made
      BY <2>2, <3>1, <3>2 DEF GroupInv, GroupOf
    <3>3. CASE m = n
      BY <1>0, <2>1, <2>2, <3>3 DEF GroupInv, GroupOf
    <3>4. CASE k = n /\ m \in Made
      BY <1>0, <2>1, <3>1, <3>4
    <3> QED BY <2>1, <3>2, <3>3, <3>4
  <2>5. \A m \in Made' : cand'[m][1] <= group
    BY <1>0, <2>1, <2>2 DEF GroupInv, GroupOf
  <2>6. \A k, m \in Reviewed(review) : cand'[k][1] = cand'[m][1] => k = m
    BY <1>0, <2>2 DEF GroupInv, GroupOf
  <2> QED BY <2>3, <2>4, <2>5, <2>6 DEF GroupInv, GroupOf
<1>3. CASE Opens
  <2>1. PICK r \in Try : cand[r] \in Members(group) /\ review' = [review EXCEPT ![r] = Opened]
    BY <1>3 DEF Opens
  <2>2. Reviewed(review)' \subseteq Reviewed(review) \cup {r} /\ GroupOf(r) = group
    BY <1>0, <2>1 DEF Reviewed, GroupOf
  <2>3. \A k, m \in Reviewed(review)' : GroupOf(k) = GroupOf(m) => k = m
    BY <1>0, <2>2 DEF GroupInv
  <2>4. Made' = Made /\ cand' = cand
    BY <1>3 DEF Opens, Made
  <2> QED BY <2>3, <2>4 DEF GroupInv, GroupOf
<1> QED BY <1>1, <1>2, <1>3

\* The same for the gate, when the step ends without a refresh.
LEMMA GateGoesOn ==
  ASSUME Inv, GateInv, NoReview, UNCHANGED <<group, mode>>, Rests \/ Leases \/ Opens,
         stage'[GateItem] # "succeeded"
  PROVE  GateInv'
<1>0. ~ Passed' /\ \A n \in Reviewed(review) : GroupOf(n) # group
  BY DEF Passed, Reviewed, NoReview, GroupOf
<1>1. CASE Rests
  <2>1. stage'[Edit] # "succeeded" /\ \A n \in Reviewed(review)' : GroupOf(n)' # group'
    BY <1>0, <1>1 DEF Rests, Reviewed, GroupOf
  <2> QED BY <1>0, <2>1 DEF GateInv
<1>2. CASE Leases
  <2>1. PICK n \in Try : (\A m \in Made : m < n) /\ \A m \in Try : m # n => cand'[m] = cand[m]
    BY <1>2 DEF Leases
  <2>2. Reviewed(review) \subseteq Made /\ Try \subseteq Nat
    BY Positions DEF Inv, MadeInv, Reviewed, Made, Try
  <2>3. \A m \in Reviewed(review) : cand'[m] = cand[m]
    BY <2>1, <2>2 DEF Reviewed
  <2>4. stage'[Edit] # "succeeded" /\ \A m \in Reviewed(review)' : GroupOf(m)' # group'
    BY <1>0, <1>2, <2>3 DEF Leases, Reviewed, GroupOf
  <2> QED BY <1>0, <2>4 DEF GateInv
<1>3. CASE Opens
  <2>1. PICK r \in Try : /\ cand[r] \in Members(group) /\ review' = [review EXCEPT ![r] = Opened]
                         /\ SucceededIn(group, gen') # {}
    BY <1>3 DEF Opens
  <2>2. review'[r] = Opened /\ \A m \in Try : m # r => review'[m] = review[m]
    BY <2>1 DEF Inv, Typed
  <2>3. cand' = cand /\ GroupOf(r)' = group' /\ Opened # "none" /\ (Opened = "accepted" => mode = "automatic")
    BY <1>3, <2>1, Groupmates DEF Opens, GroupOf, Opened
  <2>4. r \in Reviewed(review)' /\ \A m \in Reviewed(review)' : GroupOf(m)' = group' => m = r
    BY <1>0, <2>2, <2>3 DEF Reviewed, GroupOf
  <2>5. SucceededIn(group, gen)' # {}
    BY <2>1 DEF SucceededIn, Members
  <2>6. \A m \in Reviewed(review)' : review'[m] = "accepted" /\ GroupOf(m)' = group' => mode' = "automatic"
    BY <2>2, <2>3, <2>4
  <2> QED BY <1>0, <2>3, <2>4, <2>5, <2>6 DEF GateInv
<1> QED BY <1>1, <1>2, <1>3

\* lease_next refreshes a table whose image_edit has not succeeded.
LEMMA LeaseNextOfGate ==
  ASSUME Inv, NEW w \in Worker, LeaseNext(w)
  PROVE  stage'[GateItem] = stage[GateItem] /\ stage[Edit] # "succeeded" /\ UNCHANGED group
<1> DEFINE st == RefreshAll(stage, review)
<1>1. stage \in [Item -> StageState] /\ stage[Edit] # "pending"
  BY DEF Inv, Typed, MadeInv
<1>2. st \in [Item -> StageState] /\ st[Edit] = stage[Edit]
  BY <1>1, RefreshKeeps
<1>3. st[Edit] \in {"ready", "leased", "running"} /\ UNCHANGED group
  BY DEF LeaseNext
<1>4. st[GateItem] = stage[GateItem]
  BY <1>1, <1>2, <1>3, RefreshOfGate
<1>5. \/ stage' = st
      \/ \E v \in {"running", "succeeded", "failed_terminal"} : stage' = [st EXCEPT ![Edit] = v]
  BY DEF LeaseNext
<1> HIDE DEF st
<1> QED BY <1>2, <1>3, <1>4, <1>5, Positions

\* The tail of a commit.
LEMMA FinalizeOfGate ==
  ASSUME Inv, AcceptedInv, NEW n \in Rows, Finalize(n), UNCHANGED mode
  PROVE  AcceptedInv'
<1> DEFINE gs == [gen EXCEPT ![cand[n]] = "succeeded"]
           whole == Complete(cand[n][1], gs)
           rv == IF whole THEN [review EXCEPT ![n] = Opened] ELSE review
           st == [stage EXCEPT ![Edit] = IF whole THEN "succeeded" ELSE "ready"]
<1>1. /\ gen' = gs /\ review' = rv /\ Settled(st, rv, gs) /\ UNCHANGED <<group, cand>>
  BY DEF Finalize
<1>2. Inv' /\ (Rests \/ Opens) /\ NoReview
  BY FinalizeStep, NotReviewed
<1>3. GroupInv' /\ ~ Passed
  BY <1>1, <1>2, GroupGoesOn, NotPassed DEF AcceptedInv
<1>4. /\ n \in Try /\ cand[n] \in Members(group) /\ cand[n][1] = group /\ cand[n] \in Candidate
      /\ stage \in [Item -> StageState] /\ gen \in [Candidate -> GenState] /\ review \in [Try -> ReviewState]
      /\ \A m \in Reviewed(review) : GroupOf(m) # group
  BY <1>2, Groupmates DEF Rows, Inv, Typed, LeaseInv, NoReview, Reviewed, GroupOf
<1>5. /\ st \in [Item -> StageState] /\ st[Edit] = (IF whole THEN "succeeded" ELSE "ready")
      /\ st[GateItem] = stage[GateItem]
  <2> DEFINE v == IF whole THEN "succeeded" ELSE "ready"
  <2>1. v \in StageState
    BY States
  <2> HIDE DEF v, whole
  <2>2. [stage EXCEPT ![Edit] = v] \in [Item -> StageState]
        /\ [stage EXCEPT ![Edit] = v][Edit] = v /\ [stage EXCEPT ![Edit] = v][GateItem] = stage[GateItem]
    BY <1>4, <2>1, Positions
  <2> QED BY <2>2 DEF v
<1>6. gs[cand[n]] = "succeeded"
  BY <1>4
<1>7. SucceededIn(group, gs) # {}
  BY <1>4, <1>6 DEF SucceededIn
<1>8. /\ whole => /\ n \in Reviewed(rv) /\ GroupOf(n) = group
                  /\ \A m \in Reviewed(rv) : GroupOf(m) = group => m = n /\ rv[m] = Opened
      /\ ~ whole => \A m \in Reviewed(rv) : GroupOf(m) # group
  <2> HIDE DEF whole
  <2>1. CASE whole
    <3>1. rv[n] = Opened /\ Opened # "none" /\ \A m \in Try : m # n => rv[m] = review[m]
      BY <1>4, <2>1 DEF Opened
    <3> QED BY <1>4, <2>1, <3>1 DEF Reviewed, GroupOf
  <2>2. CASE ~ whole
    BY <1>4, <2>2
  <2> QED BY <2>1, <2>2
<1>9. /\ st[Edit] # "pending"
      /\ st[Edit] = "succeeded" => \E m \in Reviewed(rv) : GroupOf(m) = group'
      /\ \A m \in Reviewed(rv) : rv[m] = "accepted" /\ GroupOf(m) = group' =>
            SucceededIn(group', gs) # {} /\ (mode # "automatic" => st[GateItem] = "succeeded")
      /\ st[GateItem] # "succeeded"
  <2> HIDE DEF whole, rv, st, gs
  <2>1. Opened = "accepted" => mode = "automatic"
    BY DEF Opened
  <2> QED BY <1>1, <1>3, <1>5, <1>7, <1>8, <2>1 DEF Passed
<1> HIDE DEF whole, rv, st, gs
<1>10. GateInv'
  BY <1>1, <1>2, <1>3, <1>5, <1>9, GateSettles
<1> QED BY <1>3, <1>10 DEF AcceptedInv

\* fail writes the stage without a refresh.
LEMMA FailOfGate ==
  ASSUME Inv, AcceptedInv, NEW n \in Try, NEW failure \in Failure, Fail(n, failure), UNCHANGED mode
  PROVE  AcceptedInv'
<1>1. n \in Rows /\ UNCHANGED group /\ \E v : stage' = [stage EXCEPT ![Edit] = v]
  BY DEF Fail, Submits, Aggregate, Rows
<1>2. (Rests \/ Opens) /\ NoReview
  BY <1>1, FailStep, NotReviewed
<1>3. ~ Passed /\ stage'[GateItem] = stage[GateItem]
  BY <1>1, <1>2, NotPassed, Positions DEF AcceptedInv, Inv, Typed
<1> QED BY <1>1, <1>2, <1>3, GroupGoesOn, GateGoesOn DEF AcceptedInv, Passed

\* A step that makes nothing succeed.
LEMMA Quiet ==
  ASSUME AcceptedInv, UNCHANGED <<group, gen, cand, review, accepted, mode>>,
         stage'[Edit] = "succeeded" => stage[Edit] = "succeeded", Passed' <=> Passed
  PROVE  AcceptedInv'
<1>1. Reviewed(review)' = Reviewed(review)
  BY DEF Reviewed
<1>2. GroupInv'
  BY <1>1, GroupRests DEF AcceptedInv
<1> QED BY <1>2, GateRests DEF AcceptedInv

\* A decision that leaves the gate shut, or closes the group.
LEMMA GateDecided ==
  ASSUME Inv, Inv', AcceptedInv, NEW n \in Try, review[n] = "pending", UNCHANGED <<cand, mode>>,
         NEW v \in {"rejected", "canceled", "regenerate"}, NEW rv, rv = [review EXCEPT ![n] = v], review' = rv,
         NEW st \in [Item -> StageState], NEW gs, gen' = gs, Settled(st, rv, gs),
         \/ UNCHANGED group /\ st[Edit] = stage[Edit] /\ st[GateItem] \in {"rejected", "canceled"}
         \/ group' = group + 1 /\ st[Edit] = "ready" /\ st[GateItem] = "pending"
  PROVE  AcceptedInv'
<1>1. /\ rv[n] = v /\ (\A m \in Try : m # n => rv[m] = review[m])
      /\ Reviewed(rv) = Reviewed(review) /\ Reviewed(review)' = Reviewed(rv) /\ n \in Reviewed(review)
  <2>1. rv[n] = v /\ \A m \in Try : m # n => rv[m] = review[m]
    BY DEF Inv, Typed
  <2> QED BY <2>1 DEF Reviewed
<1>2. /\ stage[Edit] # "pending" /\ group \in Nat /\ GroupOf(n) = group
      /\ \A m \in Reviewed(review) : GroupOf(m) \in 1..group
  BY DEF Inv, Typed, MadeInv, ReviewInv, ReviewedGroup, Reviewed, GroupOf
<1>3. \A m \in Made : GroupOf(m) \in Nat
  BY Groupmates DEF Made, Inv, Typed, GroupOf
<1>4. GroupInv'
  <2>1. Made' = Made /\ \A m : GroupOf(m)' = GroupOf(m)
    BY DEF Made, GroupOf
  <2>2. \A m \in Made : GroupOf(m) <= group'
    BY <1>2, <1>3 DEF AcceptedInv, GroupInv
  <2> QED BY <1>1, <2>1, <2>2 DEF AcceptedInv, GroupInv
<1>5. \A m \in Reviewed(rv) : ~ (rv[m] = "accepted" /\ GroupOf(m) = group')
  <2>1. CASE group' = group + 1
    BY <1>1, <1>2, <2>1
  <2>2. CASE UNCHANGED group
    BY <1>1, <1>2, <2>2 DEF AcceptedInv, GroupInv
  <2> QED BY <2>1, <2>2
<1>6. st[Edit] = "succeeded" => \E m \in Reviewed(rv) : GroupOf(m) = group'
  BY <1>1, <1>2
<1>7. st[Edit] # "pending" /\ st[GateItem] # "succeeded" /\ (st[Edit] = "succeeded" => st[GateItem] # "pending")
  BY <1>2
<1>8. GateInv'
  BY <1>4, <1>5, <1>6, <1>7, GateSettles
<1> QED BY <1>4, <1>8 DEF AcceptedInv

\* decide_edit(accept) writes the image and opens the gate.
LEMMA AcceptOpens ==
  ASSUME Inv, AcceptedInv, NEW n \in Try, NEW c \in Candidate, Accept(n, c), UNCHANGED mode
  PROVE  AcceptedInv'
<1> DEFINE rv == [review EXCEPT ![n] = "accepted"]
           st == [stage EXCEPT ![GateItem] = "succeeded"]
<1>1. /\ review[n] = "pending" /\ c \in SucceededIn(GroupOf(n), gen) /\ review' = rv /\ accepted' = c
      /\ stage' = RefreshAll(st, rv) /\ UNCHANGED <<group, gen, cand>>
  BY DEF Accept, Aggregate, Selectable, GroupOf, made
<1>2. stage \in [Item -> StageState] /\ stage[Edit] # "pending" /\ review \in [Try -> ReviewState]
      /\ n \in Reviewed(review) /\ GroupOf(n) = group
  BY <1>1 DEF Inv, Typed, MadeInv, ReviewInv, ReviewedGroup, Reviewed, GroupOf
<1>3. st \in [Item -> StageState] /\ st[Edit] = stage[Edit] /\ st[GateItem] = "succeeded"
  BY <1>2, Positions, States
<1>4. stage'[Edit] = stage[Edit] /\ stage'[GateItem] = "succeeded"
  <2> HIDE DEF st, rv
  <2> QED BY <1>1, <1>2, <1>3, RefreshKeeps, RefreshOfGate
<1>5. review'[n] = "accepted" /\ Reviewed(review)' = Reviewed(review)
  BY <1>1, <1>2 DEF Reviewed
<1> HIDE DEF st, rv
<1>6. SucceededIn(group, gen)' = SucceededIn(group, gen) /\ \A m : GroupOf(m)' = GroupOf(m)
  BY <1>1 DEF SucceededIn, Members, GroupOf
<1>7. GroupInv'
  BY <1>1, <1>5, GroupRests DEF AcceptedInv
<1>8. GateInv'
  BY <1>1, <1>2, <1>4, <1>5, <1>6 DEF GateInv, Passed
<1> QED BY <1>7, <1>8 DEF AcceptedInv

LEMMA WorkerOfGate ==
  ASSUME Inv, AcceptedInv, WorkerStep, UNCHANGED mode
  PROVE  AcceptedInv'
<1>1. ASSUME NEW w \in Worker, LeaseNext(w) PROVE AcceptedInv'
  <2>1. (Rests \/ Leases \/ Opens) /\ NoReview /\ UNCHANGED group /\ stage'[GateItem] = stage[GateItem]
    BY <1>1, LeaseNextStep, LeaseNextOfGate, NotReviewed
  <2>2. ~ Passed
    BY <2>1, NotPassed DEF AcceptedInv
  <2> QED BY <2>1, <2>2, GroupGoesOn, GateGoesOn DEF AcceptedInv, Passed
<1>2. ASSUME NEW n \in Try, AttemptStep(n) PROVE AcceptedInv'
  <2>1. CASE Prepare(n)
    <3>1. /\ UNCHANGED <<group, gen, cand, review, accepted>> /\ stage' = [stage EXCEPT ![Edit] = "committing"]
          /\ stage \in [Item -> StageState]
      BY <2>1 DEF Prepare, made, gate, Inv, Typed
    <3>2. stage'[Edit] = "committing" /\ stage'[GateItem] = stage[GateItem]
      BY <3>1, Positions
    <3> QED BY <3>1, <3>2, Quiet DEF Passed
  <2>2. CASE Publish(n) \/ Fenced(n)
    <3>1. UNCHANGED <<group, gen, cand, review, accepted, stage>>
      BY <2>2 DEF Publish, Fenced, queue, made, gate
    <3> QED BY <3>1, Quiet DEF Passed
  <2>3. CASE WorkerFinalize(n)
    <3>1. CASE lease[n] = "live" /\ Finalize(n)
      <4>1. n \in Rows
        BY <3>1 DEF Rows
      <4> QED BY <3>1, <4>1, FinalizeOfGate
    <3>2. CASE UNCHANGED <<queue, made, lease, commit, gate, ctl>>
      <4>1. UNCHANGED <<group, gen, cand, review, accepted, stage>>
        BY <3>2 DEF queue, made, gate
      <4> QED BY <4>1, Quiet DEF Passed
    <3> QED BY <2>3, <3>1, <3>2 DEF WorkerFinalize
  <2>4. CASE \E failure \in Failure : Fail(n, failure)
    BY <2>4, FailOfGate
  <2> QED BY <1>2, <2>1, <2>2, <2>3, <2>4 DEF AttemptStep
<1> QED BY <1>1, <1>2 DEF WorkerStep

LEMMA ResumeOfGate ==
  ASSUME Inv, Inv', AcceptedInv, ResumeStep, UNCHANGED mode
  PROVE  AcceptedInv'
<1>1. stage \in [Item -> StageState] /\ stage[Edit] # "pending"
  BY DEF Inv, Typed, MadeInv
<1>2. CASE RecoverBegins \/ \E n \in Try : RecoverRevokes(n)
  <2>1. UNCHANGED <<group, gen, cand, review, accepted, stage>>
    BY <1>2 DEF RecoverBegins, RecoverRevokes, queue, made, gate
  <2> QED BY <2>1, Quiet DEF Passed
<1>3. CASE ResumeEnds \/ Refresh
  <2>1. UNCHANGED <<group, gen, cand, review>> /\ Settled(stage, review, gen)
    BY <1>3 DEF ResumeEnds, Refresh, made
  <2>2. GroupInv'
    BY <2>1, GroupRests DEF AcceptedInv, Reviewed
  <2>3. /\ stage[Edit] = "succeeded" => \E n \in Reviewed(review) : GroupOf(n) = group'
        /\ \A n \in Reviewed(review) : review[n] = "accepted" /\ GroupOf(n) = group' =>
              SucceededIn(group', gen) # {} /\ (mode # "automatic" => stage[GateItem] = "succeeded")
        /\ stage[GateItem] = "succeeded" =>
              /\ Passed /\ accepted \in SucceededIn(group', gen)
              /\ \E n \in Reviewed(review) : review[n] = "accepted" /\ GroupOf(n) = group'
        /\ stage[GateItem] = "pending" => ~ Passed
    BY <2>1 DEF AcceptedInv, GateInv, Passed
  <2>4. GateInv'
    BY <1>1, <2>1, <2>2, <2>3, GateSettles
  <2> QED BY <2>2, <2>4 DEF AcceptedInv
<1>4. ASSUME NEW n \in Try, Reconcile(n) PROVE AcceptedInv'
  <2>1. n \in Rows
    BY <1>4 DEF Reconcile, Unrevoked, Rows
  <2>2. CASE Finalize(n)
    BY <2>1, <2>2, FinalizeOfGate
  <2>3. CASE stage' = [stage EXCEPT ![Edit] = "failed_terminal"] /\ UNCHANGED <<batch, budget, group, made, gate>>
    <3>1. UNCHANGED <<group, gen, cand, review, accepted>>
      BY <2>3 DEF made, gate
    <3>2. stage'[Edit] = "failed_terminal" /\ stage'[GateItem] = stage[GateItem]
      BY <1>1, <2>3, Positions
    <3> QED BY <3>1, <3>2, Quiet DEF Passed
  <2> QED BY <1>4, <2>2, <2>3 DEF Reconcile
<1>5. ASSUME NEW n \in Try, RecoverSettles(n) PROVE AcceptedInv'
  <2>1. UNCHANGED <<group, gen, cand, review, accepted>>
    BY <1>5 DEF RecoverSettles, made, gate
  <2>2. UNCHANGED stage \/ \E v \in {"ready", "failed_terminal"} : stage' = [stage EXCEPT ![Edit] = v]
    BY <1>5 DEF RecoverSettles
  <2>3. (stage'[Edit] = "succeeded" => stage[Edit] = "succeeded") /\ stage'[GateItem] = stage[GateItem]
    BY <1>1, <2>2, Positions
  <2> QED BY <2>1, <2>3, Quiet DEF Passed
<1> QED BY <1>2, <1>3, <1>4, <1>5 DEF ResumeStep

\* Only image_edit lies before the gate.
LEMMA BeforeGate ==
  ASSUME NEW i \in Item, GateItem \in After(i)
  PROVE  i = Edit
<1>1. Task = {TheTask} /\ Last = 3
  BY ImageEditAssumption
<1>2. Item = {<<TheTask, 1>>, <<TheTask, 2>>, <<TheTask, 3>>}
  BY <1>1 DEF Item, Stage
<1>3. GateItem[2] \in (i[2] + 1)..Last
  BY DEF After, GateItem
<1>4. i[2] < 2
  BY <1>1, <1>2, <1>3 DEF GateItem
<1> QED BY <1>2, <1>4 DEF Edit

LEMMA OperatorOfGate ==
  ASSUME Inv, Inv', AcceptedInv, Operator, UNCHANGED mode
  PROVE  AcceptedInv'
<1>1. stage \in [Item -> StageState] /\ stage[Edit] # "pending"
  BY DEF Inv, Typed, MadeInv
<1>2. CASE CancelBegins
  <2>1. /\ UNCHANGED <<group, gen, cand, review, accepted>>
        /\ stage' = [i \in Item |-> IF stage[i] \in TerminalStates THEN stage[i] ELSE "canceled"]
    BY <1>2 DEF CancelBegins, made, gate
  <2>2. \A i \in {Edit, GateItem} : stage'[i] = "succeeded" <=> stage[i] = "succeeded"
    BY <2>1, Positions DEF TerminalStates
  <2> QED BY <2>1, <2>2, Quiet DEF Passed
<1>3. CASE CancelEnds
  <2>1. UNCHANGED <<group, gen, cand, review, accepted, stage>>
    BY <1>3 DEF CancelEnds, Aggregate, made, gate
  <2> QED BY <2>1, Quiet DEF Passed
<1>4. ASSUME NEW S \in {Item, {Edit}, {GateItem}}, Retry(S) PROVE AcceptedInv'
  <2> DEFINE rows == {i \in S : stage[i] \in {"failed_terminal", "rejected", "waiting_manual"}}
  <2>1. /\ UNCHANGED <<group, gen, cand, review, accepted>>
        /\ \E kept \in LeftReady(rows) : stage' = Retried(stage, rows, kept)
    BY <1>4 DEF Retry, made, gate
  <2>2. rows \subseteq Item /\ \A i \in rows : stage[i] # "succeeded"
    BY Positions
  <2> HIDE DEF rows
  <2>3. PICK kept \in LeftReady(rows) : stage' = Retried(stage, rows, kept)
    BY <2>1
  <2>4. kept \subseteq rows
    BY <2>3 DEF LeftReady, Foremost
  <2>5. \A j \in {Edit, GateItem} : stage'[j] = "succeeded" => stage[j] = "succeeded"
    BY <2>3, Positions DEF Retried
  <2>6. Passed => stage'[GateItem] = "succeeded"
    <3>1. SUFFICES ASSUME Passed PROVE stage'[GateItem] = "succeeded"
      OBVIOUS
    <3>2. stage[Edit] = "succeeded"
      <4>1. PICK n \in Reviewed(review) : GroupOf(n) = group
        BY <3>1 DEF AcceptedInv, GateInv
      <4> QED BY <4>1 DEF Inv, ReviewInv, ReviewedGroup, Reviewed, GroupOf
    <3>3. GateItem \notin kept /\ \A i \in rows : GateItem \notin After(i)
      BY <2>2, <2>4, <3>1, <3>2, BeforeGate DEF Passed
    <3> QED BY <2>3, <3>1, <3>3, Positions DEF Retried, Passed
  <2> QED BY <2>1, <2>5, <2>6, Quiet DEF Passed
<1>5. ASSUME NEW n \in Try, Reject(n) PROVE AcceptedInv'
  <2> DEFINE rv == [review EXCEPT ![n] = "rejected"]
             st == [stage EXCEPT ![GateItem] = "rejected"]
  <2>1. /\ review[n] = "pending" /\ review' = rv /\ Settled(st, rv, gen) /\ UNCHANGED <<group, gen, cand>>
    BY <1>5 DEF Reject, made
  <2>2. st \in [Item -> StageState] /\ st[Edit] = stage[Edit] /\ st[GateItem] = "rejected"
    BY <1>1, Positions, States
  <2>3. rv = [review EXCEPT ![n] = "rejected"] /\ gen' = gen
    BY <2>1
  <2> HIDE DEF st, rv
  <2> QED BY <2>1, <2>2, <2>3, GateDecided
<1>6. ASSUME NEW n \in Try, CancelTask(n) PROVE AcceptedInv'
  <2> DEFINE rv == [review EXCEPT ![n] = "canceled"]
             st == [i \in Item |-> IF i = GateItem \/ (i[2] > Gate /\ stage[i] \notin TerminalStates)
                                   THEN "canceled" ELSE stage[i]]
  <2>1. /\ review[n] = "pending" /\ review' = rv /\ Settled(st, rv, gen) /\ UNCHANGED <<group, gen, cand>>
    BY <1>6 DEF CancelTask, made
  <2>2. st \in [Item -> StageState] /\ st[Edit] = stage[Edit] /\ st[GateItem] = "canceled"
    <3>1. Edit[2] = 1
      BY DEF Edit
    <3>2. ~ (Edit[2] > Gate)
      BY <3>1, Positions
    <3> QED BY <1>1, <3>2, Positions, States
  <2>3. rv = [review EXCEPT ![n] = "canceled"] /\ gen' = gen
    BY <2>1
  <2> HIDE DEF st, rv
  <2> QED BY <2>1, <2>2, <2>3, GateDecided
<1>7. ASSUME NEW n \in Try, Regenerate(n) PROVE AcceptedInv'
  <2> DEFINE rv == [review EXCEPT ![n] = "regenerate"]
             gs == [c \in Candidate |-> IF c \in SupersededGroup(cand[n][1]) THEN "superseded" ELSE gen[c]]
             st == [stage EXCEPT ![Edit] = "ready", ![GateItem] = "pending"]
  <2>1. /\ review[n] = "pending" /\ review' = rv /\ gen' = gs /\ Settled(st, rv, gs)
        /\ group' = group + 1 /\ UNCHANGED cand
    BY <1>7 DEF Regenerate
  <2>2. st \in [Item -> StageState] /\ st[Edit] = "ready" /\ st[GateItem] = "pending"
    BY <1>1, Positions, States
  <2>3. rv = [review EXCEPT ![n] = "regenerate"]
    OBVIOUS
  <2> HIDE DEF st, rv, gs
  <2> QED BY <2>1, <2>2, <2>3, GateDecided
<1>8. ASSUME NEW n \in Try, NEW c \in Candidate, Accept(n, c) PROVE AcceptedInv'
  BY <1>8, AcceptOpens
<1> QED BY <1>2, <1>3, <1>4, <1>5, <1>6, <1>7, <1>8 DEF Operator, Decide

LEMMA AcceptedNext ==
  ASSUME ~ ServesGate, Inv, AcceptedInv, [Next]_vars
  PROVE  AcceptedInv'
<1>1. Inv'
  BY StepInv
<1>2. ASSUME Environment, UNCHANGED mode PROVE AcceptedInv'
  <2>1. UNCHANGED <<group, gen, cand, review, accepted, stage>>
    BY <1>2 DEF Environment, Expire, WorkerDies, queue, made, gate
  <2> QED BY <1>2, <2>1, Quiet DEF Passed
<1>3. ASSUME UNCHANGED vars PROVE AcceptedInv'
  <2>1. UNCHANGED <<group, gen, cand, review, accepted, stage, mode>>
    BY <1>3 DEF vars, queue, made, gate
  <2> QED BY <2>1, Quiet DEF Passed
<1>4. ~ ServeGate
  BY DEF ServeGate
<1> QED BY <1>1, <1>2, <1>3, <1>4, WorkerOfGate, ResumeOfGate, OperatorOfGate DEF Next

LEMMA AcceptedInit == Init => AcceptedInv
<1> SUFFICES ASSUME Init PROVE AcceptedInv
  OBVIOUS
<1>1. Made = {} /\ Reviewed(review) = {}
  BY Groupmates DEF Init, Made, Reviewed
<1>2. stage[Edit] = "ready" /\ ~ Passed
  BY Positions DEF Init, Passed
<1> QED BY <1>1, <1>2 DEF AcceptedInv, GroupInv, GateInv

\* What passed the gate is an image the latest review accepted, out of the group that
\* review was opened for, whatever was regenerated, retried, canceled or decided
\* late, if no worker takes the gate for a stage to work on (the fake one does).
THEOREM GateOpensOnAcceptance == ~ ServesGate /\ Spec => []GateAccepted
<1> SUFFICES ASSUME ~ ServesGate PROVE Spec => []GateAccepted
  OBVIOUS
<1>1. Inv /\ AcceptedInv /\ [Next]_vars => AcceptedInv'
  BY AcceptedNext
<1>2. Inv /\ AcceptedInv => GateAccepted
  <2> SUFFICES ASSUME Inv, AcceptedInv, Passed
               PROVE /\ LatestDecision(review) = "accepted"
                     /\ accepted \in SucceededIn(cand[Latest(Reviewed(review))][1], gen)
    BY DEF GateAccepted, Passed
  <2>1. PICK n \in Reviewed(review) : review[n] = "accepted" /\ GroupOf(n) = group
    BY DEF AcceptedInv, GateInv
  <2>2. /\ Reviewed(review) \in SUBSET Try /\ Reviewed(review) \subseteq Made
        /\ \A m \in Reviewed(review) : cand[m][1] \in Nat
    BY DEF Reviewed, Inv, MadeInv, ReviewInv, ReviewedGroup
  <2>3. Latest(Reviewed(review)) = n
    BY <2>1, <2>2, LastReview DEF AcceptedInv, GroupInv, GroupOf
  <2> QED BY <2>1, <2>3 DEF LatestDecision, AcceptedInv, GateInv, GroupOf
<1> QED BY <1>1, <1>2, AcceptedInit, Invariant, PTL DEF Spec

=============================================================================
