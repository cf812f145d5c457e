-------------------------- MODULE ImageQueueProofs --------------------------
(***************************************************************************)
(* What the queue of paid image requests promises, for every set of        *)
(* processes, images, tries and settings.                                  *)
(***************************************************************************)
EXTENDS ImageQueue, FiniteSetTheorems, TLAPS

-----------------------------------------------------------------------------
(* One call at a time moves.                                               *)

PC == {"idle", "open", "wait", "slot", "send", "sent", "record", "return", "report", "over"}

\* The calls keep their type; only c changes, and c keeps its place and lease.
Moves(c) ==
  /\ call' \in [Call -> CallType]
  /\ \A d \in Call \ {c} : call'[d] = call[d]
  /\ call'[c].at = call[c].at
  /\ call'[c].leased = call[c].leased

LEMMA CallFields ==
  ASSUME NEW r \in CallType
  PROVE  r.pc \in PC /\ r.at \in SUBSET Process /\ r.outcome \in Outcome /\ r.leased \in BOOLEAN
BY DEF CallType, PC

LEMMA GoesMoves ==
  ASSUME call \in [Call -> CallType], NEW c \in Call, NEW pc \in PC, Goes(c, pc)
  PROVE  Moves(c) /\ call'[c].pc = pc /\ call'[c].outcome = call[c].outcome
<1>1. call[c] \in CallType
  OBVIOUS
<1>2. call'[c] = [call[c] EXCEPT !.pc = pc] /\ \A d \in Call \ {c} : call'[d] = call[d]
  BY DEF Goes
<1>3. [call[c] EXCEPT !.pc = pc] \in CallType
  BY <1>1 DEF CallType, PC
<1>4. call' \in [Call -> CallType]
  BY <1>3 DEF Goes
<1> QED BY <1>1, <1>2, <1>4 DEF Moves, CallType

LEMMA OutcomeMoves ==
  ASSUME call \in [Call -> CallType], NEW c \in Call, NEW pc \in PC, NEW o \in Outcome,
         call' = [call EXCEPT ![c].pc = pc, ![c].outcome = o]
  PROVE  Moves(c) /\ call'[c].pc = pc /\ call'[c].outcome = o
<1>1. call[c] \in CallType
  OBVIOUS
<1>2. call'[c] = [call[c] EXCEPT !.pc = pc, !.outcome = o] /\ \A d \in Call \ {c} : call'[d] = call[d]
  BY <1>1 DEF CallType
<1>3. [call[c] EXCEPT !.pc = pc, !.outcome = o] \in CallType
  BY <1>1 DEF CallType, PC
<1>4. call' \in [Call -> CallType]
  BY <1>2, <1>3
<1> QED BY <1>1, <1>2, <1>4 DEF Moves, CallType

LEMMA RecordsMoves ==
  ASSUME call \in [Call -> CallType], NEW c \in Call, NEW o \in Outcome, Records(c, o)
  PROVE  Moves(c) /\ call'[c].pc = "record" /\ call'[c].outcome = o
BY OutcomeMoves DEF Records, PC

LEMMA EndsMoves ==
  ASSUME call \in [Call -> CallType], NEW c \in Call, NEW o \in Outcome, EndsWith(c, o)
  PROVE  Moves(c) /\ call'[c].pc = "report" /\ call'[c].outcome = o
BY OutcomeMoves DEF EndsWith, PC

\* The records a call starts and ends with, and one that lost its lease.
LEMMA CallRecords ==
  /\ Over \in CallType /\ Over.pc = "over" /\ Over.at = {} /\ Over.leased = FALSE
  /\ \A p \in Process :
       LET r == [NoCall EXCEPT !.pc = "open", !.at = {p}, !.leased = TRUE]
       IN  r \in CallType /\ r.pc = "open" /\ r.at = {p} /\ r.leased = TRUE /\ r.outcome = "none"
  /\ \A r \in CallType :
       LET u == [r EXCEPT !.leased = FALSE]
       IN  u \in CallType /\ u.pc = r.pc /\ u.at = r.at /\ u.leased = FALSE /\ u.outcome = r.outcome
BY DEF Over, NoCall, CallType, Outcome

-----------------------------------------------------------------------------
(* Types.  The limit of a row that is in use is never 0.                   *)

InUse == {"wait"} \cup Slotted

Opened ==
  /\ \A p \in Process : queue[p] # "none" => bucket.limit >= 1
  /\ \A c \in Call : call[c].pc \in InUse => bucket.limit >= 1

\* A call is nowhere or in one process that runs.
Placed == \A c \in Call : call[c].at = {} \/ \E p \in alive : call[c].at = {p}

TypeInv == TypeOK /\ Opened /\ Placed

Row == [limit : Nat, maximum : Nat, clean : Nat, cooling : BOOLEAN]

\* What release may do to a row.
LEMMA RowChanges ==
  ASSUME NEW b \in Row, NEW l \in Nat, NEW c \in Nat
  PROVE  /\ [b EXCEPT !.limit = l, !.clean = 0, !.cooling = TRUE] \in Row
         /\ [b EXCEPT !.limit = l, !.clean = 0] \in Row
         /\ [b EXCEPT !.clean = c, !.cooling = TRUE] \in Row
         /\ [b EXCEPT !.clean = c] \in Row
BY DEF Row

\* After release the limit is within the row, and not 0: max(1, ...).
LEMMA AdaptedStays ==
  ASSUME NEW b \in Row, b.limit \in 1..b.maximum, NEW o, NEW mode
  PROVE  /\ Adapted(b, o, mode) \in Row
         /\ Adapted(b, o, mode).limit \in 1..b.maximum
         /\ Adapted(b, o, mode).maximum = b.maximum
<1>t. b.limit \in Nat /\ b.maximum \in Nat /\ b.clean \in Nat
  BY DEF Row
<1>1. CASE o = "http_429"
  <2>1. PICK h \in Nat : h = Halved(b.limit) /\ h \in 1..b.maximum
    BY <1>t DEF Halved
  <2>2. Adapted(b, o, mode) = [b EXCEPT !.limit = h, !.clean = 0, !.cooling = TRUE]
    BY <1>1, <2>1 DEF Adapted
  <2>3. Adapted(b, o, mode).limit = h /\ Adapted(b, o, mode).maximum = b.maximum
    BY <2>2 DEF Row
  <2> QED BY <2>1, <2>2, <2>3, RowChanges
<1>2. CASE o = "http_503"
  <2>1. Adapted(b, o, mode) = [b EXCEPT !.clean = 0, !.cooling = TRUE]
    BY <1>2 DEF Adapted
  <2>2. Adapted(b, o, mode).limit = b.limit /\ Adapted(b, o, mode).maximum = b.maximum
    BY <2>1 DEF Row
  <2> QED BY <2>1, <2>2, RowChanges
<1>3. CASE o = "succeeded" /\ mode = "adaptive" /\ b.clean + 1 >= Window /\ b.limit < b.maximum
  <2>1. Adapted(b, o, mode) = [b EXCEPT !.limit = b.limit + 1, !.clean = 0]
    BY <1>3 DEF Adapted
  <2>2. Adapted(b, o, mode).limit = b.limit + 1 /\ Adapted(b, o, mode).maximum = b.maximum
    BY <2>1 DEF Row
  <2>3. b.limit + 1 \in Nat /\ b.limit + 1 \in 1..b.maximum
    BY <1>t, <1>3
  <2>4. Adapted(b, o, mode) \in Row
    BY <2>1, <2>3, RowChanges
  <2> QED BY <2>2, <2>3, <2>4
<1>4. CASE o = "succeeded" /\ mode = "adaptive" /\ ~(b.clean + 1 >= Window /\ b.limit < b.maximum)
  <2>1. Adapted(b, o, mode) = [b EXCEPT !.clean = b.clean + 1]
    BY <1>4 DEF Adapted
  <2>2. Adapted(b, o, mode).limit = b.limit /\ Adapted(b, o, mode).maximum = b.maximum
    BY <2>1 DEF Row
  <2>3. b.clean + 1 \in Nat
    BY <1>t
  <2> QED BY <2>1, <2>2, <2>3, RowChanges
<1>5. CASE o \notin {"http_429", "http_503"} /\ ~(o = "succeeded" /\ mode = "adaptive")
  <2>1. Adapted(b, o, mode) = [b EXCEPT !.clean = 0]
    BY <1>5 DEF Adapted
  <2>2. Adapted(b, o, mode).limit = b.limit /\ Adapted(b, o, mode).maximum = b.maximum
    BY <2>1 DEF Row
  <2> QED BY <2>1, <2>2, RowChanges
<1> QED BY <1>1, <1>2, <1>3, <1>4, <1>5

-----------------------------------------------------------------------------
(* Where each action takes its call.                                       *)

LEMMA OpensMoves ==
  ASSUME TypeOK, NEW c \in Call, NEW p \in Process, NEW l \in Limits, Opens(c, p, l)
  PROVE  /\ Moves(c) /\ call[c].pc = "open" /\ call[c].at = {p}
         /\ \/ call'[c].pc = "wait"
            \/ call'[c].pc = "report" /\ call'[c].outcome = "worker_crash" /\ UNCHANGED <<owner, queue, bucket>>
BY GoesMoves, EndsMoves DEF Opens, TypeOK, At, Outcome, PC

LEMMA AcquiresMoves ==
  ASSUME TypeOK, NEW c \in Call, NEW p \in Process, Acquires(c, p)
  PROVE  Moves(c) /\ call[c].pc = "wait" /\ call[c].at = {p} /\ call'[c].pc = "slot"
BY GoesMoves DEF Acquires, TypeOK, At, PC

LEMMA StopsWaitingMoves ==
  ASSUME TypeOK, NEW c \in Call, StopsWaiting(c)
  PROVE  /\ Moves(c) /\ call[c].pc = "wait"
         /\ call'[c].pc = "report" /\ call'[c].outcome \in {"stalled", "worker_crash"}
BY EndsMoves DEF StopsWaiting, TypeOK, At, Outcome

LEMMA BeginsMoves ==
  ASSUME TypeOK, NEW c \in Call, Begins(c)
  PROVE  /\ Moves(c) /\ call[c].pc = "slot"
         /\ \/ call'[c].pc = "send"
            \/ call'[c].pc = "report" /\ call'[c].outcome = "worker_crash"
BY GoesMoves, EndsMoves DEF Begins, TypeOK, At, Outcome, PC

LEMMA SendsMoves ==
  ASSUME TypeOK, NEW c \in Call, Sends(c)
  PROVE  /\ Moves(c) /\ call[c].pc = "send"
         /\ upstream' \in [Call -> {"none", "working", "done", "refused"}]
         /\ \A d \in Call \ {c} : upstream'[d] = upstream[d]
         /\ \/ call'[c].pc = "sent"
            \/ call'[c].pc = "record" /\ (upstream'[c] = "refused" \/ upstream'[c] = upstream[c])
<1>1. CASE Goes(c, "sent") /\ upstream' = [upstream EXCEPT ![c] = "working"]
  BY <1>1, GoesMoves DEF Sends, TypeOK, At, PC
<1>2. ASSUME NEW o \in {"http_429", "http_503", "terminal"},
             Records(c, o), upstream' = [upstream EXCEPT ![c] = "refused"]
      PROVE  Moves(c) /\ call'[c].pc = "record"
  BY <1>2, RecordsMoves DEF TypeOK, Outcome
<1>3. ASSUME Records(c, "transient"), UNCHANGED upstream
      PROVE  Moves(c) /\ call'[c].pc = "record"
  BY <1>3, RecordsMoves DEF TypeOK, Outcome
<1> QED BY <1>1, <1>2, <1>3 DEF Sends, TypeOK, At

LEMMA AnsweredMoves ==
  ASSUME TypeOK, NEW c \in Call, Answered(c)
  PROVE  /\ Moves(c) /\ call[c].pc = "sent" /\ call'[c].pc = "record"
         /\ \/ call'[c].outcome \in {"succeeded", "terminal", Unanswered}
            \/ call'[c].outcome = "worker_crash" /\ (CutAnswers \/ HeartbeatFails(c))
<1>1. ASSUME NEW o \in {"succeeded", "terminal", Unanswered, "worker_crash"}, Records(c, o)
      PROVE  Moves(c) /\ call'[c].pc = "record" /\ call'[c].outcome = o
  BY <1>1, RecordsMoves DEF TypeOK, Outcome, Unanswered
<1> QED BY <1>1 DEF Answered, At

LEMMA RecordsOutcomeMoves ==
  ASSUME TypeOK, NEW c \in Call, NEW p \in Process, RecordsOutcome(c, p)
  PROVE  /\ Moves(c) /\ call[c].pc = "record" /\ call[c].at = {p}
         /\ \/ /\ call'[c].pc = "return" /\ call'[c].outcome = call[c].outcome
               /\ bucket' = Adapted(bucket, call[c].outcome, queue[p])
            \/ /\ call'[c].pc = "report" /\ call'[c].outcome = "worker_crash"
               /\ UNCHANGED bucket /\ StoreFaults
BY GoesMoves, EndsMoves DEF RecordsOutcome, TypeOK, At, Outcome, PC

LEMMA ReturnsSlotMoves ==
  ASSUME TypeOK, NEW c \in Call, NEW p \in Process, ReturnsSlot(c, p)
  PROVE  /\ Moves(c) /\ call[c].pc = "return" /\ call[c].at = {p} /\ call'[c].pc = "report"
         /\ \/ call'[c].outcome = call[c].outcome
            \/ call'[c].outcome = "worker_crash" /\ HeartbeatFails(c)
BY GoesMoves, EndsMoves DEF ReturnsSlot, TypeOK, At, Outcome, PC

-----------------------------------------------------------------------------
(* The types are kept.                                                     *)

LEMMA TypeInit == Init => TypeInv
<1> SUFFICES ASSUME Init PROVE TypeInv
  OBVIOUS
<1>1. NoCall \in CallType /\ NoCall.pc = "idle" /\ NoCall.at = {}
  BY DEF NoCall, CallType, Outcome
<1>2. call \in [Call -> CallType] /\ \A c \in Call : call[c] = NoCall
  BY <1>1 DEF Init
<1>3. bucket \in Row
  BY DEF Init, NoBucket, Row
<1>4. TypeOK
  BY <1>2, <1>3 DEF Init, TypeOK, Row
<1>5. Opened
  BY <1>1, <1>2 DEF Init, Opened, InUse, Slotted
<1>6. Placed
  BY <1>1, <1>2 DEF Placed
<1> QED BY <1>4, <1>5, <1>6 DEF TypeInv

\* A move that neither enters the queue nor touches the row keeps all of it.
LEMMA MoveKeeps ==
  ASSUME TypeInv, NEW c \in Call, Moves(c), UNCHANGED <<alive, queue, bucket>>,
         call'[c].pc \in InUse => call[c].pc \in InUse
  PROVE  Opened' /\ Placed'
<1>1. \A d \in Call : call'[d].pc \in InUse => call[d].pc \in InUse
  BY DEF Moves
<1>2. \A d \in Call : call'[d].at = call[d].at
  BY DEF Moves
<1> QED BY <1>1, <1>2 DEF TypeInv, Opened, Placed

LEMMA TypeStep == TypeInv /\ [Next]_vars => TypeInv'
<1> SUFFICES ASSUME TypeInv, [Next]_vars PROVE TypeInv'
  OBVIOUS
<1>t. /\ TypeOK /\ Opened /\ Placed
      /\ call \in [Call -> CallType] /\ bucket \in Row
  BY DEF TypeInv, TypeOK, Row
<1>1. ASSUME NEW p \in Process, NEW i \in Image, NEW n \in 1..Tries, Lease(p, i, n) PROVE TypeInv'
  <2> DEFINE c == <<i, n>>
             r == [NoCall EXCEPT !.pc = "open", !.at = {p}, !.leased = TRUE]
  <2>1. c \in Call /\ p \in alive
    BY <1>1 DEF Call, Lease
  <2>2. r \in CallType /\ r.pc = "open" /\ r.at = {p}
    BY CallRecords
  <2> HIDE DEF r
  <2>3. call' = [call EXCEPT ![c] = r]
    BY <1>1 DEF Lease, r
  <2>4. call' \in [Call -> CallType] /\ call'[c] = r /\ \A d \in Call \ {c} : call'[d] = call[d]
    BY <1>t, <2>1, <2>2, <2>3
  <2>5. TypeOK'
    BY <1>1, <1>t, <2>4 DEF Lease, TypeOK
  <2>6. Opened'
    BY <1>1, <1>t, <2>2, <2>4 DEF Lease, Opened, InUse, Slotted
  <2>7. Placed'
    BY <1>1, <1>t, <2>1, <2>2, <2>4 DEF Lease, Placed
  <2> QED BY <2>5, <2>6, <2>7 DEF TypeInv
<1>2. ASSUME NEW c \in Call, LoseLease(c) PROVE TypeInv'
  <2>1. /\ [call[c] EXCEPT !.leased = FALSE] \in CallType
        /\ [call[c] EXCEPT !.leased = FALSE].pc = call[c].pc
        /\ [call[c] EXCEPT !.leased = FALSE].at = call[c].at
    BY <1>t, CallRecords
  <2>2. call' \in [Call -> CallType] /\ \A d \in Call : call'[d].pc = call[d].pc /\ call'[d].at = call[d].at
    BY <1>2, <1>t, <2>1 DEF LoseLease
  <2>3. image' \in [Image -> {"ready", "leased", "done", "failed", "manual", "lost"}]
    BY <1>2, <1>t DEF LoseLease, TypeOK
  <2>4. TypeOK'
    BY <1>2, <1>t, <2>2, <2>3 DEF LoseLease, TypeOK
  <2>5. Opened' /\ Placed'
    BY <1>2, <1>t, <2>2 DEF LoseLease, Opened, Placed
  <2> QED BY <2>4, <2>5 DEF TypeInv
<1>3. ASSUME NEW p \in Process, Dies(p) PROVE TypeInv'
  <2>1. call' \in [Call -> CallType]
    BY <1>3, <1>t, CallRecords DEF Dies
  <2>2. ASSUME NEW d \in Call PROVE call'[d].at = {} \/ (call'[d] = call[d] /\ call[d].at # {p})
    <3>1. call'[d] = IF call[d].at = {p} THEN Over ELSE call[d]
      BY <1>3 DEF Dies, Of
    <3> QED BY <3>1, CallRecords
  <2>3. \A d \in Call : call'[d].pc = "over" \/ call'[d].pc = call[d].pc
    BY <1>3, <1>t, CallRecords DEF Dies
  <2>4. TypeOK'
    <3>1. owner' \in {{}} \cup {{q} : q \in alive'}
      BY <1>3, <1>t DEF Dies, TypeOK
    <3>2. image' \in [Image -> {"ready", "leased", "done", "failed", "manual", "lost"}]
      BY <1>3, <1>t DEF Dies, TypeOK
    <3> QED BY <1>3, <1>t, <2>1, <3>1, <3>2 DEF Dies, TypeOK
  <2>5. Opened'
    BY <1>3, <1>t, <2>3 DEF Dies, Opened, InUse, Slotted, TypeOK
  <2>6. Placed'
    BY <1>3, <1>t, <2>2 DEF Dies, Placed
  <2> QED BY <2>4, <2>5, <2>6 DEF TypeInv
<1>4. ASSUME NEW p \in Process, Starts(p) PROVE TypeInv'
  BY <1>4, <1>t DEF Starts, TypeInv, TypeOK, Opened, Placed
<1>5. ASSUME NEW p \in Process, NEW c \in Call, NEW l \in Limits, Opens(c, p, l) PROVE TypeInv'
  <2>1. Moves(c) /\ call[c].at = {p} /\ call'[c].pc \in {"wait", "report"}
    BY <1>5, <1>t, OpensMoves
  <2>2. p \in alive
    BY <1>t, <2>1 DEF Placed
  <2>3. CASE UNCHANGED <<owner, queue, bucket>> /\ call'[c].pc = "report"
    <3>1. TypeOK'
      BY <1>5, <1>t, <2>1, <2>3 DEF Opens, TypeOK, Moves
    <3>2. Opened' /\ Placed'
      BY <1>5, <2>1, <2>3, MoveKeeps DEF Opens, InUse, Slotted
    <3> QED BY <3>1, <3>2 DEF TypeInv
  <2>4. CASE queue[p] # "none" /\ UNCHANGED <<owner, queue, bucket>>
    <3>1. bucket.limit >= 1
      BY <1>t, <2>4 DEF Opened
    <3>2. TypeOK'
      BY <1>5, <1>t, <2>1, <2>4 DEF Opens, TypeOK, Moves
    <3>3. Opened'
      BY <1>5, <1>t, <2>1, <2>4, <3>1 DEF Opens, TypeOK, Opened, Moves
    <3>4. Placed'
      <4>1. alive' = alive /\ \A d \in Call : call'[d].at = call[d].at
        BY <1>5, <2>1 DEF Opens, Moves
      <4> QED BY <1>t, <4>1 DEF Placed
    <3> QED BY <3>2, <3>3, <3>4 DEF TypeInv
  <2>5. CASE /\ owner' = {p}
             /\ queue' = [queue EXCEPT ![p] = l.mode]
             /\ bucket' = IF bucket # NoBucket THEN bucket
                          ELSE [NoBucket EXCEPT !.limit = l.initial, !.maximum = l.maximum]
    <3>1. l.mode \in {"fixed", "adaptive"} /\ l.initial \in Nat /\ l.maximum \in Nat
          /\ l.initial \in 1..l.maximum
      BY QueueAssumption
    <3>2. bucket' \in Row /\ bucket'.limit \in 1..bucket'.maximum
      BY <1>t, <2>5, <3>1 DEF TypeOK, NoBucket, Row
    <3>3. queue' \in [Process -> {"none", "fixed", "adaptive"}]
      BY <1>t, <2>5, <3>1 DEF TypeOK
    <3>4. TypeOK'
      BY <1>5, <1>t, <2>1, <2>2, <2>5, <3>2, <3>3 DEF Opens, TypeOK, Moves, Row
    <3>5. bucket'.limit >= 1
      BY <3>2 DEF Row
    <3>6. Opened' /\ Placed'
      BY <1>5, <1>t, <2>1, <3>5 DEF Opens, Opened, Placed, Moves
    <3> QED BY <3>4, <3>6 DEF TypeInv
  <2> QED
    BY <1>5, <1>t, <2>3, <2>4, <2>5, OpensMoves, EndsMoves DEF Opens, TypeOK, Outcome
<1>6. ASSUME NEW p \in Process, NEW c \in Call, Acquires(c, p) PROVE TypeInv'
  <2>1. Moves(c) /\ call[c].pc = "wait"
    BY <1>6, <1>t, AcquiresMoves
  <2>2. TypeOK'
    BY <1>6, <1>t, <2>1 DEF Acquires, TypeOK, Moves
  <2>3. Opened' /\ Placed'
    BY <1>6, <2>1, MoveKeeps DEF Acquires, InUse
  <2> QED BY <2>2, <2>3 DEF TypeInv
<1>7. ASSUME NEW c \in Call, StopsWaiting(c) PROVE TypeInv'
  <2>1. Moves(c) /\ call[c].pc = "wait"
    BY <1>7, <1>t, StopsWaitingMoves
  <2>2. TypeOK'
    BY <1>7, <1>t, <2>1 DEF StopsWaiting, TypeOK, Moves
  <2>3. Opened' /\ Placed'
    BY <1>7, <2>1, MoveKeeps DEF StopsWaiting, InUse
  <2> QED BY <2>2, <2>3 DEF TypeInv
<1>8. ASSUME NEW c \in Call, Begins(c) PROVE TypeInv'
  <2>1. Moves(c) /\ call[c].pc = "slot"
    BY <1>8, <1>t, BeginsMoves
  <2>2. TypeOK'
    BY <1>8, <1>t, <2>1 DEF Begins, TypeOK, Moves
  <2>3. Opened' /\ Placed'
    BY <1>8, <2>1, MoveKeeps DEF Begins, InUse, Slotted
  <2> QED BY <2>2, <2>3 DEF TypeInv
<1>9. ASSUME NEW c \in Call, Sends(c) PROVE TypeInv'
  <2>1. /\ Moves(c) /\ call[c].pc = "send"
        /\ upstream' \in [Call -> {"none", "working", "done", "refused"}]
    BY <1>9, <1>t, SendsMoves
  <2>2. TypeOK'
    BY <1>9, <1>t, <2>1 DEF Sends, TypeOK, Moves
  <2>3. Opened' /\ Placed'
    BY <1>9, <2>1, MoveKeeps DEF Sends, InUse, Slotted
  <2> QED BY <2>2, <2>3 DEF TypeInv
<1>10. ASSUME NEW c \in Call, Generates(c) PROVE TypeInv'
  BY <1>10, <1>t DEF Generates, TypeInv, TypeOK, Opened, Placed
<1>11. ASSUME NEW c \in Call, Answered(c) PROVE TypeInv'
  <2>1. Moves(c) /\ call[c].pc = "sent"
    BY <1>11, <1>t, AnsweredMoves
  <2>2. TypeOK'
    BY <1>11, <1>t, <2>1 DEF Answered, TypeOK, Moves
  <2>3. Opened' /\ Placed'
    BY <1>11, <2>1, MoveKeeps DEF Answered, InUse, Slotted
  <2> QED BY <2>2, <2>3 DEF TypeInv
<1>12. ASSUME NEW p \in Process, NEW c \in Call, RecordsOutcome(c, p) PROVE TypeInv'
  <2>1. /\ Moves(c) /\ call[c].pc = "record" /\ call'[c].pc \in {"return", "report"}
        /\ bucket' = bucket \/ bucket' = Adapted(bucket, call[c].outcome, queue[p])
    BY <1>12, <1>t, RecordsOutcomeMoves
  <2>2. bucket.limit \in 1..bucket.maximum
    BY <1>t, <2>1 DEF Opened, InUse, Slotted, TypeOK, NoBucket, Row
  <2>3. bucket' \in Row /\ bucket'.limit \in 1..bucket'.maximum
    BY <1>t, <2>1, <2>2, AdaptedStays
  <2>4. bucket'.limit >= 1
    BY <2>3 DEF Row
  <2>5. TypeOK'
    BY <1>12, <1>t, <2>1, <2>3 DEF RecordsOutcome, TypeOK, Moves, Row
  <2>6. Opened' /\ Placed'
    BY <1>12, <1>t, <2>1, <2>4 DEF RecordsOutcome, Opened, Placed, Moves
  <2> QED BY <2>5, <2>6 DEF TypeInv
<1>13. ASSUME NEW p \in Process, NEW c \in Call, ReturnsSlot(c, p) PROVE TypeInv'
  <2>1. Moves(c) /\ call[c].pc = "return"
    BY <1>13, <1>t, ReturnsSlotMoves
  <2>2. inFlight' \in [Process -> Nat]
    BY <1>13, <1>t DEF ReturnsSlot, TypeOK
  <2>3. TypeOK'
    BY <1>13, <1>t, <2>1, <2>2 DEF ReturnsSlot, TypeOK, Moves
  <2>4. Opened' /\ Placed'
    BY <1>13, <2>1, MoveKeeps DEF ReturnsSlot, InUse, Slotted
  <2> QED BY <2>3, <2>4 DEF TypeInv
<1>14. CASE Cools
  <2>a. bucket' = [bucket EXCEPT !.cooling = FALSE]
    BY <1>14 DEF Cools
  <2>b. bucket # NoBucket
    BY <1>14 DEF Cools, NoBucket
  <2>c. bucket' \in Row
    BY <1>t, <2>a DEF Row
  <2>1. bucket' \in Row /\ bucket'.limit = bucket.limit /\ bucket'.maximum = bucket.maximum /\ bucket # NoBucket
    BY <1>t, <2>a, <2>b, <2>c DEF Row
  <2>2. TypeOK'
    BY <1>14, <1>t, <2>1 DEF Cools, TypeOK, Row
  <2>3. Opened' /\ Placed'
    BY <1>14, <1>t, <2>1 DEF Cools, Opened, Placed
  <2> QED BY <2>2, <2>3 DEF TypeInv
<1>15. ASSUME NEW c \in Call, Reports(c) PROVE TypeInv'
  <2>1. call' \in [Call -> CallType] /\ call'[c] = Over /\ \A d \in Call \ {c} : call'[d] = call[d]
    BY <1>15, <1>t, CallRecords DEF Reports
  <2>2. Becomes(c) \in {"done", "manual", "ready", "failed"}
    BY DEF Becomes
  <2>3. image' \in [Image -> {"ready", "leased", "done", "failed", "manual", "lost"}]
    BY <1>15, <1>t, <2>2 DEF Reports, TypeOK
  <2>4. TypeOK'
    BY <1>15, <1>t, <2>1, <2>3 DEF Reports, TypeOK
  <2>5. Opened' /\ Placed'
    BY <1>15, <1>t, <2>1, CallRecords DEF Reports, Opened, Placed, InUse, Slotted
  <2> QED BY <2>4, <2>5 DEF TypeInv
<1>16. CASE UNCHANGED vars
  BY <1>16, <1>t DEF vars, TypeInv, TypeOK, Opened, Placed
<1> QED
  BY <1>1, <1>2, <1>3, <1>4, <1>5, <1>6, <1>7, <1>8, <1>9, <1>10, <1>11, <1>12, <1>13, <1>14, <1>15, <1>16 DEF Next

\* Every variable keeps its type; the limit of a bucket is never 0 nor above
\* its maximum, however often it was halved and grew.
THEOREM TypeCorrect == Spec => []TypeOK
<1>1. Spec => []TypeInv
  BY TypeInit, TypeStep, PTL DEF Spec
<1> QED BY <1>1, PTL DEF TypeInv

-----------------------------------------------------------------------------
(* One process at a time sends through the bucket.                         *)

\* An open queue is the owner's.
OwnerOpen == \A p \in Process : queue[p] # "none" => owner = {p}

LEMMA OwnerStep == TypeOK /\ OwnerOpen /\ [Next]_vars => OwnerOpen'
<1> SUFFICES ASSUME TypeOK, OwnerOpen, [Next]_vars PROVE OwnerOpen'
  OBVIOUS
<1>1. CASE UNCHANGED <<owner, queue>>
  BY <1>1 DEF OwnerOpen
<1>2. ASSUME NEW p \in Process, Dies(p) PROVE OwnerOpen'
  BY <1>2 DEF Dies, OwnerOpen, TypeOK
<1>3. ASSUME NEW p \in Process, NEW c \in Call, NEW l \in Limits, Opens(c, p, l) PROVE OwnerOpen'
  <2>1. CASE UNCHANGED <<owner, queue>>
    BY <2>1 DEF OwnerOpen
  <2>2. CASE ~Foreign(p) /\ owner' = {p} /\ queue' = [queue EXCEPT ![p] = l.mode]
    BY <2>2 DEF Foreign, OwnerOpen, TypeOK
  <2> QED BY <1>3, <2>1, <2>2 DEF Opens
<1> QED
  BY <1>1, <1>2, <1>3 DEF Next, vars, Lease, LoseLease, Starts, Acquires, StopsWaiting, Begins, Sends,
     Generates, Answered, RecordsOutcome, ReturnsSlot, Cools, Reports

\* However processes die and start, two running ones never both have the queue open.
THEOREM OneControllerHolds == Spec => []OneController
<1>1. Init => OwnerOpen
  BY DEF Init, OwnerOpen
<1>2. TypeOK /\ OwnerOpen => OneController
  BY DEF TypeOK, OwnerOpen, OneController
<1> QED BY <1>1, <1>2, OwnerStep, TypeCorrect, PTL DEF Spec

-----------------------------------------------------------------------------
(* The open requests of a process stay within the row.                     *)

\* The gate counts every slot that is held: it may count more, never fewer.
GateCounts ==
  \A p \in Process : Cardinality(Holding(p)) <= inFlight[p] /\ inFlight[p] <= bucket.maximum

LEMMA HoldingFinite ==
  ASSUME NEW p \in Process
  PROVE  IsFiniteSet(Holding(p)) /\ Cardinality(Holding(p)) \in Nat
<1>1. IsFiniteSet(1..Tries)
  BY QueueAssumption, FS_Interval
<1>2. IsFiniteSet(Call)
  BY <1>1, QueueAssumption, FS_Product DEF Call
<1>3. Holding(p) \in SUBSET Call
  BY DEF Holding, Of
<1>4. IsFiniteSet(Holding(p))
  BY <1>2, <1>3, FS_Subset
<1> QED BY <1>4, FS_CardinalityType

\* Nothing but acquire adds a slot, so otherwise the count stays right.
LEMMA FewerKeeps ==
  ASSUME GateCounts, TypeOK, TypeOK', UNCHANGED inFlight, bucket'.maximum >= bucket.maximum,
         \A p \in Process : Holding(p)' \subseteq Holding(p)
  PROVE  GateCounts'
<1> SUFFICES ASSUME NEW p \in Process
             PROVE  Cardinality(Holding(p)') <= inFlight'[p] /\ inFlight'[p] <= bucket'.maximum
  BY DEF GateCounts
<1>1. IsFiniteSet(Holding(p)) /\ Cardinality(Holding(p)) \in Nat
  BY HoldingFinite
<1>2. IsFiniteSet(Holding(p)') /\ Cardinality(Holding(p)') <= Cardinality(Holding(p))
  BY <1>1, FS_Subset
<1>3. Cardinality(Holding(p)') \in Nat
  BY <1>2, FS_CardinalityType
<1>4. inFlight[p] \in Nat /\ bucket.maximum \in Nat /\ bucket'.maximum \in Nat
  BY DEF TypeOK
<1> QED BY <1>1, <1>2, <1>3, <1>4 DEF GateCounts

\* A move that takes no slot.
LEMMA MoveFewer ==
  ASSUME NEW c \in Call, Moves(c), call'[c].pc \in Slotted => call[c].pc \in Slotted
  PROVE  \A p \in Process : Holding(p)' \subseteq Holding(p)
BY DEF Moves, Holding, Of

LEMMA GateStep == TypeInv /\ TypeInv' /\ GateCounts /\ [Next]_vars => GateCounts'
<1> SUFFICES ASSUME TypeInv, TypeInv', GateCounts, [Next]_vars PROVE GateCounts'
  OBVIOUS
<1>t. /\ TypeOK /\ TypeOK' /\ Opened
      /\ call \in [Call -> CallType] /\ bucket \in Row /\ bucket' \in Row
      /\ inFlight \in [Process -> Nat]
  BY DEF TypeInv, TypeOK, Row
<1>m. bucket' = bucket => bucket'.maximum >= bucket.maximum
  BY <1>t DEF Row
<1>1. ASSUME NEW p \in Process, NEW i \in Image, NEW n \in 1..Tries, Lease(p, i, n) PROVE GateCounts'
  <2>1. \A d \in Call : call'[d] = call[d] \/ call'[d] = [NoCall EXCEPT !.pc = "open", !.at = {p}, !.leased = TRUE]
    BY <1>1, <1>t DEF Lease
  <2>2. [NoCall EXCEPT !.pc = "open", !.at = {p}, !.leased = TRUE].pc \notin Slotted
    BY CallRecords DEF Slotted
  <2>3. \A q \in Process : Holding(q)' \subseteq Holding(q)
    BY <2>1, <2>2 DEF Holding, Of
  <2> QED BY <1>1, <1>t, <1>m, <2>3, FewerKeeps DEF Lease
<1>2. ASSUME NEW c \in Call, LoseLease(c) PROVE GateCounts'
  <2>1. \A d \in Call : call'[d].pc = call[d].pc /\ call'[d].at = call[d].at
    BY <1>2, <1>t, CallRecords DEF LoseLease
  <2>2. \A q \in Process : Holding(q)' \subseteq Holding(q)
    BY <2>1 DEF Holding, Of
  <2> QED BY <1>2, <1>t, <1>m, <2>2, FewerKeeps DEF LoseLease
<1>3. ASSUME NEW p \in Process, Dies(p) PROVE GateCounts'
  <2>1. \A d \in Call : call'[d] = IF call[d].at = {p} THEN Over ELSE call[d]
    BY <1>3 DEF Dies, Of
  <2>2. ASSUME NEW q \in Process PROVE Holding(q)' = IF q = p THEN {} ELSE Holding(q)
    <3>1. ASSUME NEW d \in Call
          PROVE  d \in Holding(q)' <=> (q # p /\ d \in Holding(q))
      <4>1. CASE call[d].at = {p}
        BY <2>1, <4>1, CallRecords DEF Holding, Of, Slotted
      <4>2. CASE call[d].at # {p}
        BY <2>1, <4>2 DEF Holding, Of
      <4> QED BY <4>1, <4>2
    <3>2. Holding(q)' \subseteq Call /\ Holding(q) \subseteq Call
      BY DEF Holding, Of
    <3> QED BY <3>1, <3>2
  <2>3. \A q \in Process : inFlight'[q] = IF q = p THEN 0 ELSE inFlight[q]
    BY <1>3, <1>t DEF Dies
  <2>4. bucket' = bucket /\ bucket.maximum \in Nat
    BY <1>3, <1>t DEF Dies, Row
  <2>5. ASSUME NEW q \in Process
        PROVE  Cardinality(Holding(q)') <= inFlight'[q] /\ inFlight'[q] <= bucket'.maximum
    <3>1. CASE q = p
      BY <2>2, <2>3, <2>4, <3>1, FS_EmptySet
    <3>2. CASE q # p
      BY <2>2, <2>3, <2>4, <3>2 DEF GateCounts
    <3> QED BY <3>1, <3>2
  <2> QED BY <2>5 DEF GateCounts
<1>4. ASSUME NEW p \in Process, Starts(p) PROVE GateCounts'
  BY <1>4, <1>t, <1>m, FewerKeeps DEF Starts, Holding, Of
<1>5. ASSUME NEW p \in Process, NEW c \in Call, NEW l \in Limits, Opens(c, p, l) PROVE GateCounts'
  <2>1. \A q \in Process : Holding(q)' \subseteq Holding(q)
    BY <1>5, <1>t, OpensMoves, MoveFewer DEF Slotted
  <2>2. bucket' = bucket \/ bucket = NoBucket
    BY <1>5 DEF Opens
  <2>3. bucket'.maximum >= bucket.maximum
    BY <1>t, <1>m, <2>2 DEF NoBucket, Row
  <2> QED BY <1>5, <1>t, <2>1, <2>3, FewerKeeps DEF Opens
<1>6. ASSUME NEW p \in Process, NEW c \in Call, Acquires(c, p) PROVE GateCounts'
  <2>1. Moves(c) /\ call[c].pc = "wait" /\ call[c].at = {p} /\ call'[c].pc = "slot"
    BY <1>6, <1>t, AcquiresMoves
  <2>2. c \notin Holding(p) /\ Holding(p)' = Holding(p) \cup {c}
    BY <2>1 DEF Moves, Holding, Of, Slotted
  <2>3. \A q \in Process \ {p} : Holding(q)' = Holding(q)
    BY <2>1 DEF Moves, Holding, Of, Slotted
  <2>4. Cardinality(Holding(p)') = Cardinality(Holding(p)) + 1
    BY <2>2, HoldingFinite, FS_AddElement
  <2>5. inFlight'[p] = inFlight[p] + 1 /\ \A q \in Process \ {p} : inFlight'[q] = inFlight[q]
    BY <1>6, <1>t DEF Acquires
  <2>6. inFlight[p] < bucket.limit /\ bucket.limit >= 1 /\ bucket' = bucket
    BY <1>6, <1>t, <2>1 DEF Acquires, Free, Opened, InUse
  <2>7. bucket.limit <= bucket.maximum
    BY <1>t, <2>6 DEF TypeOK, NoBucket, Row
  <2>8. inFlight[p] \in Nat /\ bucket.limit \in Nat /\ bucket.maximum \in Nat /\ Cardinality(Holding(p)) \in Nat
    BY <1>t, HoldingFinite DEF Row
  <2> QED BY <2>3, <2>4, <2>5, <2>6, <2>7, <2>8 DEF GateCounts
<1>7. ASSUME NEW c \in Call, StopsWaiting(c) PROVE GateCounts'
  BY <1>7, <1>t, <1>m, StopsWaitingMoves, MoveFewer, FewerKeeps DEF StopsWaiting, Slotted
<1>8. ASSUME NEW c \in Call, Begins(c) PROVE GateCounts'
  BY <1>8, <1>t, <1>m, BeginsMoves, MoveFewer, FewerKeeps DEF Begins, Slotted
<1>9. ASSUME NEW c \in Call, Sends(c) PROVE GateCounts'
  BY <1>9, <1>t, <1>m, SendsMoves, MoveFewer, FewerKeeps DEF Sends, Slotted
<1>10. ASSUME NEW c \in Call, Generates(c) PROVE GateCounts'
  BY <1>10, <1>t, <1>m, FewerKeeps DEF Generates, Holding, Of
<1>11. ASSUME NEW c \in Call, Answered(c) PROVE GateCounts'
  BY <1>11, <1>t, <1>m, AnsweredMoves, MoveFewer, FewerKeeps DEF Answered, Slotted
<1>12. ASSUME NEW p \in Process, NEW c \in Call, RecordsOutcome(c, p) PROVE GateCounts'
  <2>1. /\ Moves(c) /\ call[c].pc = "record" /\ call'[c].pc \in {"return", "report"}
        /\ bucket' = bucket \/ bucket' = Adapted(bucket, call[c].outcome, queue[p])
    BY <1>12, <1>t, RecordsOutcomeMoves
  <2>2. bucket.limit \in 1..bucket.maximum
    BY <1>t, <2>1 DEF Opened, InUse, Slotted, TypeOK, NoBucket, Row
  <2>3. bucket'.maximum = bucket.maximum /\ bucket.maximum \in Nat
    BY <1>t, <2>1, <2>2, AdaptedStays DEF Row
  <2>4. \A q \in Process : Holding(q)' \subseteq Holding(q)
    BY <2>1, MoveFewer DEF Slotted
  <2> QED BY <1>12, <1>t, <2>3, <2>4, FewerKeeps DEF RecordsOutcome
<1>13. ASSUME NEW p \in Process, NEW c \in Call, ReturnsSlot(c, p) PROVE GateCounts'
  <2>1. Moves(c) /\ call[c].pc = "return" /\ call[c].at = {p} /\ call'[c].pc = "report"
    BY <1>13, <1>t, ReturnsSlotMoves
  <2>2. c \in Holding(p) /\ Holding(p)' = Holding(p) \ {c}
    BY <2>1 DEF Moves, Holding, Of, Slotted
  <2>3. \A q \in Process \ {p} : Holding(q)' = Holding(q)
    BY <2>1 DEF Moves, Holding, Of, Slotted
  <2>4. Cardinality(Holding(p)') = Cardinality(Holding(p)) - 1
    BY <2>2, HoldingFinite, FS_RemoveElement
  <2>5. /\ inFlight'[p] = IF inFlight[p] = 0 THEN 0 ELSE inFlight[p] - 1
        /\ \A q \in Process \ {p} : inFlight'[q] = inFlight[q]
    BY <1>13, <1>t DEF ReturnsSlot
  <2>6. bucket' = bucket
    BY <1>13 DEF ReturnsSlot
  <2>7. inFlight[p] \in Nat /\ bucket.maximum \in Nat /\ Cardinality(Holding(p)) \in Nat
    BY <1>t, HoldingFinite DEF Row
  <2> QED BY <2>3, <2>4, <2>5, <2>6, <2>7 DEF GateCounts
<1>14. CASE Cools
  <2>1. bucket'.maximum = bucket.maximum /\ bucket.maximum \in Nat
    BY <1>14, <1>t DEF Cools, Row
  <2> QED BY <1>14, <1>t, <2>1, FewerKeeps DEF Cools, Holding, Of
<1>15. ASSUME NEW c \in Call, Reports(c) PROVE GateCounts'
  <2>1. call'[c] = Over /\ \A d \in Call \ {c} : call'[d] = call[d]
    BY <1>15, <1>t DEF Reports
  <2>2. \A q \in Process : Holding(q)' \subseteq Holding(q)
    BY <2>1, CallRecords DEF Holding, Of, Slotted
  <2> QED BY <1>15, <1>t, <1>m, <2>2, FewerKeeps DEF Reports
<1>16. CASE UNCHANGED vars
  BY <1>16, <1>t, <1>m, FewerKeeps DEF vars, Holding, Of
<1> QED
  BY <1>1, <1>2, <1>3, <1>4, <1>5, <1>6, <1>7, <1>8, <1>9, <1>10, <1>11, <1>12, <1>13, <1>14, <1>15, <1>16 DEF Next

\* The requests a process has open never exceed the maximum of the row, with
\* the limit moving, slots leaking and processes taking the bucket over.
THEOREM WithinQuotaHolds == Spec => []WithinQuota
<1>1. Init => GateCounts
  <2> SUFFICES ASSUME Init PROVE GateCounts
    OBVIOUS
  <2>1. \A p \in Process : Holding(p) = {}
    BY DEF Init, NoCall, Holding, Of
  <2> QED BY <2>1, FS_EmptySet DEF Init, GateCounts, NoBucket
<1>2. TypeOK /\ GateCounts => WithinQuota
  BY HoldingFinite DEF TypeOK, GateCounts, WithinQuota
<1> QED BY <1>1, <1>2, TypeInit, TypeStep, GateStep, PTL DEF Spec, TypeInv

-----------------------------------------------------------------------------
(* What a billed request leads to.                                         *)

Live(c) == call[c].pc \notin {"idle", "over"}

\* The request of c is out, or its outcome is one that is not repeated, or a
\* crash that is.
NotRepeated(c) ==
  \/ call[c].pc = "sent"
  \/ /\ call[c].pc \in {"record", "return", "report"}
     /\ call[c].outcome \in {"succeeded", "terminal", "delivery_unknown"} \/ CrashRepeats(c)

\* At most one call of an image is under way, and none while the image is in the
\* queue; a call that has not started is not billed, and the one with the lease is
\* not repeated once billed, except as a crash.
Sole ==
  /\ \A c, d \in Call : c[1] = d[1] /\ Live(c) /\ Live(d) => c = d
  /\ \A c \in Call : image[c[1]] = "ready" => ~Live(c)
  /\ \A c \in Call : call[c].pc = "idle" => ~Billed(c)
  /\ \A c \in Call : call[c].leased => call[c].pc \notin {"idle", "over"} /\ image[c[1]] = "leased"
  /\ \A c \in Call : call[c].leased /\ Billed(c) => NotRepeated(c)

\* A call under way that goes on.
LEMMA MoveSole ==
  ASSUME Sole, NEW c \in Call, Moves(c), UNCHANGED image,
         call[c].pc \notin {"idle", "over"}, call'[c].pc \notin {"idle", "over"},
         \A d \in Call \ {c} : upstream'[d] = upstream[d],
         call[c].leased /\ Billed(c)' => NotRepeated(c)'
  PROVE  Sole'
<1>1. \A d \in Call \ {c} : call'[d] = call[d] /\ (Billed(d)' <=> Billed(d)) /\ (Live(d)' <=> Live(d))
  BY DEF Moves, Billed, Live
<1>2. Live(c) /\ Live(c)' /\ call'[c].leased = call[c].leased
  BY DEF Moves, Live
<1>3. \A d, e \in Call : d[1] = e[1] /\ Live(d)' /\ Live(e)' => d = e
  BY <1>1, <1>2 DEF Sole
<1>4. \A d \in Call : image'[d[1]] = "ready" => ~Live(d)'
  BY <1>1, <1>2 DEF Sole
<1>5. \A d \in Call : call'[d].leased => call'[d].pc \notin {"idle", "over"} /\ image'[d[1]] = "leased"
  BY <1>1, <1>2 DEF Sole
<1>6. \A d \in Call : call'[d].leased /\ Billed(d)' => NotRepeated(d)'
  BY <1>1, <1>2 DEF Sole, NotRepeated, CrashRepeats
<1>7. \A d \in Call : call'[d].pc = "idle" => ~Billed(d)'
  BY <1>1 DEF Sole
<1> QED BY <1>3, <1>4, <1>5, <1>6, <1>7 DEF Sole

LEMMA SoleStep == TypeInv /\ Sole /\ [Next]_vars => Sole'
<1> SUFFICES ASSUME TypeInv, Sole, [Next]_vars PROVE Sole'
  OBVIOUS
<1>t. /\ TypeOK /\ call \in [Call -> CallType] /\ image \in [Image -> {"ready", "leased", "done", "failed", "manual", "lost"}]
      /\ \A c \in Call : c[1] \in Image
  BY DEF TypeInv, TypeOK, Call
<1>1. ASSUME NEW p \in Process, NEW i \in Image, NEW n \in 1..Tries, Lease(p, i, n) PROVE Sole'
  <2> DEFINE c == <<i, n>>
             r == [NoCall EXCEPT !.pc = "open", !.at = {p}, !.leased = TRUE]
  <2>1. c \in Call /\ c[1] = i
    BY DEF Call
  <2>2. r.pc = "open"
    BY CallRecords
  <2> HIDE DEF r
  <2>3. /\ call'[c] = r /\ \A d \in Call \ {c} : call'[d] = call[d]
        /\ image' = [image EXCEPT ![i] = "leased"] /\ upstream' = upstream /\ image[i] = "ready"
    BY <1>1, <1>t, <2>1 DEF Lease, r
  <2>4. image'[i] = "leased" /\ \A j \in Image \ {i} : image'[j] = image[j]
    BY <1>t, <2>3
  <2>5. \A d \in Call : d[1] = i => ~Live(d) /\ ~call[d].leased
    BY <2>3 DEF Sole, Live
  <2>6. \A d \in Call \ {c} : (Live(d)' <=> Live(d)) /\ (Billed(d)' <=> Billed(d)) /\ (NotRepeated(d)' <=> NotRepeated(d))
    BY <2>3 DEF Live, Billed, NotRepeated, CrashRepeats
  <2>7. ~Billed(c)' /\ call'[c].pc = "open"
    BY <1>1, <2>1, <2>2, <2>3 DEF Lease, At, Sole, Billed
  <2>8. \A d, e \in Call : d[1] = e[1] /\ Live(d)' /\ Live(e)' => d = e
    BY <2>1, <2>5, <2>6 DEF Sole
  <2>9. \A d \in Call : image'[d[1]] = "ready" => ~Live(d)'
    BY <1>t, <2>1, <2>4, <2>6 DEF Sole
  <2>10. \A d \in Call : call'[d].leased => call'[d].pc \notin {"idle", "over"} /\ image'[d[1]] = "leased"
    BY <1>t, <2>1, <2>3, <2>4, <2>5, <2>7 DEF Sole
  <2>11. \A d \in Call : call'[d].leased /\ Billed(d)' => NotRepeated(d)'
    BY <2>3, <2>6, <2>7 DEF Sole
  <2>12. \A d \in Call : call'[d].pc = "idle" => ~Billed(d)'
    BY <2>3, <2>6, <2>7 DEF Sole
  <2> QED BY <2>8, <2>9, <2>10, <2>11, <2>12 DEF Sole
<1>2. ASSUME NEW c \in Call, LoseLease(c) PROVE Sole'
  <2>1. /\ call'[c].pc = call[c].pc /\ call'[c].outcome = call[c].outcome /\ call'[c].leased = FALSE
        /\ \A d \in Call \ {c} : call'[d] = call[d]
    BY <1>2, <1>t, CallRecords DEF LoseLease
  <2>2. image'[c[1]] = "lost" /\ \A j \in Image \ {c[1]} : image'[j] = image[j]
    BY <1>2, <1>t DEF LoseLease
  <2>3. call[c].leased /\ upstream' = upstream
    BY <1>2 DEF LoseLease
  <2>4. \A d \in Call : (Live(d)' <=> Live(d)) /\ (Billed(d)' <=> Billed(d)) /\ (NotRepeated(d)' <=> NotRepeated(d))
    BY <2>1, <2>3 DEF Live, Billed, NotRepeated, CrashRepeats
  <2>5. \A d \in Call \ {c} : call[d].leased => d[1] # c[1]
    BY <2>3 DEF Sole, Live
  <2> QED BY <1>t, <2>1, <2>2, <2>4, <2>5 DEF Sole
<1>3. ASSUME NEW p \in Process, Dies(p) PROVE Sole'
  <2>1. \A d \in Call : call'[d] = IF call[d].at = {p} THEN Over ELSE call[d]
    BY <1>3 DEF Dies, Of
  <2>2. \A d \in Call : (Live(d)' => Live(d)) /\ (Billed(d)' <=> Billed(d))
    BY <1>3, <2>1, CallRecords DEF Dies, Live, Billed
  <2>3. \A j \in Image : image'[j] = image[j] \/ image'[j] = "lost"
    BY <1>3 DEF Dies
  <2>4. \A d \in Call : call'[d].leased => call'[d] = call[d] /\ call[d].at # {p}
    BY <2>1, CallRecords
  <2>5. ASSUME NEW d \in Call, call'[d].leased PROVE image'[d[1]] = "leased"
    <3>1. call[d].leased /\ call[d].at # {p} /\ Live(d) /\ image[d[1]] = "leased"
      BY <2>4, <2>5 DEF Sole, Live
    <3>2. \A e \in Of(p) : ~(e[1] = d[1] /\ call[e].leased)
      BY <3>1 DEF Sole, Live, Of
    <3> QED BY <1>3, <1>t, <3>1, <3>2 DEF Dies
  <2>6. \A d \in Call : call'[d].pc = "idle" => ~Billed(d)'
    BY <2>1, <2>2, CallRecords DEF Sole
  <2> QED BY <1>t, <2>2, <2>3, <2>4, <2>5, <2>6 DEF Sole, NotRepeated, CrashRepeats
<1>4. ASSUME NEW p \in Process, Starts(p) PROVE Sole'
  BY <1>4 DEF Starts, Sole, Live, Billed, NotRepeated, CrashRepeats
<1>5. ASSUME NEW p \in Process, NEW c \in Call, NEW l \in Limits, Opens(c, p, l) PROVE Sole'
  <2>a. Moves(c) /\ call[c].pc = "open" /\ call'[c].pc \in {"wait", "report"}
    BY <1>5, <1>t, OpensMoves
  <2>1. Moves(c) /\ call[c].pc = "open" /\ call'[c].pc \in {"wait", "report"} /\ UNCHANGED <<image, upstream>>
    BY <1>5, <2>a DEF Opens
  <2>2. ~(call[c].leased /\ Billed(c)')
    BY <2>1 DEF Sole, NotRepeated, CrashRepeats, Billed
  <2> QED BY <2>1, <2>2, MoveSole
<1>6. ASSUME NEW p \in Process, NEW c \in Call, Acquires(c, p) PROVE Sole'
  <2>1. Moves(c) /\ call[c].pc = "wait" /\ call'[c].pc = "slot" /\ UNCHANGED <<image, upstream>>
    BY <1>6, <1>t, AcquiresMoves DEF Acquires
  <2>2. ~(call[c].leased /\ Billed(c)')
    BY <2>1 DEF Sole, NotRepeated, CrashRepeats, Billed
  <2> QED BY <2>1, <2>2, MoveSole
<1>7. ASSUME NEW c \in Call, StopsWaiting(c) PROVE Sole'
  <2>1. Moves(c) /\ call[c].pc = "wait" /\ call'[c].pc = "report" /\ UNCHANGED <<image, upstream>>
    BY <1>7, <1>t, StopsWaitingMoves DEF StopsWaiting
  <2>2. ~(call[c].leased /\ Billed(c)')
    BY <2>1 DEF Sole, NotRepeated, CrashRepeats, Billed
  <2> QED BY <2>1, <2>2, MoveSole
<1>8. ASSUME NEW c \in Call, Begins(c) PROVE Sole'
  <2>1. Moves(c) /\ call[c].pc = "slot" /\ call'[c].pc \in {"send", "report"} /\ UNCHANGED <<image, upstream>>
    BY <1>8, <1>t, BeginsMoves DEF Begins
  <2>2. ~(call[c].leased /\ Billed(c)')
    BY <2>1 DEF Sole, NotRepeated, CrashRepeats, Billed
  <2> QED BY <2>1, <2>2, MoveSole
<1>9. ASSUME NEW c \in Call, Sends(c) PROVE Sole'
  <2>1. /\ Moves(c) /\ call[c].pc = "send" /\ UNCHANGED image
        /\ \A d \in Call \ {c} : upstream'[d] = upstream[d]
        /\ call'[c].pc = "sent" \/ (call'[c].pc = "record" /\ (upstream'[c] = "refused" \/ upstream'[c] = upstream[c]))
    BY <1>9, <1>t, SendsMoves DEF Sends
  <2>2. call[c].leased /\ Billed(c)' => NotRepeated(c)'
    BY <2>1 DEF Sole, NotRepeated, CrashRepeats, Billed
  <2> QED BY <2>1, <2>2, MoveSole
<1>10. ASSUME NEW c \in Call, Generates(c) PROVE Sole'
  <2>1. \A d \in Call : Billed(d)' <=> Billed(d)
    BY <1>10, <1>t DEF Generates, Billed, TypeOK
  <2>2. UNCHANGED <<call, image>>
    BY <1>10 DEF Generates
  <2> QED BY <2>1, <2>2 DEF Sole, Live, NotRepeated, CrashRepeats
<1>11. ASSUME NEW c \in Call, Answered(c) PROVE Sole'
  <2>1. /\ Moves(c) /\ call[c].pc = "sent" /\ call'[c].pc = "record" /\ UNCHANGED <<image, upstream>>
        /\ call'[c].outcome \in {"succeeded", "terminal", "delivery_unknown"} \/ CrashRepeats(c)' \/ ~call[c].leased
    BY <1>11, <1>t, AnsweredMoves DEF Answered, Unanswered, HeartbeatFails, CrashRepeats
  <2>2. call[c].leased /\ Billed(c)' => NotRepeated(c)'
    BY <2>1 DEF NotRepeated, CrashRepeats
  <2> QED BY <2>1, <2>2, MoveSole
<1>12. ASSUME NEW p \in Process, NEW c \in Call, RecordsOutcome(c, p) PROVE Sole'
  <2>1. /\ Moves(c) /\ call[c].pc = "record" /\ call'[c].pc \in {"return", "report"}
        /\ UNCHANGED <<image, upstream>>
        /\ call'[c].outcome = call[c].outcome \/ CrashRepeats(c)'
    BY <1>12, <1>t, RecordsOutcomeMoves DEF RecordsOutcome, CrashRepeats
  <2>2. call[c].leased /\ Billed(c)' => NotRepeated(c)'
    BY <2>1 DEF Sole, NotRepeated, CrashRepeats, Billed
  <2> QED BY <2>1, <2>2, MoveSole
<1>13. ASSUME NEW p \in Process, NEW c \in Call, ReturnsSlot(c, p) PROVE Sole'
  <2>1. /\ Moves(c) /\ call[c].pc = "return" /\ call'[c].pc = "report" /\ UNCHANGED <<image, upstream>>
        /\ call'[c].outcome = call[c].outcome \/ CrashRepeats(c)' \/ ~call[c].leased
    BY <1>13, <1>t, ReturnsSlotMoves DEF ReturnsSlot, HeartbeatFails, CrashRepeats
  <2>2. call[c].leased /\ Billed(c)' => NotRepeated(c)'
    BY <2>1 DEF Sole, NotRepeated, CrashRepeats, Billed
  <2> QED BY <2>1, <2>2, MoveSole
<1>14. CASE Cools
  BY <1>14 DEF Cools, Sole, Live, Billed, NotRepeated, CrashRepeats
<1>15. ASSUME NEW c \in Call, Reports(c) PROVE Sole'
  <2>1. /\ call[c].pc = "report" /\ upstream' = upstream
        /\ call'[c] = Over /\ \A d \in Call \ {c} : call'[d] = call[d]
    BY <1>15, <1>t DEF Reports, At
  <2>2. /\ \A d \in Call : (Billed(d)' <=> Billed(d)) /\ (Live(d)' => Live(d))
        /\ \A d \in Call \ {c} : (NotRepeated(d)' <=> NotRepeated(d))
        /\ ~call'[c].leased /\ ~Live(c)' /\ call'[c].pc = "over" /\ Live(c)
    BY <2>1, CallRecords DEF Billed, Live, NotRepeated, CrashRepeats
  <2>3. CASE ~call[c].leased
    <3>1. image' = image
      BY <1>15, <2>3 DEF Reports
    <3> QED BY <2>1, <2>2, <3>1 DEF Sole
  <2>4. CASE call[c].leased
    <3>1. image'[c[1]] = Becomes(c) /\ \A j \in Image \ {c[1]} : image'[j] = image[j]
      BY <1>15, <1>t, <2>4 DEF Reports
    <3>3. \A d \in Call \ {c} : d[1] = c[1] => ~Live(d) /\ ~call[d].leased
      BY <2>2 DEF Sole, Live
    <3>4. \A d, e \in Call : d[1] = e[1] /\ Live(d)' /\ Live(e)' => d = e
      BY <2>2 DEF Sole
    <3>5. \A d \in Call : image'[d[1]] = "ready" => ~Live(d)'
      BY <1>t, <2>2, <3>1, <3>3 DEF Sole
    <3>6. \A d \in Call : call'[d].leased => call'[d].pc \notin {"idle", "over"} /\ image'[d[1]] = "leased"
      BY <1>t, <2>1, <2>2, <3>1, <3>3 DEF Sole
    <3>7. \A d \in Call : call'[d].leased /\ Billed(d)' => NotRepeated(d)'
      BY <2>1, <2>2 DEF Sole
    <3>8. \A d \in Call : call'[d].pc = "idle" => ~Billed(d)'
      BY <2>1, <2>2 DEF Sole
    <3> QED BY <3>4, <3>5, <3>6, <3>7, <3>8 DEF Sole
  <2> QED BY <2>3, <2>4
<1>16. CASE UNCHANGED vars
  BY <1>16 DEF vars, Sole, Live, Billed, NotRepeated, CrashRepeats
<1> QED
  BY <1>1, <1>2, <1>3, <1>4, <1>5, <1>6, <1>7, <1>8, <1>9, <1>10, <1>11, <1>12, <1>13, <1>14, <1>15, <1>16 DEF Next

\* An image goes back to the queue only when the call with its lease reports.
LEMMA ReadyByReport ==
  TypeInv /\ Sole /\ [Next]_vars =>
    \A i \in Image : image[i] # "ready" /\ image'[i] = "ready" => ReportedBack(i)
<1> SUFFICES ASSUME TypeInv, Sole, [Next]_vars, NEW i \in Image, image[i] # "ready", image'[i] = "ready"
             PROVE  ReportedBack(i)
  OBVIOUS
<1>t. image \in [Image -> {"ready", "leased", "done", "failed", "manual", "lost"}]
  BY DEF TypeInv, TypeOK
<1>1. ~UNCHANGED image /\ Next
  BY DEF vars
<1>2. PICK c \in Call : Reports(c)
  <2>1. ASSUME NEW p \in Process, NEW j \in Image, NEW n \in 1..Tries, Lease(p, j, n) PROVE FALSE
    BY <2>1, <1>t DEF Lease
  <2>2. ASSUME NEW p \in Process, Dies(p) PROVE FALSE
    BY <2>2 DEF Dies
  <2>3. ASSUME NEW c \in Call, LoseLease(c) PROVE FALSE
    BY <2>3, <1>t DEF LoseLease
  <2> QED
    BY <1>1, <2>1, <2>2, <2>3
       DEF Next, Starts, Opens, Acquires, RecordsOutcome, ReturnsSlot, StopsWaiting, Begins, Sends,
           Generates, Answered, Cools
<1>3. /\ call[c].leased /\ image' = [image EXCEPT ![c[1]] = Becomes(c)]
      /\ call[c].pc = "report"
  BY <1>1, <1>2 DEF Reports, At
<1>4. c[1] = i /\ Becomes(c) = "ready"
  BY <1>t, <1>3
<1>5. Billed(c) => CrashRepeats(c)
  BY <1>3, <1>4 DEF Sole, NotRepeated, Becomes, Retryable
<1> QED BY <1>3, <1>4, <1>5 DEF At, ReportedBack

\* A request that may be billed leads to another try of its image only as a crash
\* of its worker after a failed transaction or a cut answer; no refusal, lost
\* connection, lost lease or dead process does.
THEOREM BilledRepeatsAsCrash == Spec => RepeatedAsCrash
<1>1. Init => Sole
  BY DEF Init, NoCall, Sole, Live, Billed
<1> QED BY <1>1, TypeInit, TypeStep, SoleStep, ReadyByReport, PTL DEF Spec, RepeatedAsCrash
=============================================================================
