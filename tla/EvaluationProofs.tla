-------------------------- MODULE EvaluationProofs --------------------------
(***************************************************************************)
(* What holds of the evaluation of a batch for any number of tasks,        *)
(* repeats, commands and output directories: what is paid for, and what a  *)
(* finalizer commits.                                                      *)
(***************************************************************************)
EXTENDS Evaluation, TLAPS

-----------------------------------------------------------------------------
(* Types, and who holds what.                                              *)

ScoresType == [set : Setting \cup {"-"}, got : [Request -> Response], fits : BOOLEAN]
CmdType    == [pc : Pc, inv : Invocation \cup {Nobody}, gate : {"-", "already_finalized", "refused", "ready"},
               todo : SUBSET Request, at : Request \cup Task \cup {Nobody}, tries : 0..Retries,
               failed : BOOLEAN, own : ScoresType, cites : ScoresType, list : SUBSET Task]
FinType    == [state : {"ready", "held", "done"}, by : Command \cup {Nobody},
               mode : {"-", "paid", "fake", "none"}, out : Output \cup {Nobody},
               row : ScoresType, cites : ScoresType]

Typed ==
  /\ cache \in [Output -> [Key -> Response]]
  /\ lock \in [Output -> [Key -> Command \cup {Nobody}]]
  /\ bought \in [Output -> [Key -> Int]]
  /\ drifted \in SUBSET Task
  /\ summary \in [Output -> ScoresType] /\ scores \in [Output -> ScoresType]
  /\ fin \in [Task -> FinType]
  /\ cmd \in [Command -> CmdType]
  /\ starts \in 0..MaxStarts

Holding    == {"ask", "calling", "store"}
Requesting == {"next", "lock"} \cup Holding

\* A command at work has its invocation, and what it asks for is still to do.
PlacedAt(c) ==
  /\ cmd[c].pc # "off" => cmd[c].inv \in Invocation
  /\ cmd[c].pc \in Requesting \ {"next"} => cmd[c].at \in cmd[c].todo
  /\ cmd[c].pc \in Requesting /\ cmd[c].todo # {} => cmd[c].inv.mode \in {"paid", "fake"}
  /\ cmd[c].pc \in Holding => lock[OutOf(c)][KeyOf(c)] = c
  /\ cmd[c].pc = "calling" => cmd[c].inv.mode = "paid"

\* A lock belongs to a command at that request, which is not in the cache; a
\* finalizer in hand to a command about to commit it, or to a dead one.
LockInv ==
  /\ \A c \in Command : PlacedAt(c)
  /\ \A o \in Output, k \in Key, c \in Command : lock[o][k] = c =>
       cmd[c].pc \in Holding /\ OutOf(c) = o /\ KeyOf(c) = k
  /\ \A o \in Output, k \in Key : lock[o][k] # Nobody => cache[o][k] = "none"
  /\ \A t \in Task, c \in Command : fin[t].by = c =>
       fin[t].state = "held" /\ cmd[c].pc = "commit" /\ cmd[c].at = t

\* An answer that was paid for is in the cache, or on its way there.
Storing(o, k) == \E c \in Command : lock[o][k] = c /\ cmd[c].pc = "store" /\ cmd[c].inv.mode = "paid"
PaidInv ==
  \A o \in Output, k \in Key :
    bought[o][k] = IF cache[o][k] = "paid" \/ Storing(o, k) THEN 1 ELSE 0

\* Scores in a file, in hand or committed are responses of the cache they come
\* from, and a task is only committed with all of its own.
ScoreInv ==
  /\ \A o \in Output : Stored(summary[o], o) /\ Stored(scores[o], o)
  /\ \A c \in Command : cmd[c].pc # "off" => Stored(cmd[c].own, OutOf(c)) /\ Stored(cmd[c].cites, OutOf(c))
  /\ \A c \in Command : cmd[c].pc = "commit" => TaskReady(cmd[c].own, cmd[c].at)
  /\ \A t \in Task : fin[t].state = "done" =>
       /\ fin[t].out \in Output /\ TaskReady(fin[t].row, t)
       /\ Stored(fin[t].row, fin[t].out) /\ Stored(fin[t].cites, fin[t].out)

Base == Typed /\ LockInv

\* What a command at work refers to.
LEMMA Refers ==
  ASSUME Base, NEW c \in Command
  PROVE  /\ cmd[c] \in CmdType
         /\ cmd[c].pc # "off" =>
              /\ OutOf(c) \in Output /\ cmd[c].inv \in Invocation /\ cmd[c].inv \in Invocations
              /\ cmd[c].inv.set \in Setting /\ cmd[c].inv.mode \in {"paid", "fake", "none"} /\ cmd[c].inv.fits \in BOOLEAN
         /\ cmd[c].pc \in Requesting \ {"next"} =>
              KeyOf(c) \in Key /\ cmd[c].at \in Request /\ cmd[c].at \in cmd[c].todo /\ cmd[c].inv.mode \in {"paid", "fake"}
<1>1. cmd[c] \in CmdType /\ PlacedAt(c)
  BY DEF Base, Typed, LockInv
<1>2. cmd[c].pc # "off" => cmd[c].inv \in Invocation /\ cmd[c].inv \in Invocations
  BY <1>1, EvaluationAssumption DEF PlacedAt
<1>3. cmd[c].pc # "off" =>
        /\ OutOf(c) \in Output
        /\ cmd[c].inv.set \in Setting /\ cmd[c].inv.mode \in {"paid", "fake", "none"} /\ cmd[c].inv.fits \in BOOLEAN
  BY <1>2 DEF Invocations, OutOf
<1>4. cmd[c].pc \in Requesting \ {"next"} =>
        cmd[c].pc # "off" /\ cmd[c].at \in Request /\ cmd[c].at \in cmd[c].todo /\ cmd[c].inv.mode \in {"paid", "fake"}
  BY <1>1 DEF PlacedAt, CmdType, Requesting, Holding
<1>5. cmd[c].pc \in Requesting \ {"next"} => KeyOf(c) \in Key
  BY <1>3, <1>4 DEF KeyOf, Key
<1> QED BY <1>1, <1>2, <1>3, <1>4, <1>5

\* A table of the directories and keys with one entry replaced.
LEMMA Replaced ==
  ASSUME NEW S, NEW f \in [Output -> [Key -> S]], NEW o \in Output, NEW k \in Key, NEW v \in S, NEW g,
         g = [f EXCEPT ![o][k] = v]
  PROVE  /\ g \in [Output -> [Key -> S]] /\ g[o][k] = v
         /\ \A p \in Output, q \in Key : p # o \/ q # k => g[p][q] = f[p][q]
OBVIOUS

\* Where a step leads its command, which keeps its invocation unless it ends.
LEMMA Moves ==
  ASSUME cmd \in [Command -> CmdType], NEW c \in Command
  PROVE  /\ Work(c) \/ Dies(c) => \A d \in Command : d # c => cmd'[d] = cmd[d]
         /\ Ends(c) => cmd'[c] = Idle /\ cmd'[c].pc = "off"
         /\ NextRequest(c) => cmd'[c].pc \in {"lock", "write", "off"}
         /\ Locks(c) => cmd'[c].pc \in {"next", "ask"}
         /\ TriesAgain(c) \/ GivesUp(c) => cmd'[c].pc \in {"ask", "next"}
         /\ ReadsScores(c) => cmd'[c].pc = "cite" /\ cmd'[c].inv = cmd[c].inv
         /\ ReadsSummary(c) => cmd'[c].pc = "list" /\ cmd'[c].inv = cmd[c].inv
         /\ ListsFinalizers(c) => cmd'[c].pc = "final" /\ cmd'[c].inv = cmd[c].inv
         /\ TakesFinalizer(c) => cmd'[c].pc \in {"commit", "off"}
         /\ CommitsFinalizer(c) => cmd'[c].pc = "final" /\ cmd'[c].inv = cmd[c].inv
<1>1. /\ cmd[c] \in CmdType
      /\ \A v : cmd' = [cmd EXCEPT ![c] = v] => cmd'[c] = v /\ \A d \in Command : d # c => cmd'[d] = cmd[d]
  OBVIOUS
<1>2. Ends(c) => cmd'[c] = Idle /\ cmd'[c].pc = "off" /\ \A d \in Command : d # c => cmd'[d] = cmd[d]
  BY <1>1 DEF Ends, Idle
<1>3. NextRequest(c) => cmd'[c].pc \in {"lock", "write", "off"} /\ \A d \in Command : d # c => cmd'[d] = cmd[d]
  <2>1. ASSUME NEW r, cmd' = [cmd EXCEPT ![c] = [@ EXCEPT !.pc = "lock", !.at = r, !.tries = 0]]
        PROVE  cmd'[c].pc = "lock" /\ \A d \in Command : d # c => cmd'[d] = cmd[d]
    BY <2>1, <1>1 DEF CmdType
  <2>2. ASSUME cmd' = [cmd EXCEPT ![c] = [@ EXCEPT !.pc = "write", !.at = Nobody, !.own = Aggregated(cmd[c].inv)]]
        PROVE  cmd'[c].pc = "write" /\ \A d \in Command : d # c => cmd'[d] = cmd[d]
    BY <2>2, <1>1 DEF CmdType
  <2> QED BY <1>2, <2>1, <2>2 DEF NextRequest
<1>4. ASSUME cmd' = [cmd EXCEPT ![c] = [@ EXCEPT !.pc = "next", !.todo = cmd[c].todo \ {cmd[c].at}]]
      PROVE  cmd'[c].pc = "next" /\ \A d \in Command : d # c => cmd'[d] = cmd[d]
  BY <1>4, <1>1 DEF CmdType
<1>5. ASSUME NEW p, Goes(c, p) PROVE cmd'[c].pc = p /\ \A d \in Command : d # c => cmd'[d] = cmd[d]
  BY <1>5, <1>1 DEF CmdType, Goes
<1>6. Locks(c) => cmd'[c].pc \in {"next", "ask"} /\ \A d \in Command : d # c => cmd'[d] = cmd[d]
  BY <1>4, <1>5 DEF Locks
<1>7. TriesAgain(c) \/ GivesUp(c) => cmd'[c].pc \in {"ask", "next"} /\ \A d \in Command : d # c => cmd'[d] = cmd[d]
  <2>1. CASE GivesUp(c)
    BY <2>1, <1>1 DEF CmdType, GivesUp
  <2>2. CASE cmd' = [cmd EXCEPT ![c] = [@ EXCEPT !.pc = "ask", !.tries = cmd[c].tries + 1]]
    BY <2>2, <1>1 DEF CmdType
  <2> QED BY <2>1, <2>2 DEF TriesAgain
<1>8. ReadsScores(c) => cmd'[c].pc = "cite" /\ cmd'[c].inv = cmd[c].inv /\ \A d \in Command : d # c => cmd'[d] = cmd[d]
  BY <1>1 DEF CmdType, ReadsScores
<1>9. ReadsSummary(c) => cmd'[c].pc = "list" /\ cmd'[c].inv = cmd[c].inv /\ \A d \in Command : d # c => cmd'[d] = cmd[d]
  BY <1>1 DEF CmdType, ReadsSummary
<1>10. ListsFinalizers(c) => cmd'[c].pc = "final" /\ cmd'[c].inv = cmd[c].inv /\ \A d \in Command : d # c => cmd'[d] = cmd[d]
  <2>1. ASSUME NEW L, cmd' = [cmd EXCEPT ![c] = [@ EXCEPT !.pc = "final", !.list = L]]
        PROVE  cmd'[c].pc = "final" /\ cmd'[c].inv = cmd[c].inv /\ \A d \in Command : d # c => cmd'[d] = cmd[d]
    BY <2>1, <1>1 DEF CmdType
  <2> QED BY <2>1 DEF ListsFinalizers
<1>11. TakesFinalizer(c) => cmd'[c].pc \in {"commit", "off"} /\ \A d \in Command : d # c => cmd'[d] = cmd[d]
  <2>1. ASSUME NEW t, cmd' = [cmd EXCEPT ![c] = [@ EXCEPT !.pc = "commit", !.at = t, !.list = cmd[c].list \ {t}]]
        PROVE  cmd'[c].pc = "commit" /\ \A d \in Command : d # c => cmd'[d] = cmd[d]
    BY <2>1, <1>1 DEF CmdType
  <2> QED BY <1>2, <2>1 DEF TakesFinalizer
<1>12. CommitsFinalizer(c) => cmd'[c].pc = "final" /\ cmd'[c].inv = cmd[c].inv /\ \A d \in Command : d # c => cmd'[d] = cmd[d]
  BY <1>1 DEF CmdType, CommitsFinalizer
<1>13. Asks(c) \/ Answers(c) \/ Stores(c) \/ WritesSummary(c) \/ WritesScores(c) \/ Dies(c)
         => \A d \in Command : d # c => cmd'[d] = cmd[d]
  BY <1>2, <1>4, <1>5, <1>7 DEF Asks, Answers, Stores, WritesSummary, WritesScores, Dies
<1> QED BY <1>2, <1>3, <1>6, <1>7, <1>8, <1>9, <1>10, <1>11, <1>12, <1>13 DEF Work

LEMMA Resting == NoScores \in ScoresType /\ Idle \in CmdType /\ Idle.pc = "off" /\ Open \in FinType
<1>1. NoScores \in ScoresType
  BY DEF NoScores, ScoresType, Response
<1>2. 0 \in 0..Retries
  BY EvaluationAssumption
<1>3. Idle \in CmdType
  BY <1>1, <1>2 DEF Idle, CmdType, Pc
<1>4. Open \in FinType
  BY <1>1 DEF Open, FinType
<1> QED BY <1>1, <1>3, <1>4 DEF Idle

LEMMA Initially == Init => Typed /\ LockInv /\ PaidInv /\ ScoreInv
<1> SUFFICES ASSUME Init PROVE Typed /\ LockInv /\ PaidInv /\ ScoreInv
  OBVIOUS
<1> USE DEF Init
<1>1. Typed
  BY Resting, EvaluationAssumption DEF Typed, Response
<1>2. \A c \in Command : cmd[c] = Idle /\ cmd[c].pc = "off"
  BY Resting
<1>3. \A o \in Output, k \in Key : lock[o][k] \notin Command /\ lock[o][k] = Nobody
  BY EvaluationAssumption
<1>4. LockInv
  <2>1. \A t \in Task : fin[t].by = Nobody
    BY DEF Open
  <2> QED BY <1>2, <1>3, <2>1, EvaluationAssumption DEF LockInv, PlacedAt, Requesting, Holding
<1>5. PaidInv
  BY <1>3 DEF PaidInv, Storing
<1>6. ScoreInv
  <2>1. \A t \in Task : fin[t].state # "done"
    BY DEF Open
  <2>2. \A o \in Output : summary[o] = NoScores /\ scores[o] = NoScores
    OBVIOUS
  <2>3. \A r \in Request : NoScores.got[r] = "none"
    BY DEF NoScores
  <2> QED BY <1>2, <2>1, <2>2, <2>3 DEF ScoreInv, Stored
<1> QED BY <1>1, <1>4, <1>5, <1>6

LEMMA AggregatedType ==
  ASSUME Base, NEW inv \in Invocation
  PROVE  Aggregated(inv) \in ScoresType
<1>1. inv.set \in Setting /\ inv.out \in Output /\ inv.fits \in BOOLEAN
  BY EvaluationAssumption DEF Invocations
<1>2. cache \in [Output -> [Key -> Response]]
  BY DEF Base, Typed
<1>3. \A r \in Request : cache[inv.out][<<inv.set, r>>] \in Response
  BY <1>1, <1>2 DEF Key
<1> QED BY <1>1, <1>3 DEF Aggregated, ScoresType

LEMMA TypedNext == ASSUME Base, [Next]_vars PROVE Typed'
<1> USE DEF Typed
<1>t. Typed
  BY DEF Base
<1>i. Idle \in CmdType /\ Nobody \in Command \cup {Nobody}
  BY Resting
<1>g. ASSUME NEW c \in Command, NEW v \in CmdType, cmd' = [cmd EXCEPT ![c] = v] PROVE cmd' \in [Command -> CmdType]
  BY <1>g, <1>t
<1>l. ASSUME NEW c \in Command, cmd[c].pc \in Requesting \ {"next"}, Free(c) PROVE lock' \in [Output -> [Key -> Command \cup {Nobody}]]
  <2>1. OutOf(c) \in Output /\ KeyOf(c) \in Key
    BY <1>l, Refers DEF Requesting, Holding
  <2> QED BY <1>l, <1>t, <2>1 DEF Free
<1>1. ASSUME NEW c \in Command, NEW inv \in Invocation, Starts(c, inv) PROVE Typed'
  <2>1. QueueGate \in {"-", "already_finalized", "refused", "ready"}
    BY DEF QueueGate
  <2>2. ASSUME NEW T \in SUBSET Missing(inv) PROVE [Idle EXCEPT !.pc = "next", !.inv = inv, !.todo = T, !.gate = QueueGate] \in CmdType
    BY <2>1, <2>2, <1>i DEF CmdType, Pc, Missing
  <2>3. starts' \in 0..MaxStarts
    BY <1>1, <1>t, EvaluationAssumption DEF Starts
  <2> QED BY <1>1, <1>t, <1>g, <2>2, <2>3 DEF Starts, files
<1>2. ASSUME NEW c \in Command, NextRequest(c) PROVE Typed'
  <2>1. cmd[c] \in CmdType
    BY <1>t
  <2>2. ASSUME NEW r \in cmd[c].todo PROVE [cmd[c] EXCEPT !.pc = "lock", !.at = r, !.tries = 0] \in CmdType
    <3>1. r \in Request /\ 0 \in 0..Retries
      BY <2>1, EvaluationAssumption DEF CmdType
    <3> QED BY <2>1, <3>1 DEF CmdType, Pc
  <2>3. [cmd[c] EXCEPT !.pc = "write", !.at = Nobody, !.own = Aggregated(cmd[c].inv)] \in CmdType
    <3>1. Aggregated(cmd[c].inv) \in ScoresType
      BY <1>2, Refers, AggregatedType DEF NextRequest
    <3> QED BY <2>1, <3>1 DEF CmdType, Pc
  <2> QED BY <1>2, <1>t, <1>i, <1>g, <2>2, <2>3 DEF NextRequest, Ends, files
<1>3. ASSUME NEW c \in Command, NEW p \in Pc, Goes(c, p) PROVE cmd' \in [Command -> CmdType]
  <2>1. [cmd[c] EXCEPT !.pc = p] \in CmdType
    BY <1>t DEF CmdType
  <2> QED BY <1>3, <1>g, <2>1 DEF Goes
<1>4. ASSUME NEW c \in Command PROVE [cmd[c] EXCEPT !.pc = "next", !.todo = cmd[c].todo \ {cmd[c].at}] \in CmdType
  <2>1. cmd[c] \in CmdType
    BY <1>t
  <2> QED BY <2>1 DEF CmdType, Pc
<1>5. ASSUME NEW c \in Command, Locks(c) PROVE Typed'
  <2>1. OutOf(c) \in Output /\ KeyOf(c) \in Key
    BY <1>5, Refers DEF Locks, Requesting, Holding
  <2>2. lock' \in [Output -> [Key -> Command \cup {Nobody}]]
    <3>1. CASE UNCHANGED lock
      BY <3>1, <1>t
    <3>2. CASE lock' = [lock EXCEPT ![OutOf(c)][KeyOf(c)] = c]
      BY <3>2, <1>t, <2>1, Replaced
    <3> QED BY <1>5, <3>1, <3>2 DEF Locks
  <2>3. cmd' \in [Command -> CmdType]
    <3>1. CASE Goes(c, "ask")
      BY <3>1, <1>3 DEF Pc
    <3>2. CASE cmd' = [cmd EXCEPT ![c] = [cmd[c] EXCEPT !.pc = "next", !.todo = cmd[c].todo \ {cmd[c].at}]]
      BY <3>2, <1>4, <1>t
    <3> QED BY <1>5, <3>1, <3>2 DEF Locks
  <2> QED BY <1>5, <1>t, <2>2, <2>3 DEF Locks, files
<1>6. ASSUME NEW c \in Command, Asks(c) PROVE Typed'
  <2>1. cmd' \in [Command -> CmdType]
    BY <1>6, <1>3, <1>i, <1>g DEF Asks, Ends, Pc
  <2>2. lock' \in [Output -> [Key -> Command \cup {Nobody}]]
    BY <1>6, <1>l, <1>t DEF Asks, Requesting, Holding
  <2> QED BY <1>6, <1>t, <2>1, <2>2 DEF Asks, files
<1>7. ASSUME NEW c \in Command, cmd[c].pc \in Holding, TriesAgain(c) \/ GivesUp(c)
      PROVE  cmd' \in [Command -> CmdType] /\ lock' \in [Output -> [Key -> Command \cup {Nobody}]]
  <2>1. cmd[c] \in CmdType
    BY <1>t
  <2>2. [cmd[c] EXCEPT !.pc = "next", !.todo = cmd[c].todo \ {cmd[c].at}, !.failed = TRUE] \in CmdType
    BY <2>1 DEF CmdType, Pc
  <2>3. cmd[c].tries < Retries => [cmd[c] EXCEPT !.pc = "ask", !.tries = cmd[c].tries + 1] \in CmdType
    <3>1. cmd[c].tries \in 0..Retries /\ (cmd[c].tries < Retries => cmd[c].tries + 1 \in 0..Retries)
      BY <2>1, EvaluationAssumption DEF CmdType
    <3> QED BY <2>1, <3>1 DEF CmdType, Pc
  <2>4. Free(c) => lock' \in [Output -> [Key -> Command \cup {Nobody}]]
    BY <1>7, <1>l DEF Requesting, Holding
  <2>5. CASE GivesUp(c)
    BY <2>5, <1>t, <2>2, <2>4 DEF GivesUp
  <2>6. CASE cmd[c].tries < Retries /\ TriesAgain(c)
    BY <2>6, <1>t, <2>3 DEF TriesAgain
  <2> QED BY <1>7, <2>5, <2>6 DEF TriesAgain
<1>8. ASSUME NEW c \in Command, Answers(c) PROVE Typed'
  <2>1. cmd[c].pc \in Holding /\ "store" \in Pc
    BY <1>8 DEF Answers, Holding, Pc
  <2>2. cmd' \in [Command -> CmdType] /\ lock' \in [Output -> [Key -> Command \cup {Nobody}]]
    BY <1>8, <1>t, <1>3, <1>7, <2>1 DEF Answers
  <2>3. bought' \in [Output -> [Key -> Int]]
    <3>1. OutOf(c) \in Output /\ KeyOf(c) \in Key
      BY <2>1, Refers DEF Requesting, Holding
    <3>2. bought[OutOf(c)][KeyOf(c)] + 1 \in Int
      BY <1>t, <3>1
    <3>3. CASE UNCHANGED bought
      BY <1>t, <3>3
    <3>4. CASE bought' = [bought EXCEPT ![OutOf(c)][KeyOf(c)] = @ + 1]
      BY <1>t, <3>1, <3>2, <3>4
    <3> QED BY <1>8, <3>3, <3>4 DEF Answers
  <2> QED BY <1>8, <1>t, <2>2, <2>3 DEF Answers, files
<1>9. ASSUME NEW c \in Command, Stores(c) PROVE Typed'
  <2>1. /\ cmd[c].pc \in Holding /\ cmd[c].pc \in Requesting \ {"next"} /\ cmd[c].inv.mode \in Response
        /\ OutOf(c) \in Output /\ KeyOf(c) \in Key
    BY <1>9, Refers DEF Stores, Requesting, Holding, Response
  <2>2. cmd' \in [Command -> CmdType] /\ lock' \in [Output -> [Key -> Command \cup {Nobody}]]
    <3>1. CASE TriesAgain(c)
      BY <3>1, <2>1, <1>7
    <3>2. CASE cmd' = [cmd EXCEPT ![c] = [cmd[c] EXCEPT !.pc = "next", !.todo = cmd[c].todo \ {cmd[c].at}]] /\ Free(c)
      BY <3>2, <1>4, <1>t, <1>l, <2>1
    <3> QED BY <1>9, <3>1, <3>2 DEF Stores
  <2>3. cache' \in [Output -> [Key -> Response]]
    <3>1. CASE UNCHANGED cache
      BY <1>t, <3>1
    <3>2. CASE cache' = [cache EXCEPT ![OutOf(c)][KeyOf(c)] = cmd[c].inv.mode]
      BY <1>t, <2>1, <3>2, Replaced
    <3> QED BY <1>9, <3>1, <3>2 DEF Stores
  <2> QED BY <1>9, <1>t, <2>2, <2>3 DEF Stores, files
<1>10. ASSUME NEW c \in Command, WritesSummary(c) \/ WritesScores(c) PROVE Typed'
  <2>1. OutOf(c) \in Output /\ cmd[c].own \in ScoresType
    BY <1>10, Refers DEF WritesSummary, WritesScores, CmdType
  <2>2. cmd' \in [Command -> CmdType]
    BY <1>10, <1>3, <1>i, <1>g DEF WritesSummary, WritesScores, Ends, Pc
  <2> QED BY <1>10, <1>t, <2>1, <2>2 DEF WritesSummary, WritesScores
<1>11. ASSUME NEW c \in Command, ReadsScores(c) \/ ReadsSummary(c) \/ ListsFinalizers(c) PROVE Typed'
  <2>1. OutOf(c) \in Output /\ cmd[c] \in CmdType
    BY <1>11, Refers DEF ReadsScores, ReadsSummary, ListsFinalizers
  <2>2. /\ [cmd[c] EXCEPT !.pc = "cite", !.own = scores[OutOf(c)]] \in CmdType
        /\ [cmd[c] EXCEPT !.pc = "list", !.cites = summary[OutOf(c)]] \in CmdType
        /\ [cmd[c] EXCEPT !.pc = "final", !.list = {t \in Task : fin[t].state = "ready"}] \in CmdType
    BY <1>t, <2>1 DEF CmdType, Pc
  <2> QED BY <1>11, <1>t, <1>g, <2>2 DEF ReadsScores, ReadsSummary, ListsFinalizers, files
<1>12. ASSUME NEW c \in Command, TakesFinalizer(c) PROVE Typed'
  <2>1. ASSUME NEW t \in cmd[c].list PROVE t \in Task /\ [cmd[c] EXCEPT !.pc = "commit", !.at = t, !.list = cmd[c].list \ {t}] \in CmdType
    <3>1. cmd[c] \in CmdType
      BY <1>t
    <3>2. t \in Task
      BY <3>1 DEF CmdType
    <3> QED BY <3>1, <3>2 DEF CmdType, Pc
  <2>2. CASE Ends(c) /\ UNCHANGED fin
    BY <2>2, <1>12, <1>t, <1>i DEF TakesFinalizer, Ends, files
  <2>3. ASSUME NEW t \in cmd[c].list, fin' = [fin EXCEPT ![t] = [@ EXCEPT !.state = "held", !.by = c]],
               cmd' = [cmd EXCEPT ![c] = [@ EXCEPT !.pc = "commit", !.at = t, !.list = cmd[c].list \ {t}]]
        PROVE  Typed'
    <3>1. fin[t] \in FinType /\ t \in Task
      BY <1>t, <2>1
    <3>2. [fin[t] EXCEPT !.state = "held", !.by = c] \in FinType
      BY <3>1 DEF FinType
    <3>3. cmd' \in [Command -> CmdType]
      BY <2>3, <2>1, <1>t
    <3>4. fin' \in [Task -> FinType]
      BY <2>3, <3>1, <3>2, <1>t
    <3> QED BY <1>12, <1>t, <3>3, <3>4 DEF TakesFinalizer, files
  <2> QED BY <1>12, <2>2, <2>3 DEF TakesFinalizer
<1>13. ASSUME NEW c \in Command, CommitsFinalizer(c) PROVE Typed'
  <2>1. cmd[c] \in CmdType /\ OutOf(c) \in Output /\ cmd[c].inv.mode \in {"paid", "fake", "none"}
    BY <1>13, Refers DEF CommitsFinalizer
  <2>2. /\ [cmd[c] EXCEPT !.pc = "final", !.at = Nobody] \in CmdType
        /\ [state |-> "done", by |-> Nobody, mode |-> cmd[c].inv.mode, out |-> OutOf(c),
             row |-> cmd[c].own, cites |-> cmd[c].cites] \in FinType
    BY <2>1 DEF CmdType, FinType, Pc
  <2> QED BY <1>13, <1>t, <1>g, <2>2 DEF CommitsFinalizer, files
<1>14. ASSUME NEW c \in Command, Dies(c) PROVE Typed'
  <2>1. lock' \in [Output -> [Key -> Command \cup {Nobody}]] /\ cmd' \in [Command -> CmdType]
    BY <1>14, <1>t, <1>i DEF Dies, Ends
  <2>2. fin' \in [Task -> FinType]
    <3>1. \A t \in Task : fin[t] \in FinType /\ [fin[t] EXCEPT !.by = Nobody] \in FinType
      BY <1>t DEF FinType
    <3>2. fin' = [t \in Task |-> IF fin[t].by = c THEN [fin[t] EXCEPT !.by = Nobody] ELSE fin[t]]
      BY <1>14 DEF Dies
    <3> QED BY <3>1, <3>2
  <2>3. bought' \in [Output -> [Key -> Int]]
    BY <1>14, <1>t, Refers DEF Dies, Requesting, Holding
  <2> QED BY <1>14, <1>t, <2>1, <2>2, <2>3 DEF Dies, files
<1>15. ASSUME NEW t \in Task, Resumes(t) \/ Drift(t) PROVE Typed'
  <2>1. fin[t] \in FinType
    BY <1>t
  <2>2. [fin[t] EXCEPT !.state = "ready"] \in FinType
    BY <2>1 DEF FinType
  <2> QED BY <1>15, <1>t, <2>2 DEF Resumes, Drift, files
<1>16. CASE UNCHANGED vars
  BY <1>16, <1>t DEF vars, files
<1> QED BY <1>1, <1>2, <1>5, <1>6, <1>8, <1>9, <1>10, <1>11, <1>12, <1>13, <1>14, <1>15, <1>16 DEF Next, Work

\* What the parts of LockInv need of a step of one command.
LEMMA LockFrame ==
  ASSUME Base, NEW c \in Command, Typed', \A d \in Command : d # c => cmd'[d] = cmd[d], PlacedAt(c)',
         \A o \in Output, k \in Key :
           /\ lock'[o][k] = lock[o][k] \/ (lock[o][k] \in {c, Nobody} /\ lock'[o][k] \in {c, Nobody})
           /\ lock'[o][k] = c => cmd'[c].pc \in Holding /\ OutOf(c)' = o /\ KeyOf(c)' = k
           /\ lock'[o][k] # Nobody => cache'[o][k] = "none",
         \A t \in Task :
           /\ fin'[t] = fin[t] \/ fin'[t].by \in {c, Nobody}
           /\ fin'[t].by = c => fin'[t].state = "held" /\ cmd'[c].pc = "commit" /\ cmd'[c].at = t
  PROVE  LockInv'
<1>t. LockInv /\ Nobody \notin Command
  BY EvaluationAssumption DEF Base
<1>1. ASSUME NEW d \in Command PROVE PlacedAt(d)'
  <2>1. CASE d # c
    <3>1. PlacedAt(d) /\ cmd'[d] = cmd[d] /\ OutOf(d)' = OutOf(d) /\ KeyOf(d)' = KeyOf(d)
      BY <1>t, <2>1 DEF LockInv, OutOf, KeyOf
    <3>2. cmd[d].pc \in Holding => lock'[OutOf(d)][KeyOf(d)] = d
      <4>1. cmd[d].pc \in Holding => OutOf(d) \in Output /\ KeyOf(d) \in Key
        BY Refers DEF Requesting, Holding
      <4> QED BY <4>1, <3>1, <1>t, <2>1 DEF PlacedAt
    <3> QED BY <3>1, <3>2 DEF PlacedAt
  <2> QED BY <2>1
<1>2. ASSUME NEW o \in Output, NEW k \in Key, NEW d \in Command, lock'[o][k] = d
      PROVE  (cmd[d].pc \in Holding)' /\ OutOf(d)' = o /\ KeyOf(d)' = k
  <2>1. CASE d # c
    <3>1. lock[o][k] = d /\ cmd'[d] = cmd[d]
      BY <1>2, <1>t, <2>1
    <3> QED BY <1>t, <3>1 DEF LockInv, OutOf, KeyOf
  <2> QED BY <1>2, <2>1
<1>3. ASSUME NEW t \in Task, NEW d \in Command, fin'[t].by = d
      PROVE  fin'[t].state = "held" /\ cmd'[d].pc = "commit" /\ cmd'[d].at = t
  <2>1. CASE d # c
    <3>1. fin'[t] = fin[t] /\ cmd'[d] = cmd[d]
      BY <1>3, <1>t, <2>1
    <3> QED BY <1>3, <1>t, <3>1 DEF LockInv
  <2> QED BY <1>3, <2>1
<1> QED BY <1>1, <1>2, <1>3 DEF LockInv

\* A command that neither holds nor takes anything.
LEMMA LockQuiet ==
  ASSUME Base, NEW c \in Command, Typed', \A d \in Command : d # c => cmd'[d] = cmd[d], PlacedAt(c)',
         cmd[c].pc \notin Holding \cup {"commit"}, cmd'[c].pc \notin Holding \cup {"commit"}, UNCHANGED <<lock, cache, fin>>
  PROVE  LockInv'
<1>1. LockInv
  BY DEF Base
<1>2. \A o \in Output, k \in Key : lock[o][k] # c /\ (lock[o][k] # Nobody => cache[o][k] = "none")
  BY <1>1 DEF LockInv
<1>3. \A t \in Task : fin[t].by # c
  BY <1>1 DEF LockInv
<1> QED BY <1>2, <1>3, LockFrame

\* A command that goes on with the request it holds.
LEMMA LockKept ==
  ASSUME Base, NEW c \in Command, Typed', \A d \in Command : d # c => cmd'[d] = cmd[d],
         cmd[c].pc \in Holding, cmd'[c].pc \in Holding, UNCHANGED <<lock, cache, fin>>,
         cmd'[c].inv = cmd[c].inv, cmd'[c].at = cmd[c].at, cmd'[c].todo = cmd[c].todo,
         cmd'[c].pc = "calling" => cmd[c].inv.mode = "paid"
  PROVE  LockInv'
<1>1. LockInv /\ PlacedAt(c)
  BY DEF Base, LockInv
<1>2. OutOf(c)' = OutOf(c) /\ KeyOf(c)' = KeyOf(c)
  BY DEF OutOf, KeyOf
<1>3. PlacedAt(c)'
  BY <1>1, <1>2 DEF PlacedAt, Requesting, Holding
<1>4. \A o \in Output, k \in Key :
        /\ lock[o][k] = c => OutOf(c) = o /\ KeyOf(c) = k
        /\ lock[o][k] # Nobody => cache[o][k] = "none"
  BY <1>1 DEF LockInv
<1>5. \A t \in Task : fin[t].by # c
  BY <1>1 DEF LockInv, Holding
<1> QED BY <1>2, <1>3, <1>4, <1>5, LockFrame

\* The lock of a request is the only one that its command has.
LEMMA Freed ==
  ASSUME Base, NEW c \in Command, cmd[c].pc \in Holding, Free(c)
  PROVE  \A o \in Output, k \in Key : lock'[o][k] = IF lock[o][k] = c THEN Nobody ELSE lock[o][k]
<1>1. OutOf(c) \in Output /\ KeyOf(c) \in Key
  BY Refers DEF Requesting, Holding
<1>2. lock \in [Output -> [Key -> Command \cup {Nobody}]] /\ lock[OutOf(c)][KeyOf(c)] = c
  BY DEF Base, Typed, LockInv, PlacedAt
<1>3. \A o \in Output, k \in Key : lock[o][k] = c => OutOf(c) = o /\ KeyOf(c) = k
  BY DEF Base, LockInv
<1>4. \A o \in Output, k \in Key : lock'[o][k] = IF o = OutOf(c) /\ k = KeyOf(c) THEN Nobody ELSE lock[o][k]
  BY <1>1, <1>2 DEF Free
<1> QED BY <1>1, <1>2, <1>3, <1>4

LEMMA LockReleased ==
  ASSUME Base, NEW c \in Command, Typed', \A d \in Command : d # c => cmd'[d] = cmd[d], PlacedAt(c)',
         cmd'[c].pc \notin Holding,
         \A o \in Output, k \in Key :
           /\ lock'[o][k] = IF lock[o][k] = c THEN Nobody ELSE lock[o][k]
           /\ cache'[o][k] = cache[o][k] \/ lock[o][k] = c,
         \A t \in Task : fin'[t].by # c /\ (fin'[t] = fin[t] \/ fin'[t].by = Nobody)
  PROVE  LockInv'
<1>1. LockInv /\ Nobody \notin Command
  BY EvaluationAssumption DEF Base
<1>2. \A o \in Output, k \in Key :
        /\ lock'[o][k] = lock[o][k] \/ (lock[o][k] \in {c, Nobody} /\ lock'[o][k] \in {c, Nobody})
        /\ lock'[o][k] # c
        /\ lock'[o][k] # Nobody => cache'[o][k] = "none"
  BY <1>1 DEF LockInv
<1> QED BY <1>2, LockFrame

LEMMA LockInvNext == ASSUME Base, [Next]_vars PROVE LockInv'
<1>t. Typed /\ LockInv /\ Typed' /\ Nobody \notin Command
  BY TypedNext, EvaluationAssumption DEF Base
<1>c. \A c \in Command : cmd[c] \in CmdType /\ cmd \in [Command -> CmdType]
  BY <1>t DEF Typed
<1>i. \A c \in Command : Ends(c) =>
        /\ \A d \in Command : d # c => cmd'[d] = cmd[d]
        /\ cmd'[c].pc = "off" /\ cmd'[c].pc \notin Holding \cup {"commit"} /\ PlacedAt(c)'
  BY <1>c, Resting DEF Ends, PlacedAt, Requesting, Holding
<1>p. \A c \in Command : PlacedAt(c)
  BY <1>t DEF LockInv
<1>1. ASSUME NEW c \in Command, NEW inv \in Invocation, Starts(c, inv) PROVE LockInv'
  <2>1. PICK T \in SUBSET Missing(inv) :
          /\ Cardinality(T) = Atmost(inv.limit, Cardinality(Missing(inv)))
          /\ cmd' = [cmd EXCEPT ![c] = [Idle EXCEPT !.pc = "next", !.inv = inv, !.todo = T, !.gate = QueueGate]]
    BY <1>1 DEF Starts
  <2>2. /\ \A d \in Command : d # c => cmd'[d] = cmd[d]
        /\ cmd'[c].pc = "next" /\ cmd'[c].inv = inv /\ cmd'[c].todo = T
    BY <2>1, <1>c DEF Idle
  <2>3. T # {} => inv.mode \in {"paid", "fake"}
    BY <1>1, EvaluationAssumption DEF Starts, Invocations
  <2>4. PlacedAt(c)'
    BY <2>2, <2>3 DEF PlacedAt, Requesting, Holding
  <2> QED BY <1>1, <1>t, <2>2, <2>4, LockQuiet DEF Starts, Holding
<1>2. ASSUME NEW c \in Command, NextRequest(c) PROVE LockInv'
  <2>1. cmd[c].pc = "next" /\ UNCHANGED <<lock, cache, fin>>
    BY <1>2 DEF NextRequest
  <2>2. ASSUME NEW r \in cmd[c].todo, cmd' = [cmd EXCEPT ![c] = [@ EXCEPT !.pc = "lock", !.at = r, !.tries = 0]]
        PROVE  LockInv'
    <3>1. /\ \A d \in Command : d # c => cmd'[d] = cmd[d]
          /\ cmd'[c].pc = "lock" /\ cmd'[c].inv = cmd[c].inv /\ cmd'[c].todo = cmd[c].todo /\ cmd'[c].at = r
      BY <2>2, <1>c DEF CmdType
    <3>2. PlacedAt(c)'
      BY <1>p, <2>1, <3>1 DEF PlacedAt, Requesting, Holding
    <3> QED BY <1>t, <2>1, <3>1, <3>2, LockQuiet DEF Holding
  <2>3. CASE cmd' = [cmd EXCEPT ![c] = [@ EXCEPT !.pc = "write", !.at = Nobody, !.own = Aggregated(cmd[c].inv)]]
    <3>1. /\ \A d \in Command : d # c => cmd'[d] = cmd[d]
          /\ cmd'[c].pc = "write" /\ cmd'[c].inv = cmd[c].inv
      BY <2>3, <1>c DEF CmdType
    <3>2. PlacedAt(c)'
      BY <1>p, <2>1, <3>1 DEF PlacedAt, Requesting, Holding
    <3> QED BY <1>t, <2>1, <3>1, <3>2, LockQuiet DEF Holding
  <2>4. CASE Ends(c)
    BY <1>t, <1>i, <2>1, <2>4, LockQuiet DEF Holding
  <2> QED BY <1>2, <2>2, <2>3, <2>4 DEF NextRequest
\* The next request of the list.
<1>n. ASSUME NEW c \in Command, NEW f \in BOOLEAN, cmd[c].pc \in Requesting,
             cmd' = [cmd EXCEPT ![c] = [@ EXCEPT !.pc = "next", !.todo = cmd[c].todo \ {cmd[c].at}, !.failed = f]]
      PROVE  /\ \A d \in Command : d # c => cmd'[d] = cmd[d]
             /\ cmd'[c].pc = "next" /\ PlacedAt(c)' /\ cmd'[c].inv = cmd[c].inv
  <2>1. /\ \A d \in Command : d # c => cmd'[d] = cmd[d]
        /\ cmd'[c].pc = "next" /\ cmd'[c].inv = cmd[c].inv /\ cmd'[c].todo = cmd[c].todo \ {cmd[c].at}
    BY <1>n, <1>c DEF CmdType
  <2> QED BY <1>n, <1>p, <2>1 DEF PlacedAt, Requesting, Holding
<1>m. ASSUME NEW c \in Command, cmd[c].pc \in Requesting,
             cmd' = [cmd EXCEPT ![c] = [@ EXCEPT !.pc = "next", !.todo = cmd[c].todo \ {cmd[c].at}]]
      PROVE  /\ \A d \in Command : d # c => cmd'[d] = cmd[d]
             /\ cmd'[c].pc = "next" /\ PlacedAt(c)' /\ cmd'[c].inv = cmd[c].inv
  <2>1. /\ \A d \in Command : d # c => cmd'[d] = cmd[d]
        /\ cmd'[c].pc = "next" /\ cmd'[c].inv = cmd[c].inv /\ cmd'[c].todo = cmd[c].todo \ {cmd[c].at}
    BY <1>m, <1>c DEF CmdType
  <2> QED BY <1>m, <1>p, <2>1 DEF PlacedAt, Requesting, Holding
<1>5. ASSUME NEW c \in Command, Locks(c) PROVE LockInv'
  <2>1. cmd[c].pc = "lock" /\ UNCHANGED <<cache, fin>> /\ lock[OutOf(c)][KeyOf(c)] = Nobody
    BY <1>5 DEF Locks
  <2>2. CASE Cached(c)
    <3>1. /\ \A d \in Command : d # c => cmd'[d] = cmd[d]
          /\ cmd'[c].pc = "next" /\ PlacedAt(c)' /\ UNCHANGED lock
      BY <1>5, <1>m, <2>1, <2>2 DEF Locks, Requesting
    <3> QED BY <1>t, <2>1, <3>1, LockQuiet DEF Holding
  <2>3. CASE ~Cached(c)
    <3>1. OutOf(c) \in Output /\ KeyOf(c) \in Key
      BY <2>1, Refers DEF Requesting, Holding
    <3>2. lock' = [lock EXCEPT ![OutOf(c)][KeyOf(c)] = c] /\ Goes(c, "ask")
      BY <1>5, <2>3 DEF Locks
    <3>3. /\ \A d \in Command : d # c => cmd'[d] = cmd[d]
          /\ cmd'[c].pc = "ask" /\ cmd'[c].inv = cmd[c].inv /\ cmd'[c].todo = cmd[c].todo /\ cmd'[c].at = cmd[c].at
          /\ OutOf(c)' = OutOf(c) /\ KeyOf(c)' = KeyOf(c)
      BY <3>2, <1>c DEF CmdType, Goes, OutOf, KeyOf
    <3>4. \A o \in Output, k \in Key : lock'[o][k] = IF o = OutOf(c) /\ k = KeyOf(c) THEN c ELSE lock[o][k]
      BY <1>t, <3>1, <3>2 DEF Typed
    <3>5. PlacedAt(c)'
      BY <1>p, <2>1, <3>1, <3>3, <3>4 DEF PlacedAt, Requesting, Holding
    <3>6. \A o \in Output, k \in Key : lock[o][k] # c /\ (lock[o][k] # Nobody => cache[o][k] = "none")
      BY <1>t, <2>1 DEF LockInv, Holding
    <3>7. \A t \in Task : fin[t].by # c
      BY <1>t, <2>1 DEF LockInv
    <3>8. cache[OutOf(c)][KeyOf(c)] = "none"
      BY <2>3 DEF Cached
    <3> QED BY <1>t, <2>1, <3>3, <3>4, <3>5, <3>6, <3>7, <3>8, LockFrame DEF Holding
  <2> QED BY <2>2, <2>3
\* The command leaves a request it holds, and nothing is stored.
<1>r. ASSUME NEW c \in Command, cmd[c].pc \in Holding, Free(c), \A d \in Command : d # c => cmd'[d] = cmd[d],
             cmd'[c].pc \notin Holding, PlacedAt(c)', UNCHANGED fin,
             \A o \in Output, k \in Key : cache'[o][k] = cache[o][k] \/ lock[o][k] = c
      PROVE  LockInv'
  <2>1. \A t \in Task : fin[t].by # c
    BY <1>r, <1>t DEF LockInv, Holding
  <2>2. \A o \in Output, k \in Key : lock'[o][k] = IF lock[o][k] = c THEN Nobody ELSE lock[o][k]
    BY <1>r, Freed
  <2> QED BY <1>r, <1>t, <2>1, <2>2, LockReleased
<1>6. ASSUME NEW c \in Command, Asks(c) PROVE LockInv'
  <2>1. cmd[c].pc = "ask" /\ UNCHANGED <<cache, fin>> /\ cmd[c].pc \in Holding
    BY <1>6 DEF Asks, Holding
  <2>2. CASE Ends(c) /\ Free(c)
    BY <1>r, <1>i, <2>1, <2>2
  <2>3. ASSUME NEW p \in {"store", "calling"}, Goes(c, p), p = "calling" => cmd[c].inv.mode # "fake", UNCHANGED lock
        PROVE  LockInv'
    <3>1. /\ \A d \in Command : d # c => cmd'[d] = cmd[d]
          /\ cmd'[c].pc = p /\ cmd'[c].inv = cmd[c].inv /\ cmd'[c].todo = cmd[c].todo /\ cmd'[c].at = cmd[c].at
      BY <2>3, <1>c DEF CmdType, Goes
    <3>2. cmd[c].inv.mode \in {"paid", "fake"}
      BY <2>1, Refers DEF Requesting, Holding
    <3> QED BY <1>t, <2>1, <2>3, <3>1, <3>2, LockKept DEF Holding
  <2> QED BY <1>6, <2>2, <2>3 DEF Asks
<1>7. ASSUME NEW c \in Command, cmd[c].pc \in Holding, TriesAgain(c) \/ GivesUp(c), UNCHANGED <<cache, fin>>
      PROVE  LockInv'
  <2>1. CASE GivesUp(c)
    <3>1. /\ \A d \in Command : d # c => cmd'[d] = cmd[d]
          /\ cmd'[c].pc = "next" /\ PlacedAt(c)' /\ Free(c)
      BY <1>7, <1>n, <2>1 DEF GivesUp, Requesting
    <3> QED BY <1>7, <1>r, <3>1 DEF Holding
  <2>2. CASE cmd' = [cmd EXCEPT ![c] = [@ EXCEPT !.pc = "ask", !.tries = cmd[c].tries + 1]] /\ UNCHANGED lock
    <3>1. /\ \A d \in Command : d # c => cmd'[d] = cmd[d]
          /\ cmd'[c].pc = "ask" /\ cmd'[c].inv = cmd[c].inv /\ cmd'[c].todo = cmd[c].todo /\ cmd'[c].at = cmd[c].at
      BY <2>2, <1>c DEF CmdType
    <3> QED BY <1>7, <1>t, <2>2, <3>1, LockKept DEF Holding
  <2> QED BY <1>7, <2>1, <2>2 DEF TriesAgain
<1>8. ASSUME NEW c \in Command, Answers(c) PROVE LockInv'
  <2>1. cmd[c].pc = "calling" /\ UNCHANGED <<cache, fin>> /\ cmd[c].pc \in Holding
    BY <1>8 DEF Answers, Holding
  <2>2. CASE Goes(c, "store") /\ UNCHANGED lock
    <3>1. /\ \A d \in Command : d # c => cmd'[d] = cmd[d]
          /\ cmd'[c].pc = "store" /\ cmd'[c].inv = cmd[c].inv /\ cmd'[c].todo = cmd[c].todo /\ cmd'[c].at = cmd[c].at
      BY <2>2, <1>c DEF CmdType, Goes
    <3> QED BY <1>t, <2>1, <2>2, <3>1, LockKept DEF Holding
  <2> QED BY <1>8, <1>7, <2>1, <2>2 DEF Answers
<1>9. ASSUME NEW c \in Command, Stores(c) PROVE LockInv'
  <2>1. cmd[c].pc = "store" /\ UNCHANGED fin /\ cmd[c].pc \in Holding
    BY <1>9 DEF Stores, Holding
  <2>2. CASE TriesAgain(c) /\ UNCHANGED cache
    BY <1>7, <2>1, <2>2
  <2>3. CASE /\ cache' = [cache EXCEPT ![OutOf(c)][KeyOf(c)] = cmd[c].inv.mode] /\ Free(c)
             /\ cmd' = [cmd EXCEPT ![c] = [@ EXCEPT !.pc = "next", !.todo = cmd[c].todo \ {cmd[c].at}]]
    <3>1. OutOf(c) \in Output /\ KeyOf(c) \in Key /\ lock[OutOf(c)][KeyOf(c)] = c
      BY <1>p, <2>1, Refers DEF Requesting, Holding, PlacedAt
    <3>2. \A o \in Output, k \in Key : cache'[o][k] = cache[o][k] \/ lock[o][k] = c
      BY <1>t, <2>3, <3>1 DEF Typed
    <3>3. /\ \A d \in Command : d # c => cmd'[d] = cmd[d]
          /\ cmd'[c].pc = "next" /\ PlacedAt(c)'
      BY <1>m, <2>1, <2>3 DEF Requesting
    <3> QED BY <1>r, <2>1, <2>3, <3>2, <3>3 DEF Holding
  <2> QED BY <1>9, <2>2, <2>3 DEF Stores
\* The steps after the requests that leave the finalizers alone.
<1>q. ASSUME NEW c \in Command, cmd[c].pc \notin Requesting \cup {"off", "commit"}, \A d \in Command : d # c => cmd'[d] = cmd[d],
             cmd'[c].pc \notin Requesting \cup {"commit"}, cmd'[c].inv = cmd[c].inv, UNCHANGED <<lock, cache, fin>>
      PROVE  LockInv'
  <2>1. PlacedAt(c)'
    BY <1>q, <1>p DEF PlacedAt, Requesting, Holding
  <2> QED BY <1>q, <1>t, <2>1, LockQuiet DEF Requesting
<1>10. ASSUME NEW c \in Command, WritesSummary(c) \/ WritesScores(c) \/ ReadsScores(c) \/ ReadsSummary(c) \/ ListsFinalizers(c)
       PROVE  LockInv'
  <2>1. /\ cmd[c].pc \in {"write", "write_tasks", "read", "cite", "list"} /\ UNCHANGED <<lock, cache, fin>>
        /\ cmd[c].pc \notin Requesting \cup {"off", "commit"}
    BY <1>10 DEF WritesSummary, WritesScores, ReadsScores, ReadsSummary, ListsFinalizers, Requesting, Holding, files
  <2>2. CASE Ends(c)
    BY <1>t, <1>i, <2>1, <2>2, LockQuiet DEF Holding
  <2>3. ASSUME ~Ends(c)
        PROVE  /\ \A d \in Command : d # c => cmd'[d] = cmd[d]
               /\ cmd'[c].pc \in {"write_tasks", "read", "cite", "list", "final"} /\ cmd'[c].inv = cmd[c].inv
    <3>1. ASSUME NEW p \in {"write_tasks", "read"}, Goes(c, p)
          PROVE  /\ \A d \in Command : d # c => cmd'[d] = cmd[d]
                 /\ cmd'[c].pc = p /\ cmd'[c].inv = cmd[c].inv
      BY <3>1, <1>c DEF Goes, CmdType
    <3>2. CASE WritesSummary(c) \/ WritesScores(c)
      <4>1. \E p \in {"write_tasks", "read"} : Goes(c, p)
        BY <3>2, <2>3 DEF WritesSummary, WritesScores
      <4> QED BY <4>1, <3>1
    <3>3. CASE ReadsScores(c) \/ ReadsSummary(c) \/ ListsFinalizers(c)
      BY <3>3, <1>c, Moves DEF Work
    <3> QED BY <1>10, <3>2, <3>3
  <2> QED BY <1>q, <2>1, <2>2, <2>3 DEF Requesting, Holding
<1>12. ASSUME NEW c \in Command, TakesFinalizer(c) PROVE LockInv'
  <2>1. cmd[c].pc = "final" /\ UNCHANGED <<lock, cache>>
    BY <1>12 DEF TakesFinalizer
  <2>2. CASE Ends(c) /\ UNCHANGED fin
    BY <1>t, <1>i, <2>1, <2>2, LockQuiet DEF Holding
  <2>3. ASSUME NEW t \in cmd[c].list, fin' = [fin EXCEPT ![t] = [@ EXCEPT !.state = "held", !.by = c]],
               cmd' = [cmd EXCEPT ![c] = [@ EXCEPT !.pc = "commit", !.at = t, !.list = cmd[c].list \ {t}]]
        PROVE  LockInv'
    <3>1. t \in Task /\ fin \in [Task -> FinType] /\ fin[t] \in FinType
      BY <1>c, <1>t DEF CmdType, Typed
    <3>2. /\ \A d \in Command : d # c => cmd'[d] = cmd[d]
          /\ cmd'[c].pc = "commit" /\ cmd'[c].inv = cmd[c].inv /\ cmd'[c].at = t
      BY <2>3, <1>c DEF CmdType
    <3>3. fin'[t].state = "held" /\ fin'[t].by = c /\ \A u \in Task : u # t => fin'[u] = fin[u]
      BY <2>3, <3>1 DEF FinType
    <3>4. PlacedAt(c)'
      BY <1>p, <2>1, <3>2 DEF PlacedAt, Requesting, Holding
    <3>5. \A o \in Output, k \in Key : lock[o][k] # c /\ (lock[o][k] # Nobody => cache[o][k] = "none")
      BY <1>t, <2>1 DEF LockInv, Holding
    <3>6. \A u \in Task : fin[u].by # c
      BY <1>t, <2>1 DEF LockInv
    <3> QED BY <1>t, <2>1, <3>2, <3>3, <3>4, <3>5, <3>6, LockFrame
  <2> QED BY <1>12, <2>2, <2>3 DEF TakesFinalizer
<1>13. ASSUME NEW c \in Command, CommitsFinalizer(c) PROVE LockInv'
  <2>1. cmd[c].pc = "commit" /\ UNCHANGED <<lock, cache>>
    BY <1>13 DEF CommitsFinalizer
  <2>2. /\ \A d \in Command : d # c => cmd'[d] = cmd[d]
        /\ cmd'[c].pc = "final" /\ cmd'[c].inv = cmd[c].inv
    BY <1>13, <1>c DEF CommitsFinalizer, CmdType
  <2>3. \A t \in Task : fin[t].by = c => t = cmd[c].at
    BY <1>t DEF LockInv
  <2>4. \A t \in Task : IF t = cmd[c].at THEN fin'[t].by = Nobody ELSE fin'[t] = fin[t]
    BY <1>13, <1>t DEF CommitsFinalizer, Typed
  <2>5. PlacedAt(c)'
    BY <1>p, <2>1, <2>2 DEF PlacedAt, Requesting, Holding
  <2>6. \A o \in Output, k \in Key : lock[o][k] # c /\ (lock[o][k] # Nobody => cache[o][k] = "none")
    BY <1>t, <2>1 DEF LockInv, Holding
  <2> QED BY <1>t, <2>1, <2>2, <2>3, <2>4, <2>5, <2>6, LockFrame
<1>14. ASSUME NEW c \in Command, Dies(c) PROVE LockInv'
  <2>1. \A o \in Output, k \in Key : lock'[o][k] = IF lock[o][k] = c THEN Nobody ELSE lock[o][k]
    BY <1>14 DEF Dies
  <2>2. \A t \in Task : fin'[t].by # c /\ (fin'[t] = fin[t] \/ fin'[t].by = Nobody)
    BY <1>14, <1>t DEF Dies, Typed, FinType
  <2>3. Ends(c) /\ UNCHANGED cache
    BY <1>14 DEF Dies
  <2> QED BY <1>t, <1>i, <2>1, <2>2, <2>3, LockReleased
<1>15. ASSUME NEW t \in Task, Resumes(t) \/ Drift(t) PROVE LockInv'
  <2>1. /\ UNCHANGED <<lock, cache, cmd>>
        /\ \A u \in Task : fin'[u] = fin[u] \/ (fin'[u].by = Nobody)
    BY <1>15, <1>t DEF Resumes, Drift, Typed, FinType
  <2>2. \A c \in Command : PlacedAt(c)'
    BY <1>p, <2>1 DEF PlacedAt, OutOf, KeyOf
  <2> QED BY <1>t, <2>1, <2>2 DEF LockInv, OutOf, KeyOf
<1>16. CASE UNCHANGED vars
  <2>1. UNCHANGED <<lock, cache, cmd, fin>>
    BY <1>16 DEF vars
  <2>2. \A c \in Command : PlacedAt(c)'
    BY <1>p, <2>1 DEF PlacedAt, OutOf, KeyOf
  <2> QED BY <1>t, <2>1, <2>2 DEF LockInv, OutOf, KeyOf
<1> QED BY <1>1, <1>2, <1>5, <1>6, <1>8, <1>9, <1>10, <1>12, <1>13, <1>14, <1>15, <1>16 DEF Next, Work

LEMMA BaseInvariant == Spec => []Base
<1>1. Init => Base
  BY Initially DEF Base
<1>2. Base /\ [Next]_vars => Base'
  BY TypedNext, LockInvNext DEF Base
<1> QED BY <1>1, <1>2, PTL DEF Spec

\* The variables have their types; a lock belongs to a command that is at that
\* request, and a finalizer in hand to the command about to commit it.
THEOREM TypeCorrect == Spec => []TypeOK
<1> SUFFICES ASSUME Base PROVE TypeOK
  BY BaseInvariant, PTL
<1>t. Typed /\ LockInv /\ Nobody \notin Command
  BY EvaluationAssumption DEF Base
<1>1. /\ cache \in [Output -> [Key -> Response]] /\ lock \in [Output -> [Key -> Command \cup {Nobody}]]
      /\ drifted \subseteq Task /\ starts \in 0..MaxStarts
  BY <1>t DEF Typed
<1>2. \A c \in Command : /\ cmd[c].pc \in Pc /\ cmd[c].todo \subseteq Request
                         /\ cmd[c].tries \in 0..Retries /\ cmd[c].list \subseteq Task
  BY <1>t DEF Typed, CmdType
<1>3. ASSUME NEW o \in Output, NEW k \in Key, lock[o][k] # Nobody
      PROVE  LET c == cmd[lock[o][k]]
             IN  c.pc \in {"ask", "calling", "store"} /\ c.inv.out = o /\ <<c.inv.set, c.at>> = k
  <2>1. lock[o][k] \in Command
    BY <1>3, <1>t DEF Typed
  <2> QED BY <2>1, <1>t DEF LockInv, Holding, OutOf, KeyOf
<1>4. \A t \in Task : fin[t] \in FinType
  BY <1>t DEF Typed
<1>5. \A t \in Task : fin[t].state \in {"ready", "held", "done"} /\ fin[t].by \in Command \cup {Nobody}
  BY <1>4 DEF FinType
<1>6. \A t \in Task : fin[t].by # Nobody => fin[t].state = "held" /\ cmd[fin[t].by].at = t
  BY <1>t, <1>5 DEF LockInv
<1> QED BY <1>1, <1>2, <1>3, <1>5, <1>6 DEF TypeOK

-----------------------------------------------------------------------------
(* What is paid for.                                                       *)

\* Apart from the writing of a response, a step of one command keeps PaidInv when
\* an answer of its own is counted as long as it is on its way.
LEMMA PaidFrame ==
  ASSUME Base, PaidInv, NEW c \in Command, \A d \in Command : d # c => cmd'[d] = cmd[d],
         \A o \in Output, k \in Key :
           /\ \A d \in Command : d # c => (lock'[o][k] = d <=> lock[o][k] = d)
           /\ lock[o][k] # c /\ lock'[o][k] # c => cache'[o][k] = cache[o][k] /\ bought'[o][k] = bought[o][k]
           /\ lock[o][k] = c \/ lock'[o][k] = c =>
                bought'[o][k] = IF cache'[o][k] = "paid" \/ (lock'[o][k] = c /\ cmd'[c].pc = "store" /\ cmd'[c].inv.mode = "paid")
                                THEN 1 ELSE 0
  PROVE  PaidInv'
<1> SUFFICES ASSUME NEW o \in Output, NEW k \in Key
             PROVE  bought'[o][k] = IF cache'[o][k] = "paid" \/ Storing(o, k)' THEN 1 ELSE 0
  BY DEF PaidInv
<1>1. CASE lock[o][k] # c /\ lock'[o][k] # c
  <2>1. Storing(o, k)' <=> Storing(o, k)
    BY <1>1 DEF Storing
  <2> QED BY <1>1, <2>1 DEF PaidInv
<1>2. CASE lock[o][k] = c \/ lock'[o][k] = c
  <2>1. Storing(o, k)' <=> lock'[o][k] = c /\ cmd'[c].pc = "store" /\ cmd'[c].inv.mode = "paid"
    <3>1. \A d \in Command : lock'[o][k] = d => d = c
      BY <1>2
    <3> QED BY <3>1 DEF Storing
  <2> QED BY <1>2, <2>1
<1> QED BY <1>1, <1>2

LEMMA PaidInvNext == ASSUME ~StoreFaults, Base, PaidInv, [Next]_vars PROVE PaidInv'
<1>t. Typed /\ LockInv /\ Nobody \notin Command
  BY EvaluationAssumption DEF Base
<1>c. \A c \in Command : cmd[c] \in CmdType /\ cmd \in [Command -> CmdType] /\ PlacedAt(c)
  BY <1>t DEF Typed, LockInv
\* What is bought under a lock, and where its holder is.
<1>h. \A o \in Output, k \in Key, c \in Command : lock[o][k] = c =>
        /\ cache[o][k] = "none" /\ cmd[c].pc \in Holding /\ OutOf(c) = o /\ KeyOf(c) = k
        /\ bought[o][k] = IF cmd[c].pc = "store" /\ cmd[c].inv.mode = "paid" THEN 1 ELSE 0
  BY <1>t DEF LockInv, PaidInv, Storing
<1>e. \A c \in Command : Ends(c) => cmd'[c].pc = "off" /\ \A d \in Command : d # c => cmd'[d] = cmd[d]
  BY <1>c, Resting DEF Ends
\* A step of a command that holds nothing and takes nothing, or nothing it could store.
<1>q. ASSUME NEW c \in Command, \A d \in Command : d # c => cmd'[d] = cmd[d], UNCHANGED <<cache, bought>>,
             \A o \in Output, k \in Key : lock'[o][k] = lock[o][k] \/ (lock[o][k] \in {c, Nobody} /\ lock'[o][k] \in {c, Nobody}),
             cmd'[c].pc # "store", cmd[c].pc = "store" => cmd[c].inv.mode # "paid",
             \A o \in Output, k \in Key : lock[o][k] = Nobody /\ lock'[o][k] = c => cache[o][k] = "none"
      PROVE  PaidInv'
  <2>1. \A o \in Output, k \in Key : lock[o][k] = Nobody => ~Storing(o, k)
    BY <1>t DEF Storing
  <2>2. \A o \in Output, k \in Key : lock[o][k] = c \/ lock'[o][k] = c => cache[o][k] = "none" /\ bought[o][k] = 0
    BY <1>q, <1>h, <2>1 DEF PaidInv
  <2> QED BY <1>q, <1>t, <2>2, PaidFrame
<1>1. ASSUME NEW c \in Command, NEW inv \in Invocation, Starts(c, inv) PROVE PaidInv'
  <2>1. UNCHANGED <<cache, bought, lock>> /\ cmd[c].pc = "off"
    BY <1>1 DEF Starts
  <2>2. PICK v : v.pc = "next" /\ cmd' = [cmd EXCEPT ![c] = v]
    BY <1>1 DEF Starts, Idle
  <2>3. cmd'[c].pc = "next" /\ \A d \in Command : d # c => cmd'[d] = cmd[d]
    BY <2>2, <1>c
  <2> QED BY <1>q, <1>t, <2>1, <2>3
<1>2. ASSUME NEW c \in Command, NextRequest(c) PROVE PaidInv'
  <2>1. cmd'[c].pc \in {"lock", "off", "write"} /\ \A d \in Command : d # c => cmd'[d] = cmd[d]
    BY <1>2, <1>c, Moves DEF Work
  <2> QED BY <1>2, <1>q, <1>t, <2>1 DEF NextRequest
<1>5. ASSUME NEW c \in Command, Locks(c) PROVE PaidInv'
  <2>1. cmd'[c].pc \in {"next", "ask"} /\ \A d \in Command : d # c => cmd'[d] = cmd[d]
    BY <1>5, <1>c, Moves DEF Work
  <2>2. OutOf(c) \in Output /\ KeyOf(c) \in Key /\ lock[OutOf(c)][KeyOf(c)] = Nobody
    BY <1>5, Refers DEF Locks, Requesting, Holding
  <2>3. ~Cached(c) => \A o \in Output, k \in Key : lock'[o][k] = IF o = OutOf(c) /\ k = KeyOf(c) THEN c ELSE lock[o][k]
    BY <1>5, <1>t, <2>2 DEF Locks, Typed
  <2>4. \A o \in Output, k \in Key :
          lock'[o][k] = lock[o][k] \/ (lock[o][k] = Nobody /\ lock'[o][k] = c /\ cache[o][k] = "none")
    <3>1. CASE Cached(c)
      BY <1>5, <3>1 DEF Locks
    <3>2. CASE ~Cached(c)
      BY <2>2, <2>3, <3>2 DEF Cached
    <3> QED BY <3>1, <3>2
  <2> QED BY <1>5, <1>q, <1>t, <2>1, <2>4 DEF Locks
<1>f. ASSUME NEW c \in Command, cmd[c].pc \in Holding, Free(c)
      PROVE  \A o \in Output, k \in Key : lock'[o][k] = IF lock[o][k] = c THEN Nobody ELSE lock[o][k]
  BY <1>f, Freed
\* An answer that is not kept, or was never given.
<1>7. ASSUME NEW c \in Command, cmd[c].pc \in Holding, TriesAgain(c) \/ GivesUp(c) \/ (Ends(c) /\ Free(c)),
             cmd[c].pc # "store", UNCHANGED <<cache, bought>>
      PROVE  PaidInv'
  <2>1. cmd'[c].pc \in {"next", "ask", "off"} /\ \A d \in Command : d # c => cmd'[d] = cmd[d]
    <3>1. TriesAgain(c) \/ GivesUp(c) => \A d \in Command : d # c => cmd'[d] = cmd[d]
      BY <1>c DEF TriesAgain, GivesUp
    <3> QED BY <1>7, <1>c, <1>e, <3>1, Moves
  <2>2. Free(c) \/ UNCHANGED lock
    BY <1>7 DEF TriesAgain, GivesUp
  <2> QED BY <1>7, <1>q, <1>t, <1>f, <2>1, <2>2
<1>g. ASSUME NEW c \in Command, NEW p \in Pc, Goes(c, p)
      PROVE  cmd'[c].pc = p /\ cmd'[c].inv = cmd[c].inv /\ \A d \in Command : d # c => cmd'[d] = cmd[d]
  BY <1>g, <1>c DEF Goes, CmdType
<1>6. ASSUME NEW c \in Command, Asks(c) PROVE PaidInv'
  <2>1. cmd[c].pc = "ask" /\ UNCHANGED <<cache, bought>> /\ cmd[c].pc \in Holding
    BY <1>6 DEF Asks, Holding
  <2>2. CASE Ends(c) /\ Free(c)
    BY <1>7, <2>1, <2>2
  <2>3. CASE Goes(c, "calling") /\ UNCHANGED lock
    BY <1>g, <1>q, <1>t, <2>1, <2>3 DEF Pc
  <2>4. CASE cmd[c].inv.mode = "fake" /\ Goes(c, "store") /\ UNCHANGED lock
    <3>1. cmd'[c].pc = "store" /\ cmd'[c].inv.mode = "fake" /\ \A d \in Command : d # c => cmd'[d] = cmd[d]
      BY <1>g, <2>4 DEF Pc
    <3> QED BY <1>h, <2>1, <2>4, <3>1, PaidFrame
  <2> QED BY <1>6, <2>2, <2>3, <2>4 DEF Asks
<1>8. ASSUME NEW c \in Command, Answers(c) PROVE PaidInv'
  <2>1. cmd[c].pc = "calling" /\ UNCHANGED cache /\ cmd[c].pc \in Holding
    BY <1>8 DEF Answers, Holding
  <2>2. CASE Goes(c, "store") /\ UNCHANGED lock /\ bought' = [bought EXCEPT ![OutOf(c)][KeyOf(c)] = @ + 1]
    <3>1. cmd'[c].pc = "store" /\ cmd'[c].inv.mode = "paid" /\ \A d \in Command : d # c => cmd'[d] = cmd[d]
      BY <1>g, <1>c, <2>1, <2>2 DEF Pc, PlacedAt
    <3>2. OutOf(c) \in Output /\ KeyOf(c) \in Key /\ lock[OutOf(c)][KeyOf(c)] = c
      BY <1>c, <2>1, Refers DEF Requesting, Holding, PlacedAt
    <3>3. \A o \in Output, k \in Key :
            bought'[o][k] = IF o = OutOf(c) /\ k = KeyOf(c) THEN bought[o][k] + 1 ELSE bought[o][k]
      BY <1>t, <2>2, <3>2 DEF Typed
    <3> QED BY <1>h, <2>1, <2>2, <3>1, <3>2, <3>3, PaidFrame
  <2> QED BY <1>8, <1>7, <2>1, <2>2 DEF Answers
<1>9. ASSUME NEW c \in Command, Stores(c) PROVE PaidInv'
  <2>1. /\ cmd[c].pc = "store" /\ cmd[c].pc \in Holding /\ UNCHANGED bought /\ Free(c)
        /\ cache' = [cache EXCEPT ![OutOf(c)][KeyOf(c)] = cmd[c].inv.mode]
        /\ cmd' = [cmd EXCEPT ![c] = [@ EXCEPT !.pc = "next", !.todo = cmd[c].todo \ {cmd[c].at}]]
    BY <1>9 DEF Stores, Holding
  <2>2. cmd'[c].pc = "next" /\ \A d \in Command : d # c => cmd'[d] = cmd[d]
    BY <1>c, <2>1 DEF CmdType
  <2>3. /\ OutOf(c) \in Output /\ KeyOf(c) \in Key /\ lock[OutOf(c)][KeyOf(c)] = c
        /\ cmd[c].inv.mode \in {"paid", "fake"}
    BY <1>c, <2>1, Refers DEF Requesting, Holding, PlacedAt
  <2>4. \A o \in Output, k \in Key :
          cache'[o][k] = IF o = OutOf(c) /\ k = KeyOf(c) THEN cmd[c].inv.mode ELSE cache[o][k]
    BY <1>t, <2>1, <2>3 DEF Typed
  <2>5. \A o \in Output, k \in Key : lock[o][k] = c => o = OutOf(c) /\ k = KeyOf(c)
    BY <1>h
  <2>6. bought[OutOf(c)][KeyOf(c)] = IF cmd[c].inv.mode = "paid" THEN 1 ELSE 0
    BY <1>h, <2>1, <2>3
  <2>7. \A o \in Output, k \in Key : lock'[o][k] = IF lock[o][k] = c THEN Nobody ELSE lock[o][k]
    BY <1>f, <2>1
  <2> QED BY <1>t, <2>1, <2>2, <2>3, <2>4, <2>5, <2>6, <2>7, PaidFrame
<1>14. ASSUME NEW c \in Command, Dies(c) PROVE PaidInv'
  <2>1. \A o \in Output, k \in Key : lock'[o][k] = IF lock[o][k] = c THEN Nobody ELSE lock[o][k]
    BY <1>14 DEF Dies
  <2>2. UNCHANGED cache /\ cmd'[c].pc = "off" /\ \A d \in Command : d # c => cmd'[d] = cmd[d]
    BY <1>14, <1>e DEF Dies
  <2>3. CASE cmd[c].pc = "store" /\ cmd[c].inv.mode = "paid"
    <3>1. OutOf(c) \in Output /\ KeyOf(c) \in Key /\ lock[OutOf(c)][KeyOf(c)] = c
      BY <1>c, <2>3, Refers DEF Requesting, Holding, PlacedAt
    <3>2. bought' = [bought EXCEPT ![OutOf(c)][KeyOf(c)] = @ - 1]
      BY <1>14, <2>3 DEF Dies
    <3>3. \A o \in Output, k \in Key :
            bought'[o][k] = IF o = OutOf(c) /\ k = KeyOf(c) THEN bought[o][k] - 1 ELSE bought[o][k]
      BY <1>t, <3>1, <3>2 DEF Typed
    <3> QED BY <1>h, <1>t, <2>1, <2>2, <2>3, <3>1, <3>3, PaidFrame
  <2>4. CASE ~(cmd[c].pc = "store" /\ cmd[c].inv.mode = "paid")
    <3>1. UNCHANGED bought
      BY <1>14, <2>4 DEF Dies
    <3> QED BY <1>q, <1>t, <2>1, <2>2, <2>4, <3>1
  <2> QED BY <2>3, <2>4
\* The rest of a command asks for nothing.
<1>10. ASSUME NEW c \in Command, WritesSummary(c) \/ WritesScores(c) \/ ReadsScores(c) \/ ReadsSummary(c) \/ ListsFinalizers(c)
              \/ TakesFinalizer(c) \/ CommitsFinalizer(c)
       PROVE  PaidInv'
  <2>1. UNCHANGED <<cache, bought, lock>> /\ cmd[c].pc # "store"
    BY <1>10 DEF WritesSummary, WritesScores, ReadsScores, ReadsSummary, ListsFinalizers, TakesFinalizer, CommitsFinalizer, files
  <2>2. CASE WritesSummary(c) \/ WritesScores(c)
    <3>1. (\E p \in {"write_tasks", "read"} : Goes(c, p)) \/ Ends(c)
      BY <2>2 DEF WritesSummary, WritesScores
    <3>2. cmd'[c].pc # "store" /\ \A d \in Command : d # c => cmd'[d] = cmd[d]
      BY <3>1, <1>e, <1>g DEF Pc
    <3> QED BY <1>q, <1>t, <2>1, <3>2
  <2>3. CASE ReadsScores(c) \/ ReadsSummary(c) \/ ListsFinalizers(c)
    <3>1. cmd'[c].pc # "store" /\ \A d \in Command : d # c => cmd'[d] = cmd[d]
      BY <2>3, <1>c, Moves DEF Work
    <3> QED BY <1>q, <1>t, <2>1, <3>1
  <2>4. CASE TakesFinalizer(c) \/ CommitsFinalizer(c)
    <3>1. cmd'[c].pc # "store" /\ \A d \in Command : d # c => cmd'[d] = cmd[d]
      BY <2>4, <1>c, Moves DEF Work
    <3> QED BY <1>q, <1>t, <2>1, <3>1
  <2> QED BY <1>10, <2>2, <2>3, <2>4
<1>15. ASSUME UNCHANGED <<cmd, lock, cache, bought>> PROVE PaidInv'
  BY <1>15 DEF PaidInv, Storing
<1>16. (\E t \in Task : Resumes(t) \/ Drift(t)) \/ UNCHANGED vars => UNCHANGED <<cmd, lock, cache, bought>>
  BY DEF Resumes, Drift, vars
<1> QED BY <1>1, <1>2, <1>5, <1>6, <1>8, <1>9, <1>10, <1>14, <1>15, <1>16 DEF Next, Work

\* Whatever number of commands work on the same requests and die, no valid answer
\* is paid for a second time while the first is kept: the cache is looked at again
\* under the lock.  It needs that a response, once it has come, can be written.
THEOREM NeverPaidTwice == ~StoreFaults /\ Spec => []PaidOnce
<1> SUFFICES ASSUME ~StoreFaults PROVE Spec => []PaidOnce
  OBVIOUS
<1>1. Base /\ PaidInv /\ [Next]_vars => PaidInv'
  BY PaidInvNext
<1>2. PaidInv => PaidOnce
  BY DEF PaidInv, PaidOnce
<1> QED BY Initially, BaseInvariant, <1>1, <1>2, PTL DEF Spec

-----------------------------------------------------------------------------
(* What a finalizer commits.                                               *)

\* A response that was stored is never replaced.
LEMMA CacheGrows ==
  ASSUME Base, [Next]_vars, NEW o \in Output, NEW k \in Key, cache[o][k] # "none"
  PROVE  cache'[o][k] = cache[o][k]
<1>t. Typed /\ LockInv /\ Nobody \notin Command
  BY EvaluationAssumption DEF Base
<1>1. ASSUME NEW c \in Command, Stores(c) PROVE cache'[o][k] = cache[o][k]
  <2>1. cmd[c].pc = "store" /\ (UNCHANGED cache \/ cache' = [cache EXCEPT ![OutOf(c)][KeyOf(c)] = cmd[c].inv.mode])
    BY <1>1 DEF Stores
  <2>2. OutOf(c) \in Output /\ KeyOf(c) \in Key /\ lock[OutOf(c)][KeyOf(c)] = c
    BY <1>t, <2>1, Refers DEF Requesting, Holding, LockInv, PlacedAt
  <2>3. o # OutOf(c) \/ k # KeyOf(c)
    BY <1>t, <2>2 DEF LockInv
  <2>4. CASE cache' = [cache EXCEPT ![OutOf(c)][KeyOf(c)] = cmd[c].inv.mode]
    BY <1>t, <2>2, <2>3, <2>4 DEF Typed
  <2> QED BY <2>1, <2>4
<1>2. \A c \in Command : Work(c) /\ ~Stores(c) => UNCHANGED cache
  BY DEF Work, NextRequest, Locks, Asks, Answers, WritesSummary, WritesScores, ReadsScores, ReadsSummary,
     ListsFinalizers, TakesFinalizer, CommitsFinalizer
<1>3. \A c \in Command : Dies(c) \/ (\E inv \in Invocation : Starts(c, inv)) => UNCHANGED cache
  BY DEF Dies, Starts
<1>4. (\E t \in Task : Resumes(t) \/ Drift(t)) \/ UNCHANGED vars => UNCHANGED cache
  BY DEF Resumes, Drift, vars
<1> QED BY <1>1, <1>2, <1>3, <1>4 DEF Next

LEMMA StoredStays ==
  ASSUME Base, [Next]_vars, NEW s, NEW o \in Output, Stored(s, o)
  PROVE  \A r \in Request : s.got[r] # "none" => s.set \in Setting /\ s.got[r] = cache'[o][<<s.set, r>>]
<1>1. ASSUME NEW r \in Request, s.got[r] # "none"
      PROVE  s.set \in Setting /\ s.got[r] = cache'[o][<<s.set, r>>]
  <2>1. s.set \in Setting /\ s.got[r] = cache[o][<<s.set, r>>] /\ <<s.set, r>> \in Key
    BY <1>1 DEF Stored, Key
  <2> QED BY <1>1, <2>1, CacheGrows
<1> QED BY <1>1

\* A step of one command that adds nothing to a file but what is in the cache,
\* and commits nothing but what it has in hand.
LEMMA ScoreFrame ==
  ASSUME Base, ScoreInv, [Next]_vars, NEW c \in Command,
         \A d \in Command : d # c => cmd'[d] = cmd[d],
         \A o \in Output : summary'[o] = summary[o] \/ Stored(summary'[o], o),
         \A o \in Output : scores'[o] = scores[o] \/ Stored(scores'[o], o),
         cmd'[c].pc # "off" =>
           /\ cmd'[c].inv.out \in Output
           /\ Stored(cmd'[c].own, cmd'[c].inv.out) /\ Stored(cmd'[c].cites, cmd'[c].inv.out),
         cmd'[c].pc = "commit" => TaskReady(cmd'[c].own, cmd'[c].at),
         \A t \in Task : fin'[t].state = "done" =>
           \/ fin'[t] = fin[t]
           \/ /\ fin'[t].out \in Output /\ TaskReady(fin'[t].row, t)
              /\ Stored(fin'[t].row, fin'[t].out) /\ Stored(fin'[t].cites, fin'[t].out)
  PROVE  ScoreInv'
<1> DEFINE Later(s, o) == \A r \in Request : s.got[r] # "none" => s.set \in Setting /\ s.got[r] = cache'[o][<<s.set, r>>]
<1>1. \A s, o : o \in Output /\ Stored(s, o) => Later(s, o)
  BY StoredStays
<1>2. \A o \in Output : Later(summary'[o], o) /\ Later(scores'[o], o)
  BY <1>1 DEF ScoreInv
<1>3. ASSUME NEW d \in Command, cmd'[d].pc # "off"
      PROVE  Later(cmd'[d].own, cmd'[d].inv.out) /\ Later(cmd'[d].cites, cmd'[d].inv.out)
  <2>1. CASE d = c
    BY <1>1, <1>3, <2>1
  <2>2. CASE d # c
    <3>1. OutOf(d) \in Output /\ Stored(cmd[d].own, OutOf(d)) /\ Stored(cmd[d].cites, OutOf(d)) /\ cmd'[d] = cmd[d]
      BY <1>3, <2>2, Refers DEF ScoreInv
    <3> QED BY <1>1, <3>1 DEF OutOf
  <2> QED BY <2>1, <2>2
<1>4. \A d \in Command : cmd'[d].pc = "commit" => TaskReady(cmd'[d].own, cmd'[d].at)
  BY DEF ScoreInv
<1>5. ASSUME NEW t \in Task, fin'[t].state = "done"
      PROVE  /\ fin'[t].out \in Output /\ TaskReady(fin'[t].row, t)
             /\ Later(fin'[t].row, fin'[t].out) /\ Later(fin'[t].cites, fin'[t].out)
  <2>1. /\ fin'[t].out \in Output /\ TaskReady(fin'[t].row, t)
        /\ Stored(fin'[t].row, fin'[t].out) /\ Stored(fin'[t].cites, fin'[t].out)
    BY <1>5 DEF ScoreInv
  <2> QED BY <1>1, <2>1
<1> QED BY <1>2, <1>3, <1>4, <1>5 DEF ScoreInv, Stored, OutOf, TaskReady

LEMMA ScoreInvNext == ASSUME Base, ScoreInv, [Next]_vars PROVE ScoreInv'
<1>t. Typed /\ cmd \in [Command -> CmdType]
  BY DEF Base, Typed
<1>c. \A c \in Command :
        /\ cmd[c] \in CmdType
        /\ cmd[c].pc # "off" =>
             cmd[c].inv.out \in Output /\ Stored(cmd[c].own, cmd[c].inv.out) /\ Stored(cmd[c].cites, cmd[c].inv.out)
  BY <1>t, Refers DEF ScoreInv, OutOf
<1>n. \A o : Stored(NoScores, o)
  BY DEF NoScores, Stored
\* A command that ends.
<1>e. ASSUME NEW c \in Command, Ends(c), UNCHANGED <<summary, scores, fin>> PROVE ScoreInv'
  <2>1. cmd'[c].pc = "off" /\ \A d \in Command : d # c => cmd'[d] = cmd[d]
    BY <1>e, <1>t, <1>c, Resting DEF Ends
  <2> QED BY <1>e, <2>1, ScoreFrame
\* A command that goes on with what it has in hand.
<1>m. ASSUME NEW c \in Command, UNCHANGED <<summary, scores, fin>>, cmd[c].pc # "off",
             \A d \in Command : d # c => cmd'[d] = cmd[d], cmd'[c].pc # "commit",
             cmd'[c].inv = cmd[c].inv, cmd'[c].own = cmd[c].own, cmd'[c].cites = cmd[c].cites
      PROVE  ScoreInv'
  BY <1>m, <1>c, ScoreFrame
<1>g. ASSUME NEW c \in Command, NEW p \in Pc, Goes(c, p)
      PROVE  /\ \A d \in Command : d # c => cmd'[d] = cmd[d]
             /\ cmd'[c].pc = p /\ cmd'[c].inv = cmd[c].inv /\ cmd'[c].own = cmd[c].own /\ cmd'[c].cites = cmd[c].cites
  BY <1>g, <1>t, <1>c DEF Goes, CmdType
<1>f. ASSUME NEW c \in Command, UNCHANGED <<summary, scores, fin>>, cmd[c].pc # "off", GivesUp(c) \/ TriesAgain(c)
      PROVE  ScoreInv'
  <2>1. CASE cmd' = [cmd EXCEPT ![c] = [@ EXCEPT !.pc = "next", !.todo = cmd[c].todo \ {cmd[c].at}, !.failed = TRUE]]
    <3>1. /\ \A d \in Command : d # c => cmd'[d] = cmd[d]
          /\ cmd'[c].pc = "next" /\ cmd'[c].inv = cmd[c].inv /\ cmd'[c].own = cmd[c].own /\ cmd'[c].cites = cmd[c].cites
      BY <2>1, <1>t, <1>c DEF CmdType
    <3> QED BY <1>f, <1>m, <3>1
  <2>2. CASE cmd' = [cmd EXCEPT ![c] = [@ EXCEPT !.pc = "ask", !.tries = cmd[c].tries + 1]]
    <3>1. /\ \A d \in Command : d # c => cmd'[d] = cmd[d]
          /\ cmd'[c].pc = "ask" /\ cmd'[c].inv = cmd[c].inv /\ cmd'[c].own = cmd[c].own /\ cmd'[c].cites = cmd[c].cites
      BY <2>2, <1>t, <1>c DEF CmdType
    <3> QED BY <1>f, <1>m, <3>1
  <2> QED BY <1>f, <2>1, <2>2 DEF GivesUp, TriesAgain
\* A command done with a request.
<1>d. ASSUME NEW c \in Command, UNCHANGED <<summary, scores, fin>>, cmd[c].pc # "off",
             cmd' = [cmd EXCEPT ![c] = [@ EXCEPT !.pc = "next", !.todo = cmd[c].todo \ {cmd[c].at}]]
      PROVE  ScoreInv'
  <2>1. /\ \A d \in Command : d # c => cmd'[d] = cmd[d]
        /\ cmd'[c].pc = "next" /\ cmd'[c].inv = cmd[c].inv /\ cmd'[c].own = cmd[c].own /\ cmd'[c].cites = cmd[c].cites
    BY <1>d, <1>t, <1>c DEF CmdType
  <2> QED BY <1>d, <1>m, <2>1
<1>1. ASSUME NEW c \in Command, NEW inv \in Invocation, Starts(c, inv) PROVE ScoreInv'
  <2>1. PICK T : cmd' = [cmd EXCEPT ![c] = [Idle EXCEPT !.pc = "next", !.inv = inv, !.todo = T, !.gate = QueueGate]]
    BY <1>1 DEF Starts
  <2>2. /\ \A d \in Command : d # c => cmd'[d] = cmd[d]
        /\ cmd'[c].pc = "next" /\ cmd'[c].inv = inv /\ cmd'[c].own = NoScores /\ cmd'[c].cites = NoScores
    BY <2>1, <1>t DEF Idle
  <2>3. inv.out \in Output /\ UNCHANGED <<summary, scores, fin>>
    BY <1>1, EvaluationAssumption DEF Invocations, Starts, files
  <2> QED BY <1>n, <2>2, <2>3, ScoreFrame
<1>2. ASSUME NEW c \in Command, NextRequest(c) PROVE ScoreInv'
  <2>1. UNCHANGED <<summary, scores, fin>> /\ cmd[c].pc = "next"
    BY <1>2 DEF NextRequest, files
  <2>2. ASSUME NEW r, cmd' = [cmd EXCEPT ![c] = [@ EXCEPT !.pc = "lock", !.at = r, !.tries = 0]] PROVE ScoreInv'
    <3>1. /\ \A d \in Command : d # c => cmd'[d] = cmd[d]
          /\ cmd'[c].pc = "lock" /\ cmd'[c].inv = cmd[c].inv /\ cmd'[c].own = cmd[c].own /\ cmd'[c].cites = cmd[c].cites
      BY <2>2, <1>t, <1>c DEF CmdType
    <3> QED BY <1>m, <2>1, <3>1
  <2>3. CASE cmd' = [cmd EXCEPT ![c] = [@ EXCEPT !.pc = "write", !.at = Nobody, !.own = Aggregated(cmd[c].inv)]]
    <3>1. /\ \A d \in Command : d # c => cmd'[d] = cmd[d]
          /\ cmd'[c].pc = "write" /\ cmd'[c].inv = cmd[c].inv /\ cmd'[c].own = Aggregated(cmd[c].inv)
          /\ cmd'[c].cites = cmd[c].cites
      BY <2>3, <1>t, <1>c DEF CmdType
    <3>2. cmd[c].inv.set \in Setting
      BY <2>1, Refers
    <3>3. Stored(Aggregated(cmd[c].inv), cmd[c].inv.out)
      BY <3>2 DEF Stored, Aggregated
    <3> QED BY <1>c, <2>1, <3>1, <3>3, ScoreFrame
  <2> QED BY <1>2, <1>e, <2>1, <2>2, <2>3 DEF NextRequest
<1>3. ASSUME NEW c \in Command, Locks(c) \/ Asks(c) \/ Answers(c) \/ Stores(c) PROVE ScoreInv'
  <2>1. UNCHANGED <<summary, scores, fin>> /\ cmd[c].pc # "off"
    BY <1>3 DEF Locks, Asks, Answers, Stores, files
  <2>2. ASSUME NEW p \in {"ask", "store", "calling"}, Goes(c, p) PROVE ScoreInv'
    BY <1>g, <1>m, <2>1, <2>2 DEF Pc
  <2> QED BY <1>3, <1>d, <1>e, <1>f, <2>1, <2>2 DEF Locks, Asks, Answers, Stores
<1>4. ASSUME NEW c \in Command, WritesSummary(c) \/ WritesScores(c) PROVE ScoreInv'
  <2>1. /\ UNCHANGED fin /\ cmd[c].pc # "off"
        /\ summary' = summary \/ summary' = [summary EXCEPT ![OutOf(c)] = cmd[c].own]
        /\ scores' = scores \/ scores' = [scores EXCEPT ![OutOf(c)] = cmd[c].own]
        /\ (\E p \in {"write_tasks", "read"} : Goes(c, p)) \/ Ends(c)
    BY <1>4 DEF WritesSummary, WritesScores
  <2>2. /\ \A o \in Output : summary'[o] = summary[o] \/ Stored(summary'[o], o)
        /\ \A o \in Output : scores'[o] = scores[o] \/ Stored(scores'[o], o)
    BY <1>c, <1>t, <2>1 DEF Typed, OutOf
  <2>3. CASE \E p \in {"write_tasks", "read"} : Goes(c, p)
    BY <1>c, <1>g, <2>1, <2>2, <2>3, ScoreFrame DEF Pc
  <2>4. CASE Ends(c)
    <3>1. cmd'[c].pc = "off" /\ \A d \in Command : d # c => cmd'[d] = cmd[d]
      BY <2>4, <1>t, <1>c, Resting DEF Ends
    <3> QED BY <2>1, <2>2, <3>1, ScoreFrame
  <2> QED BY <2>1, <2>3, <2>4
<1>5. ASSUME NEW c \in Command, ReadsScores(c) \/ ReadsSummary(c) \/ ListsFinalizers(c) PROVE ScoreInv'
  <2>1. UNCHANGED <<summary, scores, fin>> /\ cmd[c].pc # "off" /\ cmd[c].inv.out \in Output
    BY <1>5, <1>c DEF ReadsScores, ReadsSummary, ListsFinalizers, files
  <2>2. Stored(summary[OutOf(c)], cmd[c].inv.out) /\ Stored(scores[OutOf(c)], cmd[c].inv.out)
    BY <2>1 DEF ScoreInv, OutOf
  <2>3. /\ \A d \in Command : d # c => cmd'[d] = cmd[d]
        /\ cmd'[c].pc # "commit" /\ cmd'[c].inv = cmd[c].inv
        /\ cmd'[c].own \in {cmd[c].own, scores[OutOf(c)]} /\ cmd'[c].cites \in {cmd[c].cites, summary[OutOf(c)]}
    <3>1. CASE ReadsScores(c)
      BY <3>1, <1>c DEF ReadsScores, CmdType
    <3>2. CASE ReadsSummary(c)
      BY <3>2, <1>c DEF ReadsSummary, CmdType
    <3>3. ASSUME NEW L, cmd' = [cmd EXCEPT ![c] = [@ EXCEPT !.pc = "final", !.list = L]]
          PROVE  /\ \A d \in Command : d # c => cmd'[d] = cmd[d]
                 /\ cmd'[c].pc = "final" /\ cmd'[c].inv = cmd[c].inv
                 /\ cmd'[c].own = cmd[c].own /\ cmd'[c].cites = cmd[c].cites
      BY <3>3, <1>t, <1>c DEF CmdType
    <3> QED BY <1>5, <3>1, <3>2, <3>3 DEF ListsFinalizers
  <2> QED BY <1>c, <2>1, <2>2, <2>3, ScoreFrame
<1>6. ASSUME NEW c \in Command, TakesFinalizer(c) PROVE ScoreInv'
  <2>1. UNCHANGED <<summary, scores>> /\ cmd[c].pc # "off"
    BY <1>6 DEF TakesFinalizer, files
  <2>2. ASSUME NEW t \in cmd[c].list, TaskReady(cmd[c].own, t),
               fin' = [fin EXCEPT ![t] = [@ EXCEPT !.state = "held", !.by = c]],
               cmd' = [cmd EXCEPT ![c] = [@ EXCEPT !.pc = "commit", !.at = t, !.list = cmd[c].list \ {t}]]
        PROVE  ScoreInv'
    <3>1. /\ \A d \in Command : d # c => cmd'[d] = cmd[d]
          /\ cmd'[c].inv = cmd[c].inv /\ cmd'[c].own = cmd[c].own /\ cmd'[c].cites = cmd[c].cites /\ cmd'[c].at = t
      BY <2>2, <1>t, <1>c DEF CmdType
    <3>2. \A u \in Task : fin'[u].state = "done" => fin'[u] = fin[u]
      BY <2>2, <1>t DEF Typed, FinType
    <3> QED BY <1>c, <2>1, <2>2, <3>1, <3>2, ScoreFrame
  <2> QED BY <1>6, <1>e, <2>1, <2>2 DEF TakesFinalizer
<1>7. ASSUME NEW c \in Command, CommitsFinalizer(c) PROVE ScoreInv'
  <2>1. UNCHANGED <<summary, scores>> /\ cmd[c].pc = "commit" /\ TaskReady(cmd[c].own, cmd[c].at)
    BY <1>7 DEF CommitsFinalizer, files, ScoreInv
  <2>2. /\ \A d \in Command : d # c => cmd'[d] = cmd[d]
        /\ cmd'[c].pc = "final" /\ cmd'[c].inv = cmd[c].inv /\ cmd'[c].own = cmd[c].own /\ cmd'[c].cites = cmd[c].cites
    BY <1>7, <1>t, <1>c DEF CommitsFinalizer, CmdType
  <2>3. \A u \in Task :
          \/ fin'[u] = fin[u]
          \/ /\ u = cmd[c].at /\ fin'[u].out = cmd[c].inv.out
             /\ fin'[u].row = cmd[c].own /\ fin'[u].cites = cmd[c].cites
    BY <1>7, <1>t DEF CommitsFinalizer, Typed, OutOf
  <2> QED BY <1>c, <2>1, <2>2, <2>3, ScoreFrame
<1>8. ASSUME NEW c \in Command, Dies(c) PROVE ScoreInv'
  <2>1. cmd'[c].pc = "off" /\ \A d \in Command : d # c => cmd'[d] = cmd[d]
    BY <1>8, <1>t, <1>c, Resting DEF Dies, Ends
  <2>2. UNCHANGED <<summary, scores>>
    BY <1>8 DEF Dies, files
  <2>3. ASSUME NEW t \in Task, fin'[t].state = "done" PROVE fin'[t] = fin[t]
    <3>1. fin[t].by # c \/ fin[t].state = "held"
      BY DEF Base, LockInv
    <3>2. fin'[t] = fin[t] \/ (fin[t].by = c /\ fin'[t] = [fin[t] EXCEPT !.by = Nobody])
      BY <1>8 DEF Dies
    <3>3. fin[t] \in FinType
      BY <1>t DEF Typed
    <3> QED BY <2>3, <3>1, <3>2, <3>3 DEF FinType
  <2> QED BY <2>1, <2>2, <2>3, ScoreFrame
<1>9. ASSUME UNCHANGED <<cmd, cache, summary, scores>>, \A u \in Task : fin'[u].state = "done" => fin'[u] = fin[u]
      PROVE  ScoreInv'
  <2>1. \A s, o : Stored(s, o) => Stored(s, o)'
    BY <1>9 DEF Stored
  <2>2. /\ \A o \in Output : summary'[o] = summary[o] /\ scores'[o] = scores[o]
        /\ \A c \in Command : cmd'[c] = cmd[c]
    BY <1>9
  <2>3. \A t \in Task : fin'[t].state = "done" =>
          /\ fin'[t].out \in Output /\ TaskReady(fin'[t].row, t)
          /\ Stored(fin'[t].row, fin'[t].out) /\ Stored(fin'[t].cites, fin'[t].out)
    BY <1>9 DEF ScoreInv
  <2> QED BY <1>9, <2>1, <2>2, <2>3 DEF ScoreInv, OutOf
<1>10. ASSUME NEW t \in Task, Resumes(t) \/ Drift(t) PROVE ScoreInv'
  <2>1. \A u \in Task : fin'[u].state = "done" => fin'[u] = fin[u]
    BY <1>10, <1>t DEF Resumes, Drift, Typed, FinType
  <2> QED BY <1>9, <1>10, <2>1 DEF Resumes, Drift, files
<1>11. UNCHANGED vars => ScoreInv'
  BY <1>9 DEF vars, files
<1> QED BY <1>1, <1>2, <1>3, <1>4, <1>5, <1>6, <1>7, <1>8, <1>10, <1>11 DEF Next, Work

\* However the commands of a directory are called, whatever fails, dies or runs
\* beside: a committed finalizer has every response of its own task, and no
\* response that is not in the cache under the settings named; a failure never
\* passes for a score.
THEOREM CommittedScores == Spec => []RowsStored
<1>1. Base /\ ScoreInv /\ [Next]_vars => ScoreInv'
  BY ScoreInvNext
<1>2. ScoreInv => RowsStored
  BY DEF ScoreInv, RowsStored
<1> QED BY Initially, BaseInvariant, <1>1, <1>2, PTL DEF Spec
=============================================================================
