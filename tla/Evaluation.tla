----------------------------- MODULE Evaluation -----------------------------
(***************************************************************************)
(* The commands "batch evaluate" and the last part of "run-all"            *)
(* (insertany3d/cli.py, insertany3d/evaluation): the scores of a batch     *)
(* whose evidence is committed are asked for, one paid request after the   *)
(* other, cached under a key of their content, added up, and committed as  *)
(* the result of the finalizer of each task.  Several commands may run at  *)
(* once, each with its own settings and output directory, and any of them  *)
(* may die.                                                                *)
(*                                                                         *)
(* A response is only where it comes from; the settings stand for model,   *)
(* evaluator version, rubric and dimensions.  The leases of the finalizers *)
(* are BatchRun's: here one is held until it is committed or its holder    *)
(* has died and a resume has given it back.                                *)
(***************************************************************************)
EXTENDS Integers, FiniteSets

CONSTANTS
  Task,
  Repeats,      \* --repeats: requests per task
  Setting, Output,
  Invocation,   \* what the commands are called with
  Command,      \* the processes that evaluate
  Nobody,
  Retries,      \* --retries: further calls after a failed one
  MaxStarts,    \* bound: how often a command is started
  StoreFaults,  \* may the writing of a response fail?
  Drifts        \* may the files of an evaluation manifest change?

Request  == Task \X (0..Repeats - 1)
Response == {"none", "paid", "fake"}
Key      == Setting \X Request

\* mode: --allow-paid-api, --fake-score, or neither; limit: how many requests
\* may be made; fits: do --expected-tasks, --expected-scenes and
\* --tasks-per-scene describe this batch?
Invocations == [set : Setting, out : Output, mode : {"paid", "fake", "none"},
                limit : Nat, fits : BOOLEAN]

ASSUME EvaluationAssumption ==
  /\ IsFiniteSet(Task) /\ Repeats \in Nat \ {0}
  /\ Invocation \subseteq Invocations
  /\ Nobody \notin Command
  /\ Retries \in Nat /\ MaxStarts \in Nat
  /\ StoreFaults \in BOOLEAN /\ Drifts \in BOOLEAN

VARIABLES
  cache,     \* cache[o][k]: the response file of key k in directory o
  lock,      \* lock[o][k]: who holds the lock file of the request
  bought,    \* bought[o][k]: valid answers paid for and not lost with a process
  drifted,   \* tasks whose evidence no longer matches its manifest
  summary,   \* summary[o]: batch_summary.json
  scores,    \* scores[o]: task_scores.jsonl
  fin,       \* the finalizer of each task, with what was committed
  cmd,       \* the commands
  starts

vars == <<cache, lock, bought, drifted, summary, scores, fin, cmd, starts>>
files == <<summary, scores>>

-----------------------------------------------------------------------------

\* aggregate_gpteval: what was asked, and where each response comes from.
NoScores == [set |-> "-", got |-> [r \in Request |-> "none"], fits |-> FALSE]
Aggregated(inv) == [set  |-> inv.set,
                    got  |-> [r \in Request |-> cache[inv.out][<<inv.set, r>>]],
                    fits |-> inv.fits]
\* _task_score and the status of the summary.
TaskReady(s, t) == \A n \in 0..Repeats - 1 : s.got[<<t, n>>] # "none"
\* Mutant of Ready: the numbers of tasks and scenes expected are not looked at.
ReadyAsFound(s) == \A t \in Task : TaskReady(s, t)
Ready(s) == s.fits /\ \A t \in Task : TaskReady(s, t)

Idle == [pc |-> "off", inv |-> Nobody, gate |-> "-", todo |-> {}, at |-> Nobody, tries |-> 0,
         failed |-> FALSE, own |-> NoScores, cites |-> NoScores, list |-> {}]
Open == [state |-> "ready", by |-> Nobody, mode |-> "-", out |-> Nobody,
         row |-> NoScores, cites |-> NoScores]

Init ==
  /\ cache = [o \in Output |-> [k \in Key |-> "none"]]
  /\ lock = [o \in Output |-> [k \in Key |-> Nobody]]
  /\ bought = [o \in Output |-> [k \in Key |-> 0]]
  /\ drifted = {}
  /\ summary = [o \in Output |-> NoScores] /\ scores = [o \in Output |-> NoScores]
  /\ fin = [t \in Task |-> Open]
  /\ cmd = [c \in Command |-> Idle]
  /\ starts = 0

Pc == {"off", "next", "lock", "ask", "calling", "store", "write", "write_tasks", "read", "cite",
       "list", "final", "commit"}

\* Types, and who holds what: a lock belongs to a command at that request, a
\* finalizer in hand to a command that is about to commit it, or to a dead one.
TypeOK ==
  /\ cache \in [Output -> [Key -> Response]]
  /\ lock \in [Output -> [Key -> Command \cup {Nobody}]]
  /\ drifted \subseteq Task
  /\ \A c \in Command : /\ cmd[c].pc \in Pc /\ cmd[c].todo \subseteq Request
                        /\ cmd[c].tries \in 0..Retries /\ cmd[c].list \subseteq Task
  /\ \A o \in Output, k \in Key : lock[o][k] # Nobody =>
        LET c == cmd[lock[o][k]]
        IN  c.pc \in {"ask", "calling", "store"} /\ c.inv.out = o /\ <<c.inv.set, c.at>> = k
  /\ \A t \in Task : fin[t].state \in {"ready", "held", "done"}
  /\ \A t \in Task : fin[t].by # Nobody => fin[t].state = "held" /\ cmd[fin[t].by].at = t
  /\ starts \in 0..MaxStarts

-----------------------------------------------------------------------------
(* The start: gate, committed manifests, plan, and the first look at the   *)
(* cache.                                                                  *)

Atmost(n, m) == IF n < m THEN n ELSE m
KeyOf(c) == <<cmd[c].inv.set, cmd[c].at>>
OutOf(c) == cmd[c].inv.out
Ends(c) == cmd' = [cmd EXCEPT ![c] = Idle]
Goes(c, p) == cmd' = [cmd EXCEPT ![c].pc = p]
Free(c) == lock' = [lock EXCEPT ![OutOf(c)][KeyOf(c)] = Nobody]

\* _evaluation_queue_gate.
QueueGate == CASE \A t \in Task : fin[t].state = "done" -> "already_finalized"
               [] \E t \in Task : fin[t].state = "held" -> "refused"
               [] OTHER -> "ready"

\* _committed_evaluation_manifest_paths and what load_evaluation_manifest checks:
\* manifests, images and cameras of all tasks are those that were committed.
EvidenceIntact == drifted = {}

Missing(inv) == {r \in Request : cache[inv.out][<<inv.set, r>>] = "none"}

\* The commands that are refused (a finalizer that is neither ready nor done,
\* files that do not match, requests to make and no leave to make them) change
\* nothing and are left out.
Starts(c, inv) ==
  /\ cmd[c].pc = "off" /\ starts < MaxStarts
  /\ QueueGate # "refused" /\ EvidenceIntact
  /\ Missing(inv) = {} \/ inv.mode # "none"
  /\ \E T \in SUBSET Missing(inv) :
       /\ Cardinality(T) = Atmost(inv.limit, Cardinality(Missing(inv)))
       /\ cmd' = [cmd EXCEPT ![c] =
                    [Idle EXCEPT !.pc = "next", !.inv = inv, !.todo = T,
                       !.gate = QueueGate]]
  /\ starts' = starts + 1
  /\ UNCHANGED <<cache, lock, bought, drifted, files, fin>>

-----------------------------------------------------------------------------
(* execute_gpteval_requests.                                               *)

\* The next request; after the last a failure ends the command, and success
\* goes on to the summary, added up from the cache.
NextRequest(c) ==
  /\ cmd[c].pc = "next"
  /\ \/ \E r \in cmd[c].todo : cmd' = [cmd EXCEPT ![c] = [@ EXCEPT !.pc = "lock", !.at = r, !.tries = 0]]
     \/ cmd[c].todo = {} /\ cmd[c].failed /\ Ends(c)
     \/ /\ cmd[c].todo = {} /\ ~cmd[c].failed
        /\ cmd' = [cmd EXCEPT ![c] = [@ EXCEPT !.pc = "write", !.at = Nobody, !.own = Aggregated(cmd[c].inv)]]
  /\ UNCHANGED <<cache, lock, bought, drifted, files, fin, starts>>

\* Mutant of Cached: under the lock the cache is not looked at again.
CachedUnseen(c) == FALSE
Cached(c) == cache[OutOf(c)][KeyOf(c)] # "none"

\* request_lock, and the cache again: another command may have stored it.
Locks(c) ==
  /\ cmd[c].pc = "lock"
  /\ lock[OutOf(c)][KeyOf(c)] = Nobody
  /\ IF Cached(c)
     THEN /\ cmd' = [cmd EXCEPT ![c] = [@ EXCEPT !.pc = "next", !.todo = cmd[c].todo \ {cmd[c].at}]]
          /\ UNCHANGED lock
     ELSE /\ lock' = [lock EXCEPT ![OutOf(c)][KeyOf(c)] = c]
          /\ Goes(c, "ask")
  /\ UNCHANGED <<cache, bought, drifted, files, fin, starts>>

\* Before each call the files are checked once more; if they do not match, the
\* command ends and the lock is free.
Asks(c) ==
  /\ cmd[c].pc = "ask"
  /\ IF cmd[c].at[1] \in drifted THEN Ends(c) /\ Free(c)
     ELSE Goes(c, IF cmd[c].inv.mode = "fake" THEN "store" ELSE "calling") /\ UNCHANGED lock
  /\ UNCHANGED <<cache, bought, drifted, files, fin, starts>>

\* Mutant of GivesUp: the lock is kept when the last attempt has failed.
GivesUpLocked(c) ==
  /\ cmd' = [cmd EXCEPT ![c] = [@ EXCEPT !.pc = "next", !.todo = cmd[c].todo \ {cmd[c].at}, !.failed = TRUE]]
  /\ UNCHANGED lock
\* store_error: the request has failed, the command goes on with the next one.
GivesUp(c) ==
  /\ cmd' = [cmd EXCEPT ![c] = [@ EXCEPT !.pc = "next", !.todo = cmd[c].todo \ {cmd[c].at}, !.failed = TRUE]]
  /\ Free(c)

TriesAgain(c) ==
  IF cmd[c].tries < Retries
  THEN cmd' = [cmd EXCEPT ![c] = [@ EXCEPT !.pc = "ask", !.tries = cmd[c].tries + 1]] /\ UNCHANGED lock
  ELSE GivesUp(c)

\* A valid answer, one that may be asked for again (HTTP 408, 425, 429, 5xx, no
\* connection, an answer without usable scores), or one that may not.
Answers(c) ==
  /\ cmd[c].pc = "calling"
  /\ \/ /\ bought' = [bought EXCEPT ![OutOf(c)][KeyOf(c)] = @ + 1]
        /\ Goes(c, "store") /\ UNCHANGED lock
     \/ TriesAgain(c) /\ UNCHANGED bought
     \/ GivesUp(c) /\ UNCHANGED bought
  /\ UNCHANGED <<cache, drifted, files, fin, starts>>

\* ResponseCache.store, inside the try that repeats the call.
Stores(c) ==
  /\ cmd[c].pc = "store"
  /\ \/ /\ cache' = [cache EXCEPT ![OutOf(c)][KeyOf(c)] = cmd[c].inv.mode]
        /\ cmd' = [cmd EXCEPT ![c] = [@ EXCEPT !.pc = "next", !.todo = cmd[c].todo \ {cmd[c].at}]]
        /\ Free(c)
     \/ StoreFaults /\ TriesAgain(c) /\ UNCHANGED cache
  /\ UNCHANGED <<bought, drifted, files, fin, starts>>

-----------------------------------------------------------------------------
(* write_gpteval_summary: each file is replaced at once, one after the     *)
(* other.                                                                  *)

WritesSummary(c) ==
  /\ cmd[c].pc = "write"
  /\ summary' = [summary EXCEPT ![OutOf(c)] = cmd[c].own]
  /\ Goes(c, "write_tasks")
  /\ UNCHANGED <<cache, lock, bought, drifted, scores, fin, starts>>

\* Only a summary that is ready, of a batch that was open at the start, is
\* committed.
WritesScores(c) ==
  /\ cmd[c].pc = "write_tasks"
  /\ scores' = [scores EXCEPT ![OutOf(c)] = cmd[c].own]
  /\ IF Ready(cmd[c].own) /\ cmd[c].gate = "ready" THEN Goes(c, "read") ELSE Ends(c)
  /\ UNCHANGED <<cache, lock, bought, drifted, summary, fin, starts>>

-----------------------------------------------------------------------------
(* _commit_evaluation_stages: the two files are read back, the open        *)
(* finalizers are listed, leased and committed one by one.                 *)

ReadsScores(c) ==
  /\ cmd[c].pc = "read"
  /\ cmd' = [cmd EXCEPT ![c] = [@ EXCEPT !.pc = "cite", !.own = scores[OutOf(c)]]]
  /\ UNCHANGED <<cache, lock, bought, drifted, files, fin, starts>>

ReadsSummary(c) ==
  /\ cmd[c].pc = "cite"
  /\ cmd' = [cmd EXCEPT ![c] = [@ EXCEPT !.pc = "list", !.cites = summary[OutOf(c)]]]
  /\ UNCHANGED <<cache, lock, bought, drifted, files, fin, starts>>

ListsFinalizers(c) ==
  /\ cmd[c].pc = "list"
  /\ cmd' = [cmd EXCEPT ![c] = [@ EXCEPT !.pc = "final", !.list = {t \in Task : fin[t].state = "ready"}]]
  /\ UNCHANGED <<cache, lock, bought, drifted, files, fin, starts>>

\* A task without all of its scores, or whose finalizer is no longer ready, ends
\* the command.
TakesFinalizer(c) ==
  /\ cmd[c].pc = "final"
  /\ \/ cmd[c].list = {} /\ Ends(c) /\ UNCHANGED fin
     \/ \E t \in cmd[c].list :
          IF TaskReady(cmd[c].own, t) /\ fin[t].state = "ready"
          THEN /\ fin' = [fin EXCEPT ![t] = [@ EXCEPT !.state = "held", !.by = c]]
               /\ cmd' = [cmd EXCEPT ![c] = [@ EXCEPT !.pc = "commit", !.at = t, !.list = cmd[c].list \ {t}]]
          ELSE Ends(c) /\ UNCHANGED fin
  /\ UNCHANGED <<cache, lock, bought, drifted, files, starts>>

CommitsFinalizer(c) ==
  /\ cmd[c].pc = "commit"
  /\ fin' = [fin EXCEPT ![cmd[c].at] =
               [state |-> "done", by |-> Nobody, mode |-> cmd[c].inv.mode, out |-> OutOf(c),
                row |-> cmd[c].own, cites |-> cmd[c].cites]]
  /\ cmd' = [cmd EXCEPT ![c] = [@ EXCEPT !.pc = "final", !.at = Nobody]]
  /\ UNCHANGED <<cache, lock, bought, drifted, files, starts>>

-----------------------------------------------------------------------------
(* What happens to a command and around it.                                *)

\* The operating system frees the locks of a dead process; an answer it had not
\* stored is lost.
Dies(c) ==
  /\ cmd[c].pc # "off"
  /\ lock' = [o \in Output |-> [k \in Key |-> IF lock[o][k] = c THEN Nobody ELSE lock[o][k]]]
  /\ bought' = IF cmd[c].pc = "store" /\ cmd[c].inv.mode = "paid"
               THEN [bought EXCEPT ![OutOf(c)][KeyOf(c)] = @ - 1] ELSE bought
  /\ fin' = [t \in Task |-> IF fin[t].by = c THEN [fin[t] EXCEPT !.by = Nobody] ELSE fin[t]]
  /\ Ends(c)
  /\ UNCHANGED <<cache, drifted, files, starts>>

\* resume gives back the finalizer of a dead command when its lease is over.
Resumes(t) ==
  /\ fin[t].state = "held" /\ fin[t].by = Nobody
  /\ fin' = [fin EXCEPT ![t].state = "ready"]
  /\ UNCHANGED <<cache, lock, bought, drifted, files, cmd, starts>>

Drift(t) ==
  /\ Drifts /\ t \notin drifted
  /\ drifted' = drifted \cup {t}
  /\ UNCHANGED <<cache, lock, bought, files, fin, cmd, starts>>

Work(c) ==
  \/ NextRequest(c) \/ Locks(c) \/ Asks(c) \/ Answers(c) \/ Stores(c)
  \/ WritesSummary(c) \/ WritesScores(c)
  \/ ReadsScores(c) \/ ReadsSummary(c) \/ ListsFinalizers(c)
  \/ TakesFinalizer(c) \/ CommitsFinalizer(c)

Next ==
  \/ \E c \in Command : Work(c) \/ Dies(c) \/ \E inv \in Invocation : Starts(c, inv)
  \/ \E t \in Task : Resumes(t) \/ Drift(t)

Spec == Init /\ [][Next]_vars

\* Every call ends (it has a timeout) and a process that lives goes on; a free
\* lock is obtained by one of those who wait for it.
LiveSpec == Spec /\ \A c \in Command : WF_vars(Work(c))

-----------------------------------------------------------------------------

\* "Two processes that work on the same request use a file lock so that it is not
\* paid for twice": once a valid answer has come, and its process lives, the
\* request is not sent again, by whomever.
PaidOnce == \A o \in Output, k \in Key : bought[o][k] <= 1

\* "A failure must not pass for an empty score or for ready": what a finalizer
\* commits are all the responses of its task, and the summary it cites has all
\* those of the batch, as they are in the cache.
FinalizedScored ==
  \A t \in Task : fin[t].state = "done" =>
    LET f == fin[t]
    IN  /\ f.row.set = f.cites.set /\ f.cites.fits
        /\ \A r \in Request :
             f.cites.got[r] # "none" /\ f.cites.got[r] = cache[f.out][<<f.cites.set, r>>]
        /\ \A n \in 0..Repeats - 1 : f.row.got[<<t, n>>] = f.cites.got[<<t, n>>]

\* However differently the commands of a directory are called: a finalizer commits
\* all the responses of its own task, and no response, in its row or in the summary
\* it cites, that is not in the cache of its directory under the settings named.
Stored(s, o) ==
  \A r \in Request : s.got[r] # "none" => s.set \in Setting /\ s.got[r] = cache[o][<<s.set, r>>]
RowsStored ==
  \A t \in Task : fin[t].state = "done" =>
    TaskReady(fin[t].row, t) /\ Stored(fin[t].row, fin[t].out) /\ Stored(fin[t].cites, fin[t].out)

\* No command waits for ever: locks are free again whatever becomes of holders.
EvaluationEnds == \A c \in Command : cmd[c].pc # "off" ~> cmd[c].pc = "off"

\* "_run below can submit the complete GPTEval result atomically": all finalizers
\* of a batch are committed from one summary.
OneSummary ==
  \A t, u \in Task : fin[t].state = "done" /\ fin[u].state = "done" => fin[t].cites = fin[u].cites

\* A fixed score "only checks cache, resumption and summary and stands for no
\* quality": a command with leave to pay does not commit one.
RealScores ==
  \A t \in Task : fin[t].state = "done" /\ fin[t].mode = "paid" =>
    \A n \in 0..Repeats - 1 : fin[t].row.got[<<t, n>>] = "paid"
=============================================================================
