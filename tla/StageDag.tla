------------------------------ MODULE StageDag ------------------------------
(***************************************************************************)
(* The stage chain of one batch and the pure functions the scheduler       *)
(* applies to the table of stage states inside its transactions.           *)
(*                                                                         *)
(* Every task owns the same chain of stages 1..Last; a stage depends on    *)
(* its immediate predecessor only.  The positions that the code treats     *)
(* specially are constants; position 0 means "this instance has none".     *)
(* A table is a function [Item -> StageState].  Two error codes are read   *)
(* by the code and are folded into the state: "eval_skipped" is            *)
(* state='canceled' with evaluation_skipped_incomplete_batch, and          *)
(* "recovering_other" is state='recovering' with any last_error_code but   *)
(* delivery_unknown.                                                       *)
(***************************************************************************)
EXTENDS Integers, FiniteSets

CONSTANTS
  Task,       \* the tasks of the batch
  Last,       \* number of stages of a task
  Gate,       \* position of edit_gate
  Evidence,   \* positions REMOTE_EVIDENCE_START..REMOTE_EVIDENCE_END
  Debug,      \* position of debug_bundle
  Download,   \* position of download_results
  Evaluate    \* position of evaluate_absolute

ASSUME DagAssumption ==
  /\ IsFiniteSet(Task)
  /\ Last \in Nat \ {0}
  /\ {Gate, Debug, Download, Evaluate} \subseteq 0..Last
  /\ Evidence \subseteq 1..Last

Stage == 1..Last
Item  == Task \X Stage

ActiveStates   == {"leased", "running", "committing", "recovering", "recovering_other"}
CanceledStates == {"canceled", "eval_skipped"}
TerminalStates == {"succeeded", "failed_terminal", "rejected"} \cup CanceledStates
StageState     == {"pending", "ready", "waiting_review", "waiting_manual"}
                    \cup ActiveStates \cup TerminalStates

\* What the latest edit review of a task says.  "other" is a decided review
\* that is neither an acceptance nor a rejection.
Decision == {"none", "pending", "accepted", "rejected", "other"}

TaskItems(t)      == {t} \X Stage
After(i)          == {<<i[1], s>> : s \in (i[2] + 1)..Last}
PredecessorOk(st, i) == i[2] = 1 \/ st[<<i[1], i[2] - 1>>] = "succeeded"

-----------------------------------------------------------------------------
(* _refresh_ready: pending stages whose predecessor succeeded.             *)

GateState(decision) ==
  CASE decision = "none"     -> "pending"
    [] decision = "accepted" -> "succeeded"
    [] decision = "rejected" -> "rejected"
    [] OTHER                 -> "waiting_review"

Unblocked(st, decision, i) ==
  IF st[i] = "pending" /\ PredecessorOk(st, i)
  THEN IF i[2] = Gate THEN GateState(decision[i[1]]) ELSE "ready"
  ELSE st[i]

RefreshOnce(st, decision) == [i \in Item |-> Unblocked(st, decision, i)]

\* The code loops until nothing changes.  Only a gate can become succeeded in
\* a pass, so a second pass is all the loop can still change.
Refreshed(st, decision) == RefreshOnce(RefreshOnce(st, decision), decision)

-----------------------------------------------------------------------------
(* _route_debug_bundle: what a failed evidence stage does to its task.     *)

Routed(st, i) ==
  LET queued   == {j \in After(i) : st[j] \in {"pending", "ready"}}
      stranded == {j \in queued : j[2] < Debug \/ j[2] > Download}
      bundle   == {j \in queued : j[2] = Debug}
  IN  IF i[2] \notin Evidence THEN st
      ELSE [j \in Item |-> IF j \in stranded THEN "canceled" ELSE IF j \in bundle THEN "ready" ELSE st[j]]

\* Assigning a state to one stage and routing, as fail() and
\* resolve_recovering_item() do.
Ended(st, i, s) ==
  LET now == [st EXCEPT ![i] = s]
  IN  IF s \in {"failed_terminal", "rejected"} THEN Routed(now, i) ELSE now

-----------------------------------------------------------------------------
(* retry: each selected row becomes ready and every later stage of its     *)
(* task pending.  The query fixes no order of the rows: of two in one task  *)
(* the first is ready in the end, the other only if it came last.          *)

Foremost(rows) == {i \in rows : \A j \in rows : i \notin After(j)}
LeftReady(rows) == {Foremost(rows) \cup more : more \in SUBSET (rows \ Foremost(rows))}

Retried(st, rows, kept) ==
  [j \in Item |-> IF j \in kept THEN "ready"
                  ELSE IF \E i \in rows : j \in After(i) THEN "pending" ELSE st[j]]

-----------------------------------------------------------------------------
(* _skip_incomplete_evaluation and _update_aggregate_status.               *)

Finalizers == {i \in Item : i[2] = Evaluate}

EvaluationSkipped(st) ==
  IF /\ Finalizers # {}
     /\ \A i \in Finalizers : st[i] \in {"ready", "succeeded"} \cup CanceledStates
     /\ \E i \in Item : st[i] \in {"failed_terminal", "rejected"}
  THEN [i \in Item |-> IF i \in Finalizers /\ st[i] = "ready" THEN "eval_skipped" ELSE st[i]]
  ELSE st

TaskComplete(st, t) ==
  \A i \in TaskItems(t) : st[i] = "succeeded" \/ (i[2] = Evaluate /\ st[i] = "eval_skipped")

TaskStatus(st, t) ==
  LET states == {st[i] : i \in TaskItems(t)}
  IN  IF TaskComplete(st, t) THEN "succeeded"
      ELSE IF "failed_terminal" \in states THEN "failed"
      ELSE IF "rejected" \in states THEN "rejected"
      ELSE IF states \subseteq {"succeeded"} \cup CanceledStates THEN "canceled"
      ELSE "running"

\* The code also tells "waiting" from "running" tasks; the batch does not.
BatchStatus(st) ==
  LET statuses == {TaskStatus(st, t) : t \in Task}
  IN  IF statuses = {"succeeded"} THEN "succeeded"
      ELSE IF statuses \subseteq {"succeeded", "canceled"} THEN "canceled"
      ELSE IF statuses \subseteq {"succeeded", "failed", "rejected", "canceled"} THEN "failed"
      ELSE "running"
=============================================================================
