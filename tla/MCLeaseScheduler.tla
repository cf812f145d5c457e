-------------------------- MODULE MCLeaseScheduler --------------------------
(***************************************************************************)
(* Instances of LeaseScheduler for TLC.  The configurations choose the     *)
(* tasks, the chain of stages and the control processes; what they share   *)
(* is defined here.                                                        *)
(***************************************************************************)
EXTENDS LeaseScheduler

CONSTANTS t1, t2, c1, c2, slot

\* Every stage takes the one resource of the instance, ...
AllUse      == [i \in Item |-> {slot}]
\* ... a lock (project_lock, or a pool of one GPU) ...
OneSlot     == [r \in Resource |-> 1]
\* ... or a pair of slots (ssh_io, evaluation_api).
TwoSlots    == [r \in Resource |-> 2]
\* max_attempts allows as many attempts as the bound on retries does.
FullBudget  == [s \in Stage |-> MaxTries]

\* A stage may fail in every way, ...
AllFailures == [s \in Stage |-> Failure]
\* ... or, of two, the first is run by Unity and the second over SSH: neither
\* reports the undelivered answer of a paid API.
NoApi       == [s \in Stage |-> IF s \in Ssh THEN {"unknown", "unclean", "rejected", "retryable"}
                                ELSE {"unclean", "canceled", "retryable"}]
=============================================================================
