---------------------------- MODULE MCEvaluation ----------------------------
(***************************************************************************)
(* Instances of Evaluation for TLC: how the commands are called.           *)
(***************************************************************************)
EXTENDS Evaluation, TLC

CONSTANTS t1, t2, c1, c2, o1, o2

Called(set, out, mode, limit) ==
  [set |-> set, out |-> out, mode |-> mode, limit |-> limit, fits |-> TRUE]

\* The evaluation, paid for; a trial of another model with fixed scores in a
\* directory of its own, with the numbers of tasks of another batch.
Calls == {Called("m1", o1, "paid", 9), [Called("m2", o2, "fake", 9) EXCEPT !.fits = FALSE]}
\* A rehearsal with fixed scores before the paid evaluation, same directory.
Rehearsed == {Called("m1", o1, "fake", 9), Called("m1", o1, "paid", 9)}
\* Another model after a command that died, in the same directory or not.
TwoModels == {Called("m1", o1, "paid", 9), Called("m2", o2, "paid", 9)}
\* A limited command beside the full one, same directory.
Limited   == {Called("m1", o1, "paid", 9), Called("m1", o1, "paid", 1)}
Simple    == {Called("m1", o1, "paid", 9)}

Models == {"m1", "m2"}
Interchangeable == Permutations(Task) \cup Permutations(Command)
=============================================================================
