---------------------------- MODULE MCStageInputs ----------------------------
(* StageInputs for TLC. *)
EXTENDS StageInputs, TLC

\* A tool leaves out at most one file.
OneLost(fs) == {{}} \cup {{f} : f \in fs}
Symmetry == Permutations(Candidates)
=============================================================================
