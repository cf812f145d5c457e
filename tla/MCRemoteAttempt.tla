-------------------------- MODULE MCRemoteAttempt --------------------------
(* Instances of RemoteAttempt for TLC.                                     *)
EXTENDS RemoteAttempt, TLC

CONSTANTS o1, o2, wrapper

\* Two commands differ in nothing but their name.
Commands == Permutations(Operator)
=============================================================================
