---------------------------- MODULE MCStoreSchema ----------------------------
(* StoreSchema for TLC. *)
EXTENDS StoreSchema, TLC

\* New, and of every older release.
AnyVersion == 0..SchemaVersion
New == {0}

Symmetry == Permutations(Process) \cup Permutations(Lease)
=============================================================================
