---------------------------- MODULE MCImageQueue ----------------------------
(* Instances of ImageQueue for TLC.                                        *)
EXTENDS ImageQueue, TLC

CONSTANTS p1, p2, i1, i2, i3

Adaptive(initial, maximum) == [mode |-> "adaptive", initial |-> initial, maximum |-> maximum]
Fixed(limit)   == [mode |-> "fixed", initial |-> limit, maximum |-> limit]
\* Two manifests of one database: one adaptive, one fixed at a single request.
TwoManifests   == {Adaptive(1, 2), Fixed(1)}

\* Processes differ in nothing but their name, and neither do images.
Interchangeable == Permutations(Process) \cup Permutations(Image)

\* A process told to send one request at a time has one request open at a time.
FixedAtOne == \A p \in Process : queue[p] = "fixed" => Cardinality(Holding(p)) <= 1
=============================================================================
