---------------------------- MODULE MCImageEdit ----------------------------
(***************************************************************************)
(* Instances of ImageEdit: one task, candidate groups of two or three.     *)
(***************************************************************************)
EXTENDS ImageEdit

CONSTANTS t1, w1, w2

=============================================================================
