----------------------------- MODULE MCPipeline -----------------------------
(***************************************************************************)
(* Instances of Pipeline for TLC: which tasks, and what is asked of them.  *)
(***************************************************************************)
EXTENDS Pipeline, TLC

CONSTANTS t1, t2

\* A composite scene with refined pose and independent SAGS views; continued on
\* errors.
Full == [provider |-> "trellis", input |-> "composite", masks |-> TRUE, prompt |-> TRUE,
         ply |-> FALSE, render |-> TRUE, gim |-> TRUE, pose |-> TRUE, refine |-> TRUE,
         sags |-> "ring6", timeout |-> TRUE, goOn |-> TRUE]
\* A single object, converted from a mesh and published as it is.
Object == [Full EXCEPT !.provider = "hunyuan", !.masks = FALSE,
                       !.render = FALSE, !.pose = FALSE, !.gim = FALSE]
\* A mesh on the cutout route, rendered and matched only.
Mesh == [Full EXCEPT !.provider = "hunyuan", !.input = "cutout", !.pose = FALSE, !.sags = "no"]
\* The cutout route with the older SAGS.
Old == [Full EXCEPT !.input = "cutout", !.masks = FALSE, !.refine = FALSE, !.sags = "legacy"]

OneTask   == <<t1>>
TwoTasks  == <<t1, t2>>
FullOnly  == [t \in {t1} |-> Full]
Mixed     == (t1 :> Old) @@ (t2 :> Mesh)
FullFirst == (t1 :> Full) @@ (t2 :> Object)
=============================================================================
