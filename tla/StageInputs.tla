----------------------------- MODULE StageInputs -----------------------------
(***************************************************************************)
(* How the files of one stage become the inputs of the next: the request   *)
(* that stage_wiring.py builds from the committed artifacts, the plan that *)
(* tools/stage_adapter.py makes of it on the server, and the files that    *)
(* the plan's tools leave for the stages after them.                       *)
(*                                                                         *)
(* One task passes the chain from unity_anchor to unity_apply.  Tools fail *)
(* or leave a file out, uploads are cut, workers die and the operator      *)
(* retries what has failed.  A file is known by the stage that wrote it,   *)
(* the directory, the view and the kind.                                   *)
(***************************************************************************)
EXTENDS Integers, Sequences

CONSTANTS
  Candidates,  \* the pictures the image API may answer with
  MaxRetries,  \* how often the operator retries
  LostOf(_)    \* LostOf(fs): what a tool that writes the files fs may leave out

ASSUME InputsAssumption == Candidates # {} /\ MaxRetries \in Nat

VARIABLES
  prompts,    \* the prompts the manifest gives: "object", "anchor"
  at,         \* the index in Chain of the stage the task is at
  status,     \* what that stage is doing
  left,       \* the attempts it has left
  why,        \* why its last attempt ended
  committed,  \* committed[s]: the files of stage s
  offered,    \* the candidates of the latest edit
  accepted,   \* acceptedGenerationPath; {} or one candidate
  strays,     \* what else lies in the server's copy of ring6/model
  workspace,  \* workspace[w]: what unity_apply has put there
  step,       \* how far unity_apply is
  retries     \* how often the operator has retried

inputsVars == <<prompts, at, status, left, why, committed, offered, accepted, strays, workspace,
                step, retries>>
progress == <<status, left, why>>
files == <<committed, offered, accepted>>

-----------------------------------------------------------------------------

Chain == <<"unity_anchor", "image_edit", "edit_gate", "upload_inputs", "model_generation",
           "render_alignment_views", "segment_inputs", "gim_match", "estimate_pose",
           "sags_segment_vote", "debug_bundle", "download_results", "unity_apply">>

Attempts(s) ==
  CASE s \in {"unity_anchor", "edit_gate", "estimate_pose", "unity_apply"} -> 1
    [] s \in {"image_edit", "upload_inputs", "download_results"} -> 3
    [] OTHER -> 2

Transfers == {"upload_inputs", "download_results"}
Adapted == {"model_generation", "render_alignment_views", "segment_inputs", "gim_match",
            "estimate_pose", "sags_segment_vote", "debug_bundle"}

Views     == {"left", "center", "right"}
RingViews == {"center", "ring_060", "ring_120", "ring_180", "ring_240", "ring_300"}

File(s, d, v, k) == [stage |-> s, dir |-> d, view |-> v, kind |-> k]
Nothing == File("-", "-", "-", "-")

Listed(s, d, ks)      == {File(s, d, "-", k) : k \in ks}
PerView(s, d, vs, ks) == {File(s, d, v, k) : v \in vs, k \in ks}

ThisStage == IF at <= Len(Chain) THEN Chain[at] ELSE "done"
Stages  == {Chain[i] : i \in DOMAIN Chain}

-----------------------------------------------------------------------------
(* stage_wiring.py: what a request is built from.                          *)

\* _records: the files of the earlier stages; of image_edit the accepted picture
\* alone, once there is one.
Visible ==
  {f \in UNION {committed[Chain[i]] : i \in 1..(at - 1)} :
     f.stage # "image_edit" \/ accepted = {} \/ (f.kind = "image" /\ f.view \in accepted)}

\* Rows come in the order of the chain, and within a stage in that of
\* _collect_artifacts, by path: the files of ring6 before those of source.
Row(f) ==
  2 * (CHOOSE i \in DOMAIN Chain : Chain[i] = f.stage) + (IF f.dir = "ring6" THEN 0 ELSE 1)

Name(w, v, k) == [what |-> w, view |-> v, kind |-> k]

\* Mutant of OfViews: the cameras of the ring are taken for those of the three views.
OfViewsOrRing(f) ==
  f.kind \in {"cameras", "images"} \/ (f.dir = "main" /\ f.kind \in {"image", "depth"})
\* What the render of the three views has for the stages after it, and of the ring.
OfViews(f) == f.dir = "main" /\ f.kind \in {"image", "depth", "cameras", "images"}
OfRing(f)  == f.dir = "ring6" /\ f.kind \in {"image", "cfg_args"}
OfAnnotations(f) == f.dir = "sags_annotations" /\ f.kind \in {"mask", "points"}

\* _assign_aliases: what a file is called in the request.  Of several files with
\* one name the first has it, the others are numbered and nobody asks for them.
Alias(f) ==
  LET s == f.stage  v == f.view  k == f.kind
  IN  CASE s = "image_edit" /\ k = "image"                              -> Name("input", "-", k)
        [] s = "unity_anchor" /\ f.dir = "unity"                        -> Name("scene", v, k)
        [] s = "render_alignment_views" /\ OfViews(f)                   -> Name("generated", v, k)
        [] s = "render_alignment_views" /\ OfRing(f)                    -> Name("sags", v, k)
        [] s = "segment_inputs" /\ OfAnnotations(f)                     -> Name("sags", v, k)
        [] OTHER                                                        -> Name(f.dir, v, k)

\* _first.  An alias keeps the kind of its file.
First(found) ==
  IF found = {} THEN Nothing ELSE CHOOSE f \in found : \A g \in found : Row(f) <= Row(g)
Named(w, v, k) == First({f \in Visible : f.kind = k /\ Alias(f) = Name(w, v, k)})
There(w, v, k) == Named(w, v, k) # Nothing

Use(r, v, f) == [role |-> r, view |-> v, file |-> f]
UsesEach(vs, w, k, r) == {Use(r, v, Named(w, v, k)) : v \in vs}

\* _center_image_ref
EditUses == {Use("scene", "center", Named("scene", "center", "image"))}

ModelUses == {Use("picture", f.view, f) : f \in {g \in Visible : Alias(g) = Name("input", "-", "image")}}

\* _stage_options: render_alignment_views
RenderUses == {Use("ply", "-", Named("model", "-", "ply"))}

\* _stage_options: segment_inputs.  With all six pictures the anchor is
\* segmented in each; otherwise the object, in the first picture there is.
AllPictures == \A v \in Views : There("scene", v, "image") /\ There("generated", v, "image")
RingPictures == \A v \in RingViews : There("sags", v, "image")
Target == First({f \in Visible : Alias(f) = Name("input", "-", "image") \/ f.kind = "image"})
SegmentUses ==
  (IF AllPictures /\ prompts # {}
   THEN UsesEach(Views, "scene", "image", "scene") \cup UsesEach(Views, "generated", "image", "generated")
   ELSE {Use("target", "-", IF AllPictures THEN Named("input", "-", "image") ELSE Target)})
  \cup (IF RingPictures THEN UsesEach(RingViews, "sags", "image", "ring") ELSE {})

\* _stage_options: gim_match
Pairs == {v \in Views : There("scene", v, "image") /\ There("generated", v, "image")}
GimUses ==
  LET shown(v)  == {Use("scene", v, Named("scene", v, "image")), Use("generated", v, Named("generated", v, "image"))}
      masked(v) == {Use("scene_mask", v, Named("scene", v, "mask")),
                    Use("generated_mask", v, Named("generated", v, "mask"))}
  IN  (UNION {shown(v) : v \in Pairs}) \cup {u \in UNION {masked(v) : v \in Pairs} : u.file # Nothing}

\* _stage_options: estimate_pose, which takes the three views or none
PoseUses ==
  {Use("cameras", "-", Named("generated", "-", "cameras")), Use("images", "-", Named("generated", "-", "images"))}
  \cup UsesEach(Views, "gim", "matches", "matches")
  \cup UsesEach(Views, "scene", "depth", "scene_depth")
  \cup UsesEach(Views, "scene", "camera", "scene_camera")
  \cup UsesEach(Views, "generated", "depth", "generated_depth")

\* _stage_options: sags_segment_vote, which takes six annotations or none
SagsUses ==
  {Use("model", "-", Named("sags", "-", "cfg_args"))}
  \cup UsesEach(RingViews, "sags", "mask", "ring_mask") \cup UsesEach(RingViews, "sags", "points", "ring_points")

BundleUses == {Use("evidence", f.view, f) : f \in Visible}

Uses(s) ==
  CASE s = "image_edit"             -> EditUses
    [] s = "model_generation"       -> ModelUses
    [] s = "render_alignment_views" -> RenderUses
    [] s = "segment_inputs"         -> SegmentUses
    [] s = "gim_match"              -> GimUses
    [] s = "estimate_pose"          -> PoseUses
    [] s = "sags_segment_vote"      -> SagsUses
    [] s = "debug_bundle"           -> BundleUses
    [] OTHER                        -> {}

-----------------------------------------------------------------------------
(* stage_adapter.py: the plans.                                            *)

\* trellisMaskPrompts, which the anchor's prompt turns on, take one picture.
ModelFits == ModelUses # {} /\ ("anchor" \in prompts => \A u, t \in ModelUses : u = t)

\* The views need a prompt, the ring and a single picture that of the object.
SegmentFits == "object" \in prompts

GimFits == Pairs # {}

\* _require_directory_covered: every file of the server's ring6/model is an input
\* of the request; after the run SAGS' own caches are excepted.
Covered(lenient) == strays \subseteq (IF lenient THEN {"cache"} ELSE {})

\* build_plan
Fits(s) ==
  /\ \A u \in Uses(s) : u.file # Nothing
  /\ s = "model_generation" => ModelFits
  /\ s = "segment_inputs" => SegmentFits
  /\ s = "gim_match" => GimFits
  /\ s = "sags_segment_vote" => Covered(FALSE)
  /\ s = "debug_bundle" => Visible # {}

\* Mutant of ModelPromises: the reconstruction itself is not required.
ModelPromisesManifest == Listed("model_generation", "model", {"manifest"})
ModelPromises ==
  Listed("model_generation", "model", {"ply", "manifest"})
  \cup (IF "anchor" \in prompts THEN Listed("model_generation", "model_input", {"cutout"}) ELSE {})

RenderPromises ==
  LET s == "render_alignment_views"
      once == {"views", "cameras", "images", "cfg_args"}
  IN  Listed(s, "ring6", once) \cup PerView(s, "ring6", RingViews, {"image"})
      \cup Listed(s, "main", once) \cup PerView(s, "main", Views, {"image"})

RingPromises == {"mask", "points", "manifest"}

SegmentPromises ==
  LET s == "segment_inputs"
  IN  (IF AllPictures
       THEN Listed(s, "anchor", {"manifest"}) \cup PerView(s, "scene", Views, {"mask"})
            \cup PerView(s, "generated", Views, {"mask"})
       ELSE Listed(s, "target", {"mask", "cutout", "points", "manifest"}))
      \cup (IF RingPictures THEN PerView(s, "sags_annotations", RingViews, RingPromises) ELSE {})

GimPromises    == PerView("gim_match", "gim", Pairs, {"matches", "match", "warp"})
PosePromises   == Listed("estimate_pose", "pose", {"pose", "summary"})
SagsPromises   == Listed("sags_segment_vote", "sags", {"ply", "manifest", "diagnostics"})
BundlePromises == Listed("debug_bundle", "bundle", {"manifest", "task_manifest", "index"})

\* The required outputs of a plan, without which the stage fails.
Promises(s) ==
  CASE s = "model_generation"       -> ModelPromises
    [] s = "render_alignment_views" -> RenderPromises
    [] s = "segment_inputs"         -> SegmentPromises
    [] s = "gim_match"              -> GimPromises
    [] s = "estimate_pose"          -> PosePromises
    [] s = "sags_segment_vote"      -> SagsPromises
    [] s = "debug_bundle"           -> BundlePromises
    [] OTHER                        -> {}

\* What Unity exports, and what the tools write beside the promised: nobody checks it.
Beside(s) ==
  CASE s = "render_alignment_views" ->
         PerView(s, "main", Views, {"depth"}) \cup Listed(s, "main", {"cloud"}) \cup Listed(s, "ring6", {"cloud"})
    [] s = "unity_anchor" ->
         PerView(s, "unity", Views, {"camera", "image", "depth"}) \cup Listed(s, "task", {"manifest"})
    [] OTHER -> {}

-----------------------------------------------------------------------------

WorkspaceSteps == <<"task_manifest", "pose", "pose_manifest", "ply", "ply_manifest">>

WorkspaceFiles == {WorkspaceSteps[i] : i \in DOMAIN WorkspaceSteps}

InputsInit ==
  /\ prompts \in SUBSET {"object", "anchor"}
  /\ at = 1 /\ status = "ready" /\ left = 1 /\ why = "-"
  /\ committed = [s \in Stages |-> {}]
  /\ offered = {} /\ accepted = {} /\ strays = {}
  /\ workspace = [w \in WorkspaceFiles |-> "none"]
  /\ step = 1 /\ retries = 0

Doing(s, st) == ThisStage = s /\ status = st

\* How an attempt ends: the next stage is ready; the stage may be tried again
\* while attempts are left; or it has failed.
Passes ==
  /\ at' = at + 1
  /\ status' = IF at < Len(Chain) THEN "ready" ELSE "done"
  /\ left' = IF at < Len(Chain) THEN Attempts(Chain[at + 1]) ELSE 0
  /\ why' = "-"
Again(w) ==
  /\ left' = left - 1
  /\ status' = IF left > 1 THEN "ready" ELSE "failed"
  /\ why' = w
  /\ UNCHANGED at
Fails(st, w) == left' = left - 1 /\ status' = st /\ why' = w /\ UNCHANGED at
Turns(st) == status' = st /\ UNCHANGED <<at, left, why>>

Exports ==
  /\ Doing("unity_anchor", "ready")
  /\ \E lost \in LostOf(Beside("unity_anchor")) :
       committed' = [committed EXCEPT !["unity_anchor"] = Beside("unity_anchor") \ lost]
  /\ Passes
  /\ UNCHANGED <<prompts, offered, accepted, strays, workspace, step, retries>>

\* LocalStageExecutor._execute_image: the pictures of one group.
Edits ==
  /\ Doing("image_edit", "ready")
  /\ IF ~Fits("image_edit") THEN Fails("failed", "refused") /\ UNCHANGED files
     ELSE \E new \in SUBSET Candidates :
            /\ new # {} /\ \A f \in committed["image_edit"] : f.view \notin new
            /\ committed' = [committed EXCEPT !["image_edit"] =
                 @ \cup PerView("image_edit", "edit", new, {"image", "manifest"})]
            /\ offered' = new
            /\ Passes
            /\ UNCHANGED accepted
  /\ UNCHANGED <<prompts, strays, workspace, step, retries>>

\* Mutant of Accepts: the gate does not write down which picture was accepted.
AcceptsUnnamed(c) ==
  /\ Doing("edit_gate", "ready") /\ c \in offered
  /\ Passes
  /\ UNCHANGED <<prompts, files, strays, workspace, step, retries>>
\* decide_edit, or the automatic review: the gate keeps the path of the picture.
Accepts(c) ==
  /\ Doing("edit_gate", "ready") /\ c \in offered
  /\ accepted' = {c}
  /\ Passes
  /\ UNCHANGED <<prompts, committed, offered, strays, workspace, step, retries>>

\* The reviewer asks for other pictures; the earlier ones stay committed.
Regenerates ==
  /\ Doing("edit_gate", "ready")
  /\ \E c \in Candidates : \A f \in committed["image_edit"] : f.view # c
  /\ at' = at - 1 /\ status' = "ready" /\ left' = 1 /\ why' = "-"
  /\ UNCHANGED <<prompts, files, strays, workspace, step, retries>>

-----------------------------------------------------------------------------
(* remote_worker.py: the inputs go to the server, and the adapter runs.    *)

\* upload_inputs and download_results commit a receipt and nothing else.
Receipts ==
  /\ ThisStage \in Transfers /\ status = "ready"
  /\ committed' = [committed EXCEPT ![ThisStage] = Listed(ThisStage, "transfer", {"receipt"})]
  /\ Passes
  /\ UNCHANGED <<prompts, offered, accepted, strays, workspace, step, retries>>

Sends ==
  /\ ThisStage \in Adapted /\ status = "ready"
  /\ Turns("sent")
  /\ UNCHANGED <<prompts, files, strays, workspace, step, retries>>

\* An upload is cut: it stays under its temporary name, beside its destination.
UploadCut ==
  /\ ThisStage \in Adapted \cup {"upload_inputs"} /\ status = "ready"
  /\ strays' \in {strays} \cup
       (IF \E f \in Visible : f.dir = "ring6" /\ f.kind \in {"cfg_args", "cloud"}
        THEN {strays \cup {"partial"}} ELSE {})
  /\ Again("network")
  /\ UNCHANGED <<prompts, files, workspace, step, retries>>

\* execute_request: the plan is made, or the request is refused.
Plans ==
  /\ ThisStage \in Adapted /\ status = "sent"
  /\ IF Fits(ThisStage) THEN Turns("running") ELSE Fails("failed", "refused")
  /\ UNCHANGED <<prompts, files, strays, workspace, step, retries>>

\* Loading the model, SAGS may leave its caches beside it.
MayCache == strays' \in {strays} \cup (IF ThisStage = "sags_segment_vote" THEN {strays \cup {"cache"}} ELSE {})

\* A tool ends with an error, is stopped or takes too long.
ToolFails ==
  /\ ThisStage \in Adapted /\ status = "running"
  /\ MayCache
  /\ Again("tool")
  /\ UNCHANGED <<prompts, files, workspace, step, retries>>

\* The tools have ended well: the inputs are looked at again, then the outputs, and
\* _collect_artifacts commits whatever is there.
Finishes ==
  /\ ThisStage \in Adapted /\ status = "running"
  /\ MayCache
  /\ LET promised == Promises(ThisStage)
         all == promised \cup Beside(ThisStage)
     IN  \E lost \in LostOf(all) :
           IF ThisStage = "sags_segment_vote" /\ "partial" \in strays
           THEN Fails("failed", "refused") /\ UNCHANGED committed
           ELSE IF lost \cap promised # {}
           THEN Fails("failed", "missing") /\ UNCHANGED committed
           ELSE \/ committed' = [committed EXCEPT ![ThisStage] = all \ lost] /\ Passes
                \/ ThisStage = "estimate_pose" /\ Fails("rejected", "quality") /\ UNCHANGED committed
  /\ UNCHANGED <<prompts, offered, accepted, workspace, step, retries>>

-----------------------------------------------------------------------------
(* stage_wiring._workspace_result_root, and the Unity that applies.        *)

\* A worker writes the files one by one.  A copy is put there whole, a manifest
\* as it is written; what is there already must be whole.
Source(w) ==
  CASE w = "task_manifest" -> Named("task", "-", "manifest")
    [] w \in {"pose", "pose_manifest"} -> Named("pose", "-", "pose")
    [] w \in {"ply", "ply_manifest"} -> Named("sags", "-", "ply")
ManifestFiles == {"pose_manifest", "ply_manifest"}

Publishes ==
  /\ Doing("unity_apply", "ready")
  /\ LET w == WorkspaceSteps[step]
     IN  IF Source(w) = Nothing \/ workspace[w] = "torn"
         THEN Fails("failed", "refused") /\ step' = 1 /\ UNCHANGED workspace
         ELSE /\ workspace' = [workspace EXCEPT ![w] = "there"]
              /\ IF step < Len(WorkspaceSteps)
                 THEN step' = step + 1 /\ UNCHANGED <<at, progress>>
                 ELSE step' = 1 /\ Turns("running")
  /\ UNCHANGED <<prompts, files, strays, retries>>

\* The worker dies among them.
PublisherDies ==
  /\ Doing("unity_apply", "ready")
  /\ LET w == WorkspaceSteps[step]
     IN  workspace' \in {workspace} \cup
           (IF w \in ManifestFiles /\ workspace[w] = "none" THEN {[workspace EXCEPT ![w] = "torn"]} ELSE {})
  /\ step' = 1 /\ Again("worker")
  /\ UNCHANGED <<prompts, files, strays, retries>>

UnityApplies ==
  /\ Doing("unity_apply", "running")
  /\ Passes
  /\ UNCHANGED <<prompts, files, strays, workspace, step, retries>>

UnityFails ==
  /\ Doing("unity_anchor", "ready") \/ Doing("unity_apply", "running")
  /\ Again("tool")
  /\ UNCHANGED <<prompts, files, strays, workspace, step, retries>>

\* BatchController.retry gives what has failed an attempt, where none is left.
Retries ==
  /\ status \in {"failed", "rejected"} /\ retries < MaxRetries
  /\ status' = "ready" /\ left' = IF left > 0 THEN left ELSE 1
  /\ retries' = retries + 1
  /\ UNCHANGED <<prompts, at, why, files, strays, workspace, step>>

InputsNext ==
  \/ Exports \/ Edits \/ (\E c \in Candidates : Accepts(c)) \/ Regenerates
  \/ Receipts \/ Sends \/ UploadCut \/ Plans \/ ToolFails \/ Finishes
  \/ Publishes \/ PublisherDies \/ UnityApplies \/ UnityFails \/ Retries

InputsSpec == InputsInit /\ [][InputsNext]_inputsVars

-----------------------------------------------------------------------------

\* Types; a stage commits its own files, and past the gate one of the pictures of
\* the latest edit is the accepted one.
InputsTypeOK ==
  /\ at \in 1..(Len(Chain) + 1) /\ left \in 0..3 /\ step \in 1..Len(WorkspaceSteps)
  /\ status \in {"ready", "sent", "running", "failed", "rejected", "done"}
  /\ why \in {"-", "refused", "missing", "quality", "network", "tool", "worker"}
  /\ strays \subseteq {"partial", "cache"} /\ retries \in 0..MaxRetries
  /\ workspace \in [WorkspaceFiles -> {"none", "torn", "there"}]
  /\ DOMAIN committed = Stages /\ \A s \in Stages : \A f \in committed[s] : f.stage = s
  /\ accepted \subseteq offered /\ (at > 3 => \E c \in offered : accepted = {c})

Lost(s, d, v, k) == File(s, d, v, k) \notin committed[s]
SceneLost(v, k) == Lost("unity_anchor", "unity", v, k)

\* The file that is meant by a role: its stage, directory and kind.
Meant ==
  [scene           |-> <<"unity_anchor", "unity", "image">>,
   scene_depth     |-> <<"unity_anchor", "unity", "depth">>,
   scene_camera    |-> <<"unity_anchor", "unity", "camera">>,
   picture         |-> <<"image_edit", "edit", "image">>,
   ply             |-> <<"model_generation", "model", "ply">>,
   generated       |-> <<"render_alignment_views", "main", "image">>,
   generated_depth |-> <<"render_alignment_views", "main", "depth">>,
   cameras         |-> <<"render_alignment_views", "main", "cameras">>,
   images          |-> <<"render_alignment_views", "main", "images">>,
   ring            |-> <<"render_alignment_views", "ring6", "image">>,
   model           |-> <<"render_alignment_views", "ring6", "cfg_args">>,
   scene_mask      |-> <<"segment_inputs", "scene", "mask">>,
   generated_mask  |-> <<"segment_inputs", "generated", "mask">>,
   ring_mask       |-> <<"segment_inputs", "sags_annotations", "mask">>,
   ring_points     |-> <<"segment_inputs", "sags_annotations", "points">>,
   matches         |-> <<"gim_match", "gim", "matches">>]

\* A plan takes what it was meant to take: the pictures, masks, matches and
\* depths of one view together, the cameras of the three views and not of the
\* ring, the accepted picture and no other, the ring's own model and annotations;
\* GIM has both masks of a pair, unless a picture of the scene was never
\* exported; and Unity applies the pose and the object of this task, whole.
RightInputs ==
  /\ status = "running" =>
       \A u \in Uses(ThisStage) :
         /\ u.role \in DOMAIN Meant =>
              u.file = File(Meant[u.role][1], Meant[u.role][2], u.view, Meant[u.role][3])
         /\ u.role = "picture" => u.view \in accepted
  /\ Doing("gim_match", "running") /\ (\A v \in Views : ~SceneLost(v, "image")) =>
       \A v \in Views : \A r \in {"scene", "generated", "scene_mask", "generated_mask"} :
         \E u \in GimUses : u.role = r /\ u.view = v
  /\ Doing("unity_apply", "running") => \A w \in WorkspaceFiles : workspace[w] = "there"

Excused ==
  \/ ThisStage = "image_edit" /\ SceneLost("center", "image")
  \/ ThisStage = "segment_inputs" /\ "object" \notin prompts
  \/ ThisStage = "gim_match" /\ \A v \in Views : SceneLost(v, "image")
  \/ /\ ThisStage = "estimate_pose"
     /\ \E v \in Views : \/ \E k \in {"camera", "image", "depth"} : SceneLost(v, k)
                         \/ Lost("render_alignment_views", "main", v, "depth")
  \/ ThisStage = "sags_segment_vote" /\ strays # {}
  \/ /\ ThisStage = "unity_apply"
     /\ Lost("unity_anchor", "task", "-", "manifest") \/ \E w \in ManifestFiles : workspace[w] = "torn"

\* A request is refused for one of these reasons only: Unity has not exported a
\* file, the render has left out a depth, the manifest has no prompt for the
\* object, ring6/model on the server holds what no request lists, or a worker
\* died over a manifest of the workspace.  Whatever else a stage needs, the
\* stages before it have promised.
ChainFits == why = "refused" => Excused

\* SAGS' caches "are runtime-owned and are not part of the immutable input": they
\* are no reason to refuse the second of its two attempts.
CachesAllowed == ThisStage = "sags_segment_vote" /\ strays \subseteq {"cache"} => why # "refused"

\* An interrupted upload is repeated, and leaves nothing that a later stage refuses.
UploadsRepeat == ThisStage = "sags_segment_vote" /\ strays \subseteq {"partial"} => why # "refused"

\* The object is segmented in the accepted picture.
TargetAccepted ==
  \A u \in (IF Doing("segment_inputs", "running") THEN SegmentUses ELSE {}) :
    u.role = "target" => u.file.stage = "image_edit"
=============================================================================
