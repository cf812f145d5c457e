------------------------------ MODULE Pipeline ------------------------------
(***************************************************************************)
(* The older entry points on the server: tools/run_insert_batch.py runs    *)
(* tools/run_insert_pipeline.py for one task after the other, and that     *)
(* runs all stages of a task in one process, in a directory of the task    *)
(* (tools/workspace.py) which it shares with every earlier run.  There is  *)
(* no database: manifest.json says how the task stands, and whatever an    *)
(* earlier run has left is still there.  Stages fail, poses are rejected,  *)
(* and the pipeline or the batch may be killed at any step.                *)
(*                                                                         *)
(* An output is the number of the run that made it, 0 when there is none,  *)
(* and negative when a failed stage of that run left it half written.      *)
(***************************************************************************)
EXTENDS Integers, Sequences, SequencesExt

CONSTANTS
  Tasks,        \* the tasks of the job file, a sequence
  Options,      \* Options[t]: what the pipeline of t is asked to do
  SkipReady, FailFast,   \* --skip-ready, --fail-fast
  MaxRuns,      \* bound: how many pipelines are started
  MaxBatches    \* bound: how often the batch command is given

Task == Range(Tasks)
Outputs == {"cutout", "mesh", "sample", "initial", "gim_initial", "coarse", "render", "gim",
            "anchor", "pose", "views", "annotations", "segmentation"}

\* provider: trellis reconstructs a scene, the others a single object; input:
\* what trellis is given; ply: an existing reconstruction; timeout: --trellis-timeout;
\* goOn: --continue-on-error.
PipelineOptions ==
  [provider : {"trellis", "sam3d", "hunyuan"}, input : {"composite", "cutout"},
   masks : BOOLEAN, prompt : BOOLEAN, ply : BOOLEAN,
   render : BOOLEAN, gim : BOOLEAN, pose : BOOLEAN, refine : BOOLEAN,
   sags : {"no", "ring6", "legacy"}, timeout : BOOLEAN, goOn : BOOLEAN]

\* load_job_file and main: the job file holds a list, and an empty one is refused.
ASSUME PipelineAssumption ==
  /\ Tasks \in Seq(Task) /\ Tasks # <<>>
  /\ Options \in [Task -> PipelineOptions]
  /\ SkipReady \in BOOLEAN /\ FailFast \in BOOLEAN
  /\ MaxRuns \in Nat /\ MaxBatches \in Nat

-----------------------------------------------------------------------------
(* The stages of a run, from its options: each one a call of _run_stage,   *)
(* with the outputs it needs, those it makes, whether --continue-on-error  *)
(* tolerates its failure, and what becomes of the run when its result is   *)
(* rejected.  A stage that follows another is left out when that has       *)
(* failed; one that copies has no process and no attempt.                  *)

Stage(name, reads, writes) ==
  [name |-> name, reads |-> reads, writes |-> writes, tolerated |-> FALSE, rejects |-> "never",
   follows |-> FALSE, copies |-> FALSE]
Tolerated(s) == [s EXCEPT !.tolerated = TRUE]
Follows(s) == [s EXCEPT !.follows = TRUE]
Copies(s) == [s EXCEPT !.copies = TRUE]
Rejects(how, s) == [s EXCEPT !.rejects = how]
When(condition, stages) == IF condition THEN stages ELSE <<>>

Trellis(o) == o.provider = "trellis"
Sample(o) == IF o.ply THEN {} ELSE {"sample"}

\* The union mask of anchor and object, for trellis only.
InputMask(o) ==
  When(Trellis(o) /\ o.masks /\ ~o.ply,
       << Stage("trellis_input_segmentation", {}, {"cutout"}) >>)

\* On the cutout route the object is cut out before.  It may stay uncut, unless
\* trellis is to reconstruct it: then there is no input to go on with.
Cutout(o) ==
  When(o.input = "cutout" /\ o.prompt,
       << IF Trellis(o) /\ ~o.ply THEN Stage("segmentation", {}, {"segmentation"})
          ELSE Tolerated(Stage("segmentation", {}, {"segmentation"})) >>)

\* What trellis reconstructs from, unless it is the input image.
Cutouts(o) ==
  IF ~Trellis(o) THEN {}
  ELSE IF o.input = "composite" THEN IF InputMask(o) # <<>> THEN {"cutout"} ELSE {}
  ELSE IF Cutout(o) # <<>> THEN {"segmentation"} ELSE {}

\* The reconstruction, and for hunyuan the conversion of its mesh, in one go: when
\* the first fails the second is not begun.
Generation(o) ==
  When(~o.ply,
       IF o.provider = "hunyuan"
       THEN << Tolerated(Stage("model_generation", {}, {"mesh"})),
               Tolerated(Follows(Stage("mesh_to_gaussian", {"mesh"}, {"sample"}))) >>
       ELSE << Tolerated(Stage("model_generation", Cutouts(o), {"sample"})) >>)

Refined(o) == o.pose /\ o.refine /\ o.render /\ o.gim

\* The best yaw, a coarse pose from it, and then a render from Unity's cameras.
Rendering(o) ==
  When(o.render,
       IF Refined(o)
       THEN << Stage("yaw_search", Sample(o), {"initial"}),
               Stage("gim_initial", {"initial"}, {"gim_initial"}),
               Rejects("stop", Stage("pose_coarse", {"initial", "gim_initial"}, {"coarse"})),
               Stage("render_aligned", Sample(o) \cup {"coarse"}, {"render"}) >>
       ELSE << Stage("render", Sample(o), {"render"}) >>)

Matching(o) == When(o.gim, << Stage("gim", {"render"}, {"gim"}) >>)

\* A rejected pose is a result: the run goes on and ends as rejected.
Posing(o) ==
  When(o.pose,
       << Stage("anchor_segmentation", {"render"}, {"anchor"}),
          Rejects("go on", Stage("pose", {"render", "gim", "anchor"}, {"pose"})) >>)

Independent(o) == o.sags = "ring6" /\ Trellis(o)

\* Six views of the object alone, each annotated on its own; without --skip-render
\* they are made anew.
SagsViews(o) ==
  When(Independent(o),
       When(o.render, << Stage("sags_render", Sample(o), {"views"}) >>) \o
       << Stage("sags_segmentation", {"views"}, {"annotations"}) >>)

\* On the composite route the mask is cut out of the final render, or the one of
\* the center view is taken over.
Segmenting(o) ==
  When(o.input = "composite" /\ Trellis(o) /\ o.prompt /\ ~Independent(o),
       << Stage("segmentation", {"render"}, {"segmentation"}) >>)

\* The stage whose results are published; a single object is published as it is,
\* without a process.
Sags(o) ==
  When(o.sags # "no",
       << IF ~Trellis(o) THEN Copies(Stage("sags", Sample(o), {}))
          ELSE IF Independent(o) THEN Stage("sags", {"views", "annotations"}, {})
          ELSE Stage("sags", {"render", "segmentation"}, {}) >>)

Plan(o) == InputMask(o) \o Cutout(o) \o Generation(o) \o Rendering(o) \o Matching(o) \o
           Posing(o) \o SagsViews(o) \o Segmenting(o) \o Sags(o)

-----------------------------------------------------------------------------

VARIABLES
  man,       \* man[t]: manifest.json
  book,      \* book[t]: task_manifest.json
  made,      \* made[t][x]: output x in stages/
  attempt,   \* attempt[t][s]: the record of the latest attempt of stage s
  shown,     \* shown[t][s]: stages/<s>/manifest.json, which names that attempt
  ply, tree, \* what SAGS has published: inserted_object.ply, diagnostics
  backup,    \* backup[t]: the diagnostics that lie aside, .diagnostics.*.old
  evidence,  \* evidence[t]: the runs whose evidence is written
  cmd,       \* the batch command and the pipeline it is running
  record,    \* record[t]: what batch_manifest.json says of t, and of which command
  runs, batches

pipelineVars == <<man, book, made, attempt, shown, ply, tree, backup, evidence, cmd, record, runs,
                  batches>>
space == <<made, attempt, shown, ply, tree, backup>>

StageNames == {"trellis_input_segmentation", "segmentation", "model_generation",
  "mesh_to_gaussian", "yaw_search", "gim_initial", "pose_coarse", "render_aligned", "render",
  "gim", "anchor_segmentation", "pose", "sags_render", "sags_segmentation", "sags"}

\* status "open": the file has none yet; failed, rejected, late: the stages that
\* are listed with the status failed, rejected or timeout.
NoManifest == [run |-> 0, status |-> "absent", failed |-> {}, rejected |-> {}, late |-> {},
               active |-> "none"]
\* Mutant of Fresh: the new manifest does not say whose it is.
FreshUnnumbered(r) == [NoManifest EXCEPT !.status = "open"]
Fresh(r) == [NoManifest EXCEPT !.run = r, !.status = "open"]
Off == [pc |-> "off", i |-> 0, run |-> 0, k |-> 0, code |-> 0, outcome |-> "-", aside |-> 0]
NoRecord == [status |-> "none", run |-> 0, batch |-> 0]

PipelineInit ==
  /\ man = [t \in Task |-> NoManifest] /\ book = [t \in Task |-> "absent"]
  /\ made = [t \in Task |-> [x \in Outputs |-> 0]]
  /\ attempt = [t \in Task |-> [s \in StageNames |-> "none"]]
  /\ shown = [t \in Task |-> [s \in StageNames |-> "none"]]
  /\ ply = [t \in Task |-> 0] /\ tree = [t \in Task |-> 0]
  /\ backup = [t \in Task |-> {}]
  /\ evidence = [t \in Task |-> {}]
  /\ cmd = Off /\ record = [t \in Task |-> NoRecord]
  /\ runs = 0 /\ batches = 0

T == Tasks[cmd.i]
Current == Plan(Options[T])[cmd.k]
Goto(p) == cmd' = [cmd EXCEPT !.pc = p]
AtStage == cmd.k <= Len(Plan(Options[T]))

-----------------------------------------------------------------------------
(* run_insert_batch.py.                                                    *)

\* What an earlier command has written stays until the first task has its record.
BatchStarts ==
  /\ cmd.pc = "off" /\ batches < MaxBatches
  /\ cmd' = [Off EXCEPT !.pc = "task", !.i = 1]
  /\ batches' = batches + 1
  /\ UNCHANGED <<man, book, space, evidence, record, runs>>

\* batch_manifest.json is written anew, with the records of this command alone, and
\* the next task begins.
NextTask(status, run) ==
  /\ record' = [t \in Task |->
       IF t = T THEN [status |-> status, run |-> run, batch |-> batches]
       ELSE IF cmd.i = 1 THEN NoRecord ELSE record[t]]
  /\ cmd' = IF cmd.i = Len(Tasks) \/ (FailFast /\ \E t \in Task : record'[t].status = "failed")
            THEN Off ELSE [Off EXCEPT !.pc = "task", !.i = cmd.i + 1]

SkipsTask ==
  /\ cmd.pc = "task" /\ SkipReady /\ man[T].status = "ready"
  /\ NextTask("skipped", man[T].run)
  /\ UNCHANGED <<man, book, space, evidence, runs, batches>>

\* The job, its options or the edited image are not what they should be: the
\* batch writes a manifest of its own over the one that is there, even over that
\* of a ready task, since the Unity manifest of a task is read first.
RefusesTask ==
  /\ cmd.pc = "task"
  /\ man' = [man EXCEPT ![T] = [NoManifest EXCEPT !.status = "failed", !.failed = {"batch"}]]
  /\ Goto("refused")
  /\ UNCHANGED <<book, space, evidence, record, runs, batches>>

RecordsRefusal ==
  /\ cmd.pc = "refused"
  /\ NextTask("failed", 0)
  /\ UNCHANGED <<man, book, space, evidence, runs, batches>>

Launches ==
  /\ cmd.pc = "task" /\ ~(SkipReady /\ man[T].status = "ready")
  /\ runs < MaxRuns /\ runs' = runs + 1
  /\ cmd' = [cmd EXCEPT !.pc = "check", !.run = runs + 1]
  /\ UNCHANGED <<man, book, space, evidence, record, batches>>

\* Mutant of Verdict: what the manifest says is enough.
VerdictOfManifest(status, code) ==
  IF status \in {"ready", "rejected"} THEN status ELSE "failed"
\* The status of a task: the manifest alone tells rejected, the exit code the rest.
Verdict(status, code) ==
  IF status = "rejected" THEN "rejected"
  ELSE IF code = 0 /\ status \notin {"failed", "blocked"} THEN "ready" ELSE "failed"

RecordsTask ==
  /\ cmd.pc = "ended"
  /\ NextTask(Verdict(man[T].status, cmd.code), cmd.run)
  /\ UNCHANGED <<man, book, space, evidence, runs, batches>>

-----------------------------------------------------------------------------
(* run_insert_pipeline.py.                                                 *)

\* _write_fatal_manifest: into the manifest that is there, of whatever run, unless
\* it cannot be read.
Fatal ==
  /\ cmd.pc = "fatal"
  /\ IF man[T].status = "torn" THEN UNCHANGED <<man, book>>
     ELSE /\ man' = [man EXCEPT ![T].status = "failed", ![T].active = "none",
                       ![T].failed = @ \cup {IF man[T].active = "none" THEN "pipeline"
                                             ELSE man[T].active}]
          /\ book' = [book EXCEPT ![T] = IF @ = "absent" THEN @ ELSE "failed"]
  /\ cmd' = [cmd EXCEPT !.pc = "ended", !.code = 1]
  /\ UNCHANGED <<space, evidence, record, runs, batches>>

\* The arguments and files are checked before anything is written; without
\* --input-ply the runtime of the provider is checked next.
Opens ==
  /\ cmd.pc = "check"
  /\ \/ Goto("fatal") /\ UNCHANGED <<man, book>>
     \/ /\ man' = [man EXCEPT ![T] = Fresh(cmd.run)]
        /\ book' = [book EXCEPT ![T] = "running"]
        /\ cmd' = [cmd EXCEPT !.pc = "stage", !.k = 1]
     \/ /\ ~Options[T].ply
        /\ man' = [man EXCEPT ![T] = [Fresh(cmd.run) EXCEPT !.status = "blocked",
                                                           !.active = "provider_preflight"]]
        /\ book' = [book EXCEPT ![T] = "running"]
        /\ Goto("fatal")
  /\ UNCHANGED <<space, evidence, record, runs, batches>>

\* The exception of a failed stage, or of one whose time was over, passes over the
\* one that follows it.
Broken == {"failed", "timeout"}
LeftOut == Current.follows /\ cmd.outcome \in Broken
PassesOver ==
  /\ cmd.pc = "stage" /\ AtStage /\ LeftOut
  /\ cmd' = [cmd EXCEPT !.k = @ + 1]
  /\ UNCHANGED <<man, book, space, evidence, record, runs, batches>>

\* begin_stage: a new attempt; the input files must be there, whoever made them.
BeginsStage ==
  /\ cmd.pc = "stage" /\ AtStage /\ ~LeftOut
  /\ \/ /\ \E x \in Current.reads : made[T][x] = 0
        /\ Goto("fatal") /\ UNCHANGED <<man, attempt, shown>>
     \/ /\ \A x \in Current.reads : made[T][x] # 0
        /\ Current.copies
        /\ Goto("publish") /\ UNCHANGED <<man, attempt, shown>>
     \/ /\ \A x \in Current.reads : made[T][x] # 0
        /\ ~Current.copies
        /\ attempt' = [attempt EXCEPT ![T][Current.name] = "running"]
        /\ shown' = [shown EXCEPT ![T][Current.name] = "running"]
        /\ man' = [man EXCEPT ![T].active = Current.name]
        /\ Goto("process")
  /\ UNCHANGED <<book, made, ply, tree, backup, evidence, record, runs, batches>>

\* How a stage may end: only the reconstruction is given a time.
StageOutcomes(o, s) ==
  {"ready", "failed"} \cup (IF s.rejects = "never" THEN {} ELSE {"rejected"})
                      \cup (IF s.name = "model_generation" /\ o.timeout THEN {"timeout"} ELSE {})

\* What the manifest says of the stage then.
Noted(m, outcome) ==
  [m EXCEPT !.active = "none",
            !.failed = IF outcome = "failed" THEN @ \cup {Current.name} ELSE @,
            !.late = IF outcome = "timeout" THEN @ \cup {Current.name} ELSE @]

\* The process of the stage ends; when it fails or its time is over it may leave
\* half-written files.
StageReturns ==
  /\ cmd.pc = "process"
  /\ \E outcome \in StageOutcomes(Options[T], Current) :
       /\ cmd' = [cmd EXCEPT !.pc = "finish", !.outcome = outcome]
       /\ man' = [man EXCEPT ![T] = Noted(@, outcome)]
       /\ \/ /\ outcome \in Broken
             /\ \E torn \in {{}, Current.writes} :
                  made' = [made EXCEPT ![T] =
                             [x \in Outputs |-> IF x \in torn THEN -cmd.run ELSE @[x]]]
          \/ /\ outcome \notin Broken
             /\ made' = [made EXCEPT ![T] =
                           [x \in Outputs |-> IF x \in Current.writes THEN cmd.run ELSE @[x]]]
  /\ UNCHANGED <<book, attempt, shown, ply, tree, backup, evidence, record, runs, batches>>

\* finish_stage: the record of the attempt gets its status; what should say so
\* beside it is written into another file (attempts/manifest.json), so that
\* stages/<s>/manifest.json stays as it was.
FinishesStage ==
  /\ cmd.pc = "finish"
  /\ attempt' = [attempt EXCEPT ![T][Current.name] =
                   IF cmd.outcome \in Broken THEN cmd.outcome ELSE "ready"]
  /\ \/ /\ cmd.outcome \in Broken /\ ~(Current.tolerated /\ Options[T].goOn)
        /\ Goto("fatal") /\ UNCHANGED man
     \/ /\ cmd.outcome \in Broken /\ Current.tolerated /\ Options[T].goOn
        /\ cmd' = [cmd EXCEPT !.pc = "stage", !.k = @ + 1] /\ UNCHANGED man
     \/ /\ cmd.outcome = "rejected"
        /\ man' = [man EXCEPT ![T].rejected = @ \cup {Current.name}]
        /\ cmd' = IF Current.rejects = "stop" THEN [cmd EXCEPT !.pc = "fatal"]
                  ELSE [cmd EXCEPT !.pc = "stage", !.k = @ + 1]
     \/ /\ cmd.outcome = "ready" /\ UNCHANGED man
        /\ IF Current.name = "sags" THEN Goto("publish")
           ELSE cmd' = [cmd EXCEPT !.pc = "stage", !.k = @ + 1]
  /\ UNCHANGED <<book, made, shown, ply, tree, backup, evidence, record, runs, batches>>

-----------------------------------------------------------------------------
(* publish_file and publish_tree.                                          *)

\* The file is replaced at once.  The diagnostics, which only trellis has, are
\* copied beside their place first.
PublishesFile ==
  /\ cmd.pc = "publish"
  /\ ply' = [ply EXCEPT ![T] = cmd.run]
  /\ IF Trellis(Options[T]) THEN Goto("aside") ELSE cmd' = [cmd EXCEPT !.pc = "stage", !.k = @ + 1]
  /\ UNCHANGED <<man, book, made, attempt, shown, tree, backup, evidence, record, runs, batches>>

\* The directory that is there is moved aside, where it stays if the pipeline is
\* killed before the next step.
MovesAside ==
  /\ cmd.pc = "aside"
  /\ \/ Goto("fatal") /\ UNCHANGED <<tree, backup>>
     \/ /\ tree' = [tree EXCEPT ![T] = 0]
        /\ backup' = [backup EXCEPT ![T] = @ \cup ({tree[T]} \ {0})]
        /\ cmd' = [cmd EXCEPT !.pc = "move", !.aside = tree[T]]
  /\ UNCHANGED <<man, book, made, attempt, shown, ply, evidence, record, runs, batches>>

Unmoved == backup' = [backup EXCEPT ![T] = @ \ {cmd.aside}]
\* Mutant of PutBack: the old directory is removed all the same.
DropsBackup == UNCHANGED tree /\ Unmoved
PutBack == tree' = [tree EXCEPT ![T] = cmd.aside] /\ Unmoved

\* The new one takes its place; if that fails the old one is put back.
MovesIn ==
  /\ cmd.pc = "move"
  /\ \/ /\ tree' = [tree EXCEPT ![T] = cmd.run] /\ Unmoved
        /\ cmd' = [cmd EXCEPT !.pc = "stage", !.k = @ + 1, !.aside = 0]
     \/ PutBack /\ cmd' = [cmd EXCEPT !.pc = "fatal", !.aside = 0]
  /\ UNCHANGED <<man, book, made, attempt, shown, ply, evidence, record, runs, batches>>

-----------------------------------------------------------------------------
(* The end of the run.                                                     *)

\* Mutant of Outcome: a failure that was tolerated does not count.
OutcomeTolerant(m) ==
  IF m.failed \ {"model_generation", "mesh_to_gaussian", "segmentation"} # {} THEN "failed"
  ELSE IF m.rejected # {} THEN "rejected" ELSE "ready"
Outcome(m) ==
  IF m.failed # {} THEN "failed" ELSE IF m.rejected # {} THEN "rejected" ELSE "ready"

WritesOutcome ==
  /\ cmd.pc = "stage" /\ ~AtStage
  /\ man' = [man EXCEPT ![T].status = Outcome(man[T])]
  /\ Goto("book")
  /\ UNCHANGED <<book, space, evidence, record, runs, batches>>

WritesBook ==
  /\ cmd.pc = "book"
  /\ book' = [book EXCEPT ![T] = man[T].status]
  /\ Goto("evidence")
  /\ UNCHANGED <<man, space, evidence, record, runs, batches>>

WritesEvidence ==
  /\ cmd.pc = "evidence"
  /\ \/ Goto("fatal") /\ UNCHANGED evidence
     \/ /\ evidence' = [evidence EXCEPT ![T] = @ \cup {cmd.run}]
        /\ cmd' = [cmd EXCEPT !.pc = "ended",
                     !.code = CASE man[T].status = "failed" -> 1
                                [] man[T].status = "rejected" -> 2
                                [] OTHER -> 0]
  /\ UNCHANGED <<man, book, space, record, runs, batches>>

-----------------------------------------------------------------------------
(* What may happen to the processes.                                       *)

Moving == cmd.pc = "move"
InPipeline == cmd.pc \notin {"off", "task", "refused", "ended"}

\* A killed pipeline may leave a manifest cut short, since that is written in
\* place; one that dies before it has read its arguments leaves everything.
PipelineDies ==
  /\ InPipeline
  /\ \/ UNCHANGED man
     \/ cmd.pc # "check" /\ man' = [man EXCEPT ![T].status = "torn"]
  /\ cmd' = [cmd EXCEPT !.pc = "ended", !.code = -9]
  /\ UNCHANGED <<book, space, evidence, record, runs, batches>>

\* With the batch its pipeline goes, too.  Its own files are written in place as
\* well: the manifest of a task it refuses, and its records.
BatchDies ==
  /\ cmd.pc # "off"
  /\ \/ UNCHANGED <<man, record>>
     \/ cmd.pc = "task" /\ man' = [man EXCEPT ![T].status = "torn"] /\ UNCHANGED record
     \/ cmd.pc \in {"refused", "ended"} /\ record' = [t \in Task |-> NoRecord] /\ UNCHANGED man
  /\ cmd' = Off
  /\ UNCHANGED <<book, space, evidence, runs, batches>>

PipelineNext ==
  \/ BatchStarts \/ SkipsTask \/ RefusesTask \/ RecordsRefusal \/ Launches \/ RecordsTask
  \/ Fatal \/ Opens \/ PassesOver \/ BeginsStage \/ StageReturns \/ FinishesStage
  \/ PublishesFile \/ MovesAside \/ MovesIn
  \/ WritesOutcome \/ WritesBook \/ WritesEvidence
  \/ PipelineDies \/ BatchDies

PipelineSpec == PipelineInit /\ [][PipelineNext]_pipelineVars

-----------------------------------------------------------------------------

Statuses == {"absent", "torn", "open", "blocked", "failed", "rejected", "ready"}

\* Types; while a stage runs, its attempt, its manifest and the workspace say so.
PipelineTypeOK ==
  /\ \A t \in Task : /\ man[t].status \in Statuses /\ man[t].run \in 0..runs
                     /\ man[t].active \in StageNames \cup {"none", "provider_preflight"}
                     /\ \A x \in Outputs : made[t][x] \in -runs..runs
                     /\ ply[t] \in 0..runs /\ tree[t] \in 0..runs
                     /\ backup[t] \subseteq 1..runs /\ evidence[t] \subseteq 1..runs
  /\ cmd.pc # "off" => cmd.i \in 1..Len(Tasks)
  /\ cmd.pc = "process" =>
       /\ AtStage /\ man[T].run = cmd.run /\ man[T].active = Current.name
       /\ attempt[T][Current.name] = "running"
  /\ runs \in 0..MaxRuns /\ batches \in 0..MaxBatches

\* A task whose manifest says ready was made by that one run: every stage of its
\* plan succeeded in it, none of its outputs is left over from an earlier run or
\* half written, and what is published is its own.  The one exception is a
\* reconstruction whose time was over, which --continue-on-error goes on without:
\* failed_stages does not count it, but the manifest says timeout of it.
Reconstruction == {"model_generation", "mesh_to_gaussian"}
Excused(m) == IF m.late = {} THEN {} ELSE Reconstruction
ReadySound ==
  \A t \in Task : man[t].status = "ready" =>
    LET plan == Plan(Options[t])
    IN  /\ \A k \in DOMAIN plan : plan[k].name \notin Excused(man[t]) =>
             /\ \A x \in plan[k].writes : made[t][x] = man[t].run
             /\ ~plan[k].copies => attempt[t][plan[k].name] = "ready"
        /\ Options[t].sags # "no" => ply[t] = man[t].run
        /\ man[t].late # {} => Options[t].goOn

\* A task recorded as ready in batch_manifest.json has the evidence of that run.
\* While the record is of the latest command, its manifest still says so, too,
\* unless the job file lists the task again.
Listed(t) == {i \in DOMAIN Tasks : Tasks[i] = t}
RecordSound ==
  \A t \in Task : record[t].status = "ready" =>
    /\ record[t].run \in evidence[t]
    /\ record[t].batch = batches /\ (\A i, j \in Listed(t) : i = j) =>
         man[t].status = "ready" /\ man[t].run = record[t].run

\* "A failed attempt must never erase a ready one": diagnostics, once published,
\* are never gone: only a kill between the two renames takes them from their place,
\* and then they lie aside.
Available(t) == tree[t] # 0 \/ backup[t] # {}
InPlace(t) == tree[t] # 0 \/ (Moving /\ T = t /\ cmd.aside # 0)
PublishedKept ==
  [][\A t \in Task : /\ Available(t) => Available(t)'
                     /\ InPlace(t) => InPlace(t)' \/ (Moving /\ (PipelineDies \/ BatchDies))]_pipelineVars

-----------------------------------------------------------------------------
(* What one would expect, and the code does not keep.                      *)

\* A ready manifest has no stage whose time was over.
ReadyInTime == \A t \in Task : man[t].status = "ready" => man[t].late = {}

\* A record that says ready is true of its task, whatever has been begun since.
RecordsCurrent == \A t \in Task : record[t].status = "ready" => man[t].status = "ready"

\* Published diagnostics stay at their place, where the others look for them.
StaysInPlace == [][\A t \in Task : InPlace(t) => InPlace(t)']_pipelineVars

\* stages/<s>/manifest.json is to name the latest attempt with its status: when
\* that attempt has ended, it does not say running.
EndIsShown ==
  \A t \in Task : \A s \in StageNames :
    attempt[t][s] \in {"ready", "failed", "timeout"} => shown[t][s] # "running"

\* What the latest command has recorded as rejected, the pipeline of that record has
\* rejected.
RejectedSound ==
  \A t \in Task : record[t].status = "rejected" /\ record[t].batch = batches =>
    man[t].run = record[t].run

\* A task that is skipped as ready has its evidence.
SkippedProven == \A t \in Task : record[t].status = "skipped" => record[t].run \in evidence[t]
=============================================================================
