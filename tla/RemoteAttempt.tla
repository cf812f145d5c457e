--------------------------- MODULE RemoteAttempt ---------------------------
(***************************************************************************)
(* One stage that runs on the GPU server over SSH: its attempts, the local *)
(* SSH wrapper (RemoteStageRunner.run in remote_worker.py), the start      *)
(* script, stage_adapter.py and its stage process on the server, and the   *)
(* recover-remote commands (RemoteRecoveryManager in remote_recovery.py).  *)
(*                                                                         *)
(* The wrapper and the server share nothing but ssh and scp calls; any of  *)
(* them can be lost, the wrapper can die at any step, and commands run     *)
(* beside each other: nothing locks the files of an attempt.  Each ssh     *)
(* call, each file operation and each transaction is a step.  A commit is  *)
(* one step here (LeaseScheduler looks into it), and the stage has the one *)
(* GPU slot for itself.  upload_inputs and download_results, which start   *)
(* nothing on the server, are not modelled.                                *)
(***************************************************************************)
EXTENDS Naturals

CONSTANTS
  Tries,        \* bound: attempts of the stage
  Operator,     \* recover-remote commands that may run at once
  Wrapper,      \* the local SSH wrapper process
  LateStart,    \* may the start script arrive after its ssh client is gone?
  Orphans,      \* can the stage process outlive a killed stage_adapter?
  SlowProbe,    \* may the server change while a probe script runs?
  Refusable     \* results whose downloaded tree may be refused

ASSUME RemoteAssumption ==
  /\ Tries \in Nat \ {0}
  /\ Wrapper \notin Operator
  /\ LateStart \in BOOLEAN /\ Orphans \in BOOLEAN /\ SlowProbe \in BOOLEAN
  /\ Refusable \subseteq {"succeeded", "failed", "leaked"}

VARIABLES
  state,        \* stages.state
  now,          \* the number of the newest attempt, 0 before the first
  actor,        \* where the wrapper and the commands are
  staging,      \* output.staging of each attempt, on this machine
  download,     \* does the attempt's remote-download directory exist?
  script,       \* the start script of each attempt, and the files it wrote
  adapter,      \* stage_adapter.py on the server
  child,        \* the process group stage_adapter started for the stage
  result        \* stage_result.json on the server

local  == <<state, now, actor, staging, download>>
server == <<script, adapter, child, result>>
vars   == <<local, server>>

-----------------------------------------------------------------------------
Attempt == 1..Tries
Actor   == Operator \cup {Wrapper}

\* "stuck": state 'recovering' with another error code than delivery_unknown.
Occupied == {"leased", "recovering", "stuck"}
\* "failed" stands for failed_terminal, rejected and canceled.
States   == Occupied \cup {"ready", "succeeded", "failed"}
\* What a stage result says; "leaked" is a failure with cleanup.completed = false.
Results  == {"succeeded", "failed", "leaked"}
\* stage_result.json of the wrapper itself.  "torn" is a result whose artifacts
\* are gone, "overwritten" one whose manifest _unknown replaced.
Manifests == Results \cup {"transient", "unknown", "invalid", "torn", "overwritten"}
Stagings == Manifests \cup {"missing", "empty", "partial"}
Scripts  == {"none", "sent", "lost", "locked", "refused", "launched", "started", "unreadable", "dead"}

Idle == [op |-> "idle", pc |-> "idle", at |-> 0, early |-> FALSE, got |-> "empty"]
ActorState == [op : {"idle", "run", "recover", "resolve", "cancel"},
               pc : {"idle", "upload", "start", "poll", "report", "probe", "archive", "rename",
                     "mkdir", "download", "fetch", "move", "reactivate", "submit", "settle", "kill"},
               at : 0..Tries, early : BOOLEAN, got : Stagings]

TypeOK ==
  /\ state \in States
  /\ now \in 0..Tries
  /\ actor \in [Actor -> ActorState]
  /\ staging \in [Attempt -> Stagings]
  /\ download \in [Attempt -> BOOLEAN]
  /\ script \in [Attempt -> Scripts]
  /\ adapter \in [Attempt -> {"none", "running", "dead"}]
  /\ child \in [Attempt -> {"none", "running", "dead"}]
  /\ result \in [Attempt -> Results \cup {"none"}]

Init ==
  /\ state = "ready"
  /\ now = 0
  /\ actor = [x \in Actor |-> Idle]
  /\ staging = [a \in Attempt |-> "empty"]
  /\ download = [a \in Attempt |-> FALSE]
  /\ script = [a \in Attempt |-> "none"]
  /\ adapter = [a \in Attempt |-> "none"]
  /\ child = [a \in Attempt |-> "none"]
  /\ result = [a \in Attempt |-> "none"]

-----------------------------------------------------------------------------
(* Actors and files.                                                       *)
At(x, pc)       == actor[x].pc = pc
Of(x)           == actor[x].at
Goes(x, pc)     == actor' = [actor EXCEPT ![x].pc = pc]
Leaves(x)       == actor' = [actor EXCEPT ![x] = Idle]
\* RemoteStageRunner returns a report: the worker submits what the wrapper left
\* in staging; a command that did not get result_downloaded just ends.
Returns(x)      == IF x = Wrapper THEN Goes(x, "report") ELSE Leaves(x)
SetStaging(a, v) == staging' = [staging EXCEPT ![a] = v]

\* _unknown: cleanup=false, delivery_unknown, on top of whatever is there.
Unknown(a) == SetStaging(a, IF staging[a] \in {"succeeded", "overwritten"}
                            THEN "overwritten" ELSE "unknown")

\* The state CommandExecutor, RemoteStageExecutor and fail() settle a manifest in.
\* Mutant of Outcomes: the status of the result is stored as the state.
OutcomesRaw(v) == {v}
Outcomes(v) ==
  CASE v \in {"failed", "transient"}    -> {"ready", "failed"}
    [] v \in {"unknown", "overwritten"} -> {"recovering"}
    [] v = "leaked"                     -> {"stuck"}
    [] v = "invalid"                    -> {"failed"}
    [] OTHER                            -> {}

\* commit_success checks every artifact in staging and moves it away; a failed
\* check leaves the lease to run out.
Submits(a, v) ==
  \/ /\ v = "succeeded"
     /\ staging[a] \in {"succeeded", "overwritten"}
     /\ state' = "succeeded"
     /\ SetStaging(a, "missing")
  \/ /\ state' \in Outcomes(v)
     /\ UNCHANGED staging

\* get_recovering_item, reactivate and resolve: the row of this token is the
\* stage's lease, revoked, and both state and attempt are 'recovering'.
Fenced(a) == now = a /\ state \in {"recovering", "stuck"}

\* An ssh client that dies takes an undelivered command with it.
Disconnect(a) ==
  IF script[a] = "sent" /\ ~LateStart THEN [script EXCEPT ![a] = "lost"] ELSE script

\* What the probe script prints; finished: stage_result.json was there when the
\* script looked.
\* Mutant of Printed: the process is looked at before the result.
PrintedProcessFirst(a, finished) ==
  CASE script[a] = "started"    -> IF adapter[a] = "running" THEN "RUNNING" ELSE "EXITED"
    [] finished                 -> "RESULT"
    [] script[a] \in {"none", "sent", "lost"} -> "MISSING"
    [] OTHER                    -> "IDENTITY_INVALID"
Printed(a, finished) ==
  CASE finished                 -> "RESULT"
    [] ~finished /\ script[a] = "started" ->
         IF adapter[a] = "running" THEN "RUNNING" ELSE "EXITED"
    [] ~finished /\ script[a] \in {"none", "sent", "lost"} -> "MISSING"
    [] OTHER                    -> "IDENTITY_INVALID"
Observed(a) == Printed(a, result[a] # "none")
\* early: was the result there when the command's script began?  With SlowProbe
\* that is when the script looked for it.
Seen(c) == Printed(Of(c), IF SlowProbe THEN actor[c].early ELSE result[Of(c)] # "none")
Stopped == {"EXITED", "MISSING"}

-----------------------------------------------------------------------------
(* The wrapper: RemoteStageRunner.run, and the worker that waits for it.   *)
\* Mutant of Leasable: a fenced lease does not occupy the slot.
LeasableFenced == state \in {"ready", "recovering"} /\ now < Tries
Leasable == state = "ready" /\ now < Tries

Lease ==
  /\ Leasable
  /\ now' = now + 1
  /\ state' = "leased"
  /\ actor' = [actor EXCEPT ![Wrapper] =
                 [Idle EXCEPT !.op = "run", !.pc = "upload", !.at = now + 1]]
  /\ UNCHANGED <<staging, download, server>>

\* The request cannot be written or the profile is wrong: no wrapper starts.
NotStarted ==
  /\ At(Wrapper, "upload")
  /\ state' = "failed"
  /\ Leaves(Wrapper)
  /\ UNCHANGED <<now, staging, download, server>>

Uploads ==
  /\ At(Wrapper, "upload")
  /\ \/ /\ Goes(Wrapper, "start")
        /\ script' = [script EXCEPT ![now] = "sent"]
        /\ UNCHANGED staging
     \/ /\ SetStaging(now, "transient")
        /\ Returns(Wrapper)
        /\ UNCHANGED script
  /\ UNCHANGED <<state, now, download, adapter, child, result>>

StartAnswered ==
  /\ At(Wrapper, "start")
  /\ \/ /\ script[now] \in {"started", "unreadable"}
        /\ Goes(Wrapper, "poll")
        /\ UNCHANGED staging
     \/ /\ script[now] = "refused"
        /\ Unknown(now)
        /\ Returns(Wrapper)
  /\ UNCHANGED <<state, now, download, server>>

Polls ==
  /\ At(Wrapper, "poll")
  /\ \/ /\ Observed(now) = "RESULT"
        /\ Goes(Wrapper, "download")
        /\ UNCHANGED staging
     \/ /\ Observed(now) \notin {"RESULT", "RUNNING"}
        /\ Unknown(now)
        /\ Returns(Wrapper)
  /\ UNCHANGED <<state, now, download, server>>

\* ssh fails or times out, or status_timeout_seconds is over.
ConnectionLost ==
  /\ At(Wrapper, "start") \/ At(Wrapper, "poll")
  /\ Unknown(now)
  /\ Returns(Wrapper)
  /\ script' = Disconnect(now)
  /\ UNCHANGED <<state, now, download, adapter, child, result>>

\* The worker hands in what the wrapper left.
Report ==
  /\ At(Wrapper, "report")
  /\ Submits(now, staging[now])
  /\ Leaves(Wrapper)
  /\ UNCHANGED <<now, download, server>>

\* The wrapper dies, or the lease runs out and recover_expired kills it: for a
\* remote stage both end in 'recovering' with delivery_unknown.
LeaseOrWrapperLost ==
  /\ state = "leased"
  /\ state' = "recovering"
  /\ Leaves(Wrapper)
  /\ script' = Disconnect(now)
  /\ UNCHANGED <<now, staging, download, adapter, child, result>>

-----------------------------------------------------------------------------
(* _download, which the wrapper and recover_result share.  That the        *)
(* download directory does not exist is checked as scp makes it.           *)
FetchStarts(x) ==
  /\ At(x, "download")
  /\ IF download[Of(x)]
     THEN Leaves(x) /\ UNCHANGED download
     ELSE Goes(x, "fetch") /\ download' = [download EXCEPT ![Of(x)] = TRUE]
  /\ UNCHANGED <<state, now, staging, server>>

\* scp fails before, or while, it fills the directory.
FetchFails(x) ==
  /\ At(x, "fetch") \/ (At(x, "download") /\ ~download[Of(x)])
  /\ Unknown(Of(x))
  /\ Returns(x)
  /\ UNCHANGED <<state, now, download, server>>

\* _validate_download refuses the tree, or its first move fails: it is put aside.
FetchRefused(x) ==
  /\ \/ At(x, "fetch") /\ result[Of(x)] \in Refusable
     \/ At(x, "move") /\ staging[Of(x)] = "missing"
  /\ SetStaging(Of(x), "invalid")
  /\ download' = [download EXCEPT ![Of(x)] = FALSE]
  /\ Returns(x)
  /\ UNCHANGED <<state, now, server>>

Validates(x) ==
  /\ At(x, "fetch") /\ staging[Of(x)] # "missing"
  /\ SetStaging(Of(x), "partial")
  /\ Goes(x, "move")
  /\ UNCHANGED <<state, now, download, server>>

\* The manifest is moved last.  Files moved before someone archived staging are gone.
Moves(x) ==
  /\ At(x, "move") /\ staging[Of(x)] # "missing"
  /\ SetStaging(Of(x), IF staging[Of(x)] # "partial" /\ result[Of(x)] = "succeeded"
                       THEN "torn" ELSE result[Of(x)])
  /\ download' = [download EXCEPT ![Of(x)] = FALSE]
  /\ IF x = Wrapper THEN Returns(x) ELSE Goes(x, "reactivate")
  /\ UNCHANGED <<state, now, server>>

-----------------------------------------------------------------------------
(* recover-remote.                                                         *)
Begins(c) ==
  /\ actor[c] = Idle /\ state = "recovering"
  /\ \E op \in {"recover", "resolve", "cancel"} :
       actor' = [actor EXCEPT ![c] = [Idle EXCEPT !.op = op, !.pc = "probe", !.at = now,
                                                  !.early = result[now] # "none"]]
  /\ UNCHANGED <<state, now, staging, download, server>>

\* A --probe is this step and nothing else.
Probe(c) ==
  /\ At(c, "probe")
  /\ \/ actor[c].op = "recover" /\ Seen(c) = "RESULT" /\ Goes(c, "archive")
     \/ actor[c].op = "resolve" /\ Seen(c) \in Stopped /\ Goes(c, "settle")
     \/ actor[c].op = "cancel" /\ Seen(c) = "RUNNING" /\ Goes(c, "kill")
  /\ UNCHANGED <<state, now, staging, download, server>>

\* A refusal, a failed ssh call or the death of the command.
Ends(c) ==
  /\ actor[c] # Idle
  /\ Leaves(c)
  /\ UNCHANGED <<state, now, staging, download, server>>

\* _archive_transport_failure: the check of the old manifest, ...
ArchiveChecks(c) ==
  /\ At(c, "archive")
  /\ \/ staging[Of(c)] = "empty" /\ Goes(c, "download")
     \/ staging[Of(c)] \in {"unknown", "overwritten"} /\ Goes(c, "rename")
  /\ UNCHANGED <<state, now, staging, download, server>>

\* ... staging.replace(destination), ...
ArchiveRenames(c) ==
  /\ At(c, "rename") /\ staging[Of(c)] # "missing"
  /\ SetStaging(Of(c), "missing")
  /\ Goes(c, "mkdir")
  /\ UNCHANGED <<state, now, download, server>>

\* ... and staging.mkdir(exist_ok=False).
ArchiveMakes(c) ==
  /\ At(c, "mkdir") /\ staging[Of(c)] = "missing"
  /\ SetStaging(Of(c), "empty")
  /\ Goes(c, "download")
  /\ UNCHANGED <<state, now, download, server>>

\* The downloaded manifest is read back and the original lease made valid again.
Reactivate(c) ==
  /\ At(c, "reactivate")
  /\ staging[Of(c)] \in Manifests
  /\ Fenced(Of(c))
  /\ state' = "leased"
  /\ actor' = [actor EXCEPT ![c] = [@ EXCEPT !.pc = "submit", !.got = staging[Of(c)]]]
  /\ UNCHANGED <<now, staging, download, server>>

\* commit_success or fail under the reactivated lease.
Submit(c) ==
  /\ At(c, "submit")
  /\ state = "leased" /\ now = Of(c)
  /\ Submits(Of(c), IF actor[c].got = "torn" THEN "succeeded" ELSE actor[c].got)
  /\ Leaves(c)
  /\ UNCHANGED <<now, download, server>>

\* resolve_recovering_item: retry or terminal; the lease row is deleted.
Settle(c) ==
  /\ At(c, "settle")
  /\ Fenced(Of(c))
  /\ state' \in {"ready", "failed"}
  /\ Leaves(c)
  /\ UNCHANGED <<now, staging, download, server>>

-----------------------------------------------------------------------------
(* The server.                                                             *)
ScriptLocks(a) ==
  /\ script[a] = "sent"
  /\ script' = [script EXCEPT ![a] = "locked"]
  /\ UNCHANGED <<local, adapter, child, result>>

\* No setsid, or no environment file.
ScriptRefuses(a) ==
  /\ script[a] = "locked"
  /\ script' = [script EXCEPT ![a] = "refused"]
  /\ UNCHANGED <<local, adapter, child, result>>

ScriptLaunches(a) ==
  /\ script[a] = "locked"
  /\ script' = [script EXCEPT ![a] = "launched"]
  /\ adapter' = [adapter EXCEPT ![a] = "running"]
  /\ UNCHANGED <<local, child, result>>

\* The pid, group, boot id and start ticks; the ticks of a dead process are empty.
ScriptRecords(a) ==
  /\ script[a] = "launched"
  /\ script' = [script EXCEPT ![a] = IF adapter[a] = "running" THEN "started" ELSE "unreadable"]
  /\ UNCHANGED <<local, adapter, child, result>>

\* _run_commands starts the commands of a stage one after another.
AdapterSpawns(a) ==
  /\ adapter[a] = "running" /\ child[a] # "running"
  /\ child' = [child EXCEPT ![a] = "running"]
  /\ UNCHANGED <<local, script, adapter, result>>

ChildEnds(a) ==
  /\ child[a] = "running"
  /\ child' = [child EXCEPT ![a] = "dead"]
  /\ UNCHANGED <<local, script, adapter, result>>

\* The result is the adapter's last act.
AdapterFinishes(a) ==
  /\ adapter[a] = "running" /\ child[a] # "running"
  /\ \E v \in {"succeeded", "failed"} :
       /\ v = "succeeded" => child[a] = "dead"
       /\ result' = [result EXCEPT ![a] = v]
  /\ adapter' = [adapter EXCEPT ![a] = "dead"]
  /\ UNCHANGED <<local, script, child>>

\* A timeout or SIGTERM: _terminate stops the stage process, or cannot.
GivesUp(a) ==
  /\ adapter[a] = "running"
  /\ adapter' = [adapter EXCEPT ![a] = "dead"]
  /\ \/ /\ child' = [child EXCEPT ![a] = IF @ = "running" THEN "dead" ELSE @]
        /\ result' = [result EXCEPT ![a] = "failed"]
     \/ /\ child[a] = "running"
        /\ result' = [result EXCEPT ![a] = "leaked"]
        /\ UNCHANGED child
AdapterGivesUp(a) == GivesUp(a) /\ UNCHANGED <<local, script>>

\* SIGKILL, out of memory, an unexpected exception.  The stage process has a
\* session of its own.
Dies(a) ==
  /\ adapter[a] = "running"
  /\ adapter' = [adapter EXCEPT ![a] = "dead"]
  /\ child' = [child EXCEPT ![a] = IF @ = "running" /\ ~Orphans THEN "dead" ELSE @]
  /\ UNCHANGED result
AdapterDies(a) == Dies(a) /\ UNCHANGED <<local, script>>

Reboot ==
  /\ adapter' = [a \in Attempt |-> IF adapter[a] = "running" THEN "dead" ELSE adapter[a]]
  /\ child' = [a \in Attempt |-> IF child[a] = "running" THEN "dead" ELSE child[a]]
  /\ script' = [a \in Attempt |-> IF script[a] \in {"locked", "launched"} THEN "dead" ELSE script[a]]
  /\ UNCHANGED <<local, result>>

\* terminate_group: TERM, then KILL for what is left of the group.  No branch
\* of the script prints CLEANED, so cancel_running never releases the slot.
KillGroup(c) ==
  /\ At(c, "kill")
  /\ Observed(Of(c)) = "RUNNING"
  /\ GivesUp(Of(c)) \/ Dies(Of(c))
  /\ Leaves(c)
  /\ UNCHANGED <<state, now, staging, download, script>>

-----------------------------------------------------------------------------
WrapperNext == Lease \/ NotStarted \/ Uploads \/ StartAnswered \/ Polls \/ ConnectionLost 
                 \/ Report \/ LeaseOrWrapperLost
Download(x) == FetchStarts(x) \/ FetchFails(x) \/ FetchRefused(x) \/ Validates(x) \/ Moves(x)
Command(c)  == \/ Begins(c) \/ Probe(c) \/ Ends(c) \/ Reactivate(c) \/ Submit(c) \/ Settle(c)
               \/ ArchiveChecks(c) \/ ArchiveRenames(c) \/ ArchiveMakes(c) \/ KillGroup(c)
Server(a)   == \/ ScriptLocks(a) \/ ScriptRefuses(a) \/ ScriptLaunches(a) \/ ScriptRecords(a)
               \/ AdapterSpawns(a) \/ ChildEnds(a) \/ AdapterFinishes(a) \/ AdapterGivesUp(a)
               \/ AdapterDies(a)

Next ==
  \/ WrapperNext
  \/ \E x \in Actor : Download(x)
  \/ \E c \in Operator : Command(c)
  \/ \E a \in Attempt : Server(a)
  \/ Reboot

Spec == Init /\ [][Next]_vars

-----------------------------------------------------------------------------
(* Properties.                                                             *)

\* What runs on the server belongs to the newest attempt, and the stage still
\* has its GPU slot: no probe, recovery or retry gives up a slot in use.
GpuHeld == \A a \in Attempt :
  adapter[a] = "running" \/ child[a] = "running" => a = now /\ state \in Occupied

\* A fenced attempt is given up only if its server has no result: a finished
\* computation is never thrown away by a retry or a terminal decision.
ResultNotDiscarded ==
  [][(state \in {"recovering", "stuck"} /\ state' \in {"ready", "failed"}) => result[now] = "none"]_vars

\* Even where a start command arrives late and the server changes while a script
\* looks: the decision that gives a finished result up is one of a command whose
\* probe began before the result was there.
ResultSeenKept ==
  [][(state \in {"recovering", "stuck"} /\ state' \in {"ready", "failed"} /\ result[now] # "none")
       => (\E c \in Operator : At(c, "settle") /\ Of(c) = now /\ ~actor[c].early)]_vars

\* Whatever is late, outlives its adapter or is refused: a slot is given up under
\* something that runs, or is about to be launched, only by a decision on what a
\* probe said, or by handing in a tree that was put aside as invalid; no manifest
\* that tells how the stage ended or that nothing was started does it.
Quiet(a) ==
  script[a] \notin {"sent", "locked"} /\ adapter[a] # "running" /\ child[a] # "running"
Decided(a)   == \E c \in Operator : At(c, "settle") /\ Of(c) = a
PutAside(a)  ==
  \/ At(Wrapper, "report") /\ staging[a] = "invalid"
  \/ \E c \in Operator : At(c, "submit") /\ Of(c) = a /\ actor[c].got = "invalid"
QuietRelease ==
  [][(state \in Occupied /\ state' \notin Occupied) => (Quiet(now) \/ Decided(now) \/ PutAside(now))]_vars

\* A settled attempt stays settled: a command that began before another one
\* settled the attempt neither reopens it nor changes the outcome.
SettledOnce ==
  [][(state \notin Occupied /\ now' = now) => state' = state]_vars

\* The attempts use the GPU as OccupiedSlot promises.
Slot == INSTANCE OccupiedSlot WITH
  holder <- IF state \in Occupied THEN {now} ELSE {},
  busy   <- {a \in Attempt : adapter[a] = "running" \/ child[a] = "running"}
SlotSpec == Slot!Spec

\* A result that is on the server, behind a fence nobody is working on, can be
\* handed in: recover_result would accept what is in the local directories.
RecoverableResult ==
  state = "recovering" /\ result[now] # "none" /\ (\A x \in Actor : actor[x] = Idle)
    => staging[now] \in {"empty", "unknown", "overwritten"} /\ ~download[now]

\* What was downloaded is not put aside as the evidence of a failed transport.
EvidenceKept ==
  [][\A a \in Attempt : staging[a] \in {"partial", "succeeded", "torn"} => staging'[a] # "missing"
       \/ state' = "succeeded"]_vars
=============================================================================
