---------------------------- MODULE ServerProofs ----------------------------
(***************************************************************************)
(* What holds on the server: of a stage that runs there over SSH           *)
(* (RemoteAttempt), and of the older batch command with its pipeline       *)
(* (Pipeline, the last part of the module).                                *)
(*                                                                         *)
(* A remote stage, for every number of attempts, every set of concurrent   *)
(* recovery commands and every fault at once: who may work on the newest   *)
(* attempt (Owner), what has happened on the server before its result is   *)
(* there (ServerInv, EndedInv), what the files on this machine say of it   *)
(* (StagedInv, HandInv), and with them who gives up a result and the GPU.  *)
(*                                                                         *)
(* The batch and its pipeline, for every job file and all options: one     *)
(* inductive invariant, Sound, says that while stages run the manifest is  *)
(* that of the run at hand (Owned) and has heard of every stage that was   *)
(* out of time (Heard), that as long as it counts no failure all other     *)
(* stages behind have succeeded in this very run (Progress), and that an   *)
(* exit code of 0 speaks for that manifest and its evidence (Closing).     *)
(***************************************************************************)
EXTENDS RemoteAttempt, Pipeline, SequenceTheorems, TLAPS

-----------------------------------------------------------------------------
(* Actors.                                                                 *)

Working(x) == ~At(x, "idle")

\* A step of one actor leaves the others where they are.
LEMMA ActorMoves ==
  ASSUME actor \in [Actor -> ActorState], NEW x \in Actor
  PROVE  /\ \A pc : Goes(x, pc) => \A y \in Actor :
              /\ actor'[y].pc = IF y = x THEN pc ELSE actor[y].pc
              /\ actor'[y].at = actor[y].at /\ actor'[y].early = actor[y].early /\ actor'[y].got = actor[y].got
         /\ Leaves(x) => \A y \in Actor : actor'[y] = IF y = x THEN Idle ELSE actor[y]
BY DEF Goes, Leaves, ActorState

\* Going on or leaving keeps the table of actors a table.
LEMMA ActorType ==
  ASSUME actor \in [Actor -> ActorState], NEW x \in Actor
  PROVE  /\ \A pc \in {"start", "poll", "report", "archive", "rename", "mkdir", "download", "fetch", "move",
                       "reactivate", "settle", "kill"} : Goes(x, pc) => actor' \in [Actor -> ActorState]
         /\ Leaves(x) => actor' \in [Actor -> ActorState]
         /\ Returns(x) => actor' \in [Actor -> ActorState]
<1>1. Idle \in ActorState
  BY RemoteAssumption DEF Idle, ActorState, Stagings, Manifests
<1>2. \A pc \in {"start", "poll", "report", "archive", "rename", "mkdir", "download", "fetch", "move",
                 "reactivate", "settle", "kill"} : [actor[x] EXCEPT !.pc = pc] \in ActorState
  BY DEF ActorState
<1> QED BY <1>1, <1>2 DEF Goes, Leaves, Returns

\* A command that has reactivated the lease keeps the manifest it read.
LEMMA ActorResumes ==
  ASSUME actor \in [Actor -> ActorState], NEW c \in Actor, Reactivate(c)
  PROVE  /\ actor' \in [Actor -> ActorState]
         /\ \A y \in Actor :
              /\ actor'[y].pc = IF y = c THEN "submit" ELSE actor[y].pc
              /\ actor'[y].got = IF y = c THEN staging[Of(c)] ELSE actor[y].got
              /\ actor'[y].at = actor[y].at /\ actor'[y].early = actor[y].early
<1> DEFINE v == staging[Of(c)]
<1>1. v \in Stagings /\ actor' = [actor EXCEPT ![c] = [@ EXCEPT !.pc = "submit", !.got = v]]
  BY DEF Reactivate, Stagings
<1> HIDE DEF v
<1>2. /\ [actor[c] EXCEPT !.pc = "submit", !.got = v] \in ActorState
      /\ actor'[c] = [actor[c] EXCEPT !.pc = "submit", !.got = v]
  BY <1>1 DEF ActorState
<1>3. \A y \in Actor : y # c => actor'[y] = actor[y]
  BY <1>1
<1>4. actor' \in [Actor -> ActorState]
  BY <1>1, <1>2
<1>5. actor'[c].pc = "submit" /\ actor'[c].got = v /\ actor'[c].at = actor[c].at /\ actor'[c].early = actor[c].early
  BY <1>2 DEF ActorState
<1> QED BY <1>3, <1>4, <1>5 DEF v

\* A command that begins probes the newest attempt.
LEMMA ActorBegins ==
  ASSUME actor \in [Actor -> ActorState], NEW c \in Actor, Begins(c), now \in 0..Tries
  PROVE  /\ actor' \in [Actor -> ActorState]
         /\ \A y \in Actor : y # c => actor'[y] = actor[y]
         /\ actor'[c].pc = "probe" /\ actor'[c].at = now
         /\ actor'[c].early => result[now] # "none"
<1>1. PICK op \in {"recover", "resolve", "cancel"} :
        actor' = [actor EXCEPT ![c] = [Idle EXCEPT !.op = op, !.pc = "probe", !.at = now,
                                                   !.early = result[now] # "none"]]
  BY DEF Begins
<1>2. PICK e \in BOOLEAN : e = (result[now] # "none")
  OBVIOUS
<1> DEFINE r == [Idle EXCEPT !.op = op, !.pc = "probe", !.at = now, !.early = e]
<1>3. r \in ActorState
  BY DEF Idle, ActorState, Stagings, Manifests
<1>4. r.pc = "probe" /\ r.at = now /\ r.early = e
  BY DEF Idle
<1>5. actor' = [actor EXCEPT ![c] = r]
  BY <1>1, <1>2
<1> HIDE DEF r
<1>6. actor' \in [Actor -> ActorState]
  BY <1>3, <1>5
<1>7. actor'[c] = r /\ \A y \in Actor : y # c => actor'[y] = actor[y]
  BY <1>5
<1> QED BY <1>2, <1>4, <1>6, <1>7

-----------------------------------------------------------------------------
(* Type correctness, and who may work on the newest attempt.               *)

\* The steps of an actor that has seen a result on the server.
Holding == {"archive", "rename", "mkdir", "download", "fetch", "move", "reactivate", "submit"}

\* The wrapper is only ever at work on the newest attempt, under its lease, and
\* no command is beside it; a command handles a result only when there is one.
Owner ==
  /\ now = 0 => state = "ready"
  /\ Working(Wrapper) => state = "leased" /\ Of(Wrapper) = now
  /\ \A x \in Actor : Working(x) => Of(x) \in 1..now
  /\ \A c \in Operator : Working(c) =>
       /\ ~At(c, "upload") /\ ~At(c, "start") /\ ~At(c, "poll") /\ ~At(c, "report")
       /\ Working(Wrapper) => Of(c) # now
  /\ \A x \in Actor : actor[x].pc \in Holding \/ actor[x].early => Working(x) /\ result[Of(x)] # "none"

TypeInv == TypeOK /\ Owner

LEMMA TypeInit == Init => TypeInv
BY RemoteAssumption DEF Init, TypeInv, TypeOK, Owner, Working, At, Of, Holding, States, Occupied, Attempt, Actor,
     ActorState, Idle, Stagings, Manifests, Results, Scripts

LEMMA TypeNext == TypeInv /\ [Next]_vars => TypeOK'
<1> SUFFICES ASSUME TypeOK, Owner, [Next]_vars PROVE TypeOK'
  BY DEF TypeInv
<1> USE DEF TypeOK
<1>a. Wrapper \in Actor /\ Operator \subseteq Actor /\ Wrapper \notin Operator
  BY RemoteAssumption DEF Actor
<1>t. Tries \in Nat /\ Idle \in ActorState
  BY RemoteAssumption DEF Idle, ActorState, Stagings, Manifests
<1>x. \A x \in Actor : actor[x].at \in 0..Tries /\ actor[x].got \in Stagings /\ actor[x].early \in BOOLEAN
  BY DEF ActorState
<1>s. \A x \in Actor : Working(x) => Of(x) \in Attempt
  BY <1>t DEF Owner, Attempt
<1>m. /\ \A a \in Attempt : staging[a] \in Stagings
      /\ \A a \in Attempt, v \in Stagings : SetStaging(a, v) => staging' \in [Attempt -> Stagings]
      /\ \A a \in Attempt : Unknown(a) => staging' \in [Attempt -> Stagings]
      /\ \A a \in Attempt : Disconnect(a) \in [Attempt -> Scripts]
  BY DEF SetStaging, Unknown, Disconnect, Stagings, Manifests, Scripts
<1>u. \A v : \A a \in Attempt : Submits(a, v) => staging' \in [Attempt -> Stagings] /\ state' \in States
  BY <1>m DEF Submits, Outcomes, States, Occupied, Stagings
<1>1. CASE Lease
  <2>1. now' \in 0..Tries /\ [op |-> "run", pc |-> "upload", at |-> now', early |-> FALSE, got |-> "empty"] \in ActorState
    BY <1>1, <1>t DEF Lease, Leasable, ActorState, Stagings, Manifests
  <2> QED BY <1>1, <1>a, <2>1 DEF Lease, Idle, States, Occupied, server
<1>2. CASE NotStarted
  BY <1>2, <1>a, ActorType DEF NotStarted, States, Occupied, server
<1>3. CASE Uploads
  <2>1. now \in Attempt
    BY <1>3, <1>a, <1>s DEF Uploads, Working, At, Owner
  <2> QED BY <1>3, <1>a, <1>m, <2>1, ActorType DEF Uploads, Scripts, Stagings, Manifests
<1>4. CASE StartAnswered \/ Polls \/ ConnectionLost
  <2>1. now \in Attempt
    BY <1>4, <1>a, <1>s DEF StartAnswered, Polls, ConnectionLost, Working, At, Owner
  <2> QED BY <1>4, <1>a, <1>m, <2>1, ActorType DEF StartAnswered, Polls, ConnectionLost, server
<1>5. CASE Report
  <2>1. now \in Attempt
    BY <1>5, <1>a, <1>s DEF Report, Working, At, Owner
  <2> QED BY <1>5, <1>a, <1>u, <2>1, ActorType DEF Report, server
<1>6. CASE LeaseOrWrapperLost
  <2>1. now \in Attempt
    BY <1>6, <1>t DEF LeaseOrWrapperLost, Owner, Attempt
  <2> QED BY <1>6, <1>a, <1>m, <2>1, ActorType DEF LeaseOrWrapperLost, States, Occupied
<1>7. ASSUME NEW x \in Actor, Download(x) PROVE TypeOK'
  <2>1. Of(x) \in Attempt
    BY <1>7, <1>s DEF Download, FetchStarts, FetchFails, FetchRefused, Validates, Moves, Working, At
  <2>2. At(x, "move") => result[Of(x)] \in Stagings
    BY <2>1 DEF Owner, Holding, At, Of, Stagings, Manifests
  <2>3. CASE FetchStarts(x)
    BY <2>1, <2>3, ActorType DEF FetchStarts, server
  <2>4. CASE FetchFails(x)
    BY <2>1, <2>4, <1>m, ActorType DEF FetchFails, server
  <2>5. CASE FetchRefused(x)
    BY <2>1, <2>5, <1>m, ActorType DEF FetchRefused, server, Stagings, Manifests
  <2>6. CASE Validates(x)
    BY <2>1, <2>6, <1>m, ActorType DEF Validates, server, Stagings
  <2>7. CASE Moves(x)
    BY <2>1, <2>2, <2>7, <1>m, ActorType DEF Moves, server, Stagings, Manifests
  <2> QED BY <1>7, <2>3, <2>4, <2>5, <2>6, <2>7 DEF Download
<1>8. ASSUME NEW c \in Operator, Command(c) PROVE TypeOK'
  <2>1. CASE Begins(c)
    <3>1. actor' \in [Actor -> ActorState] /\ UNCHANGED <<state, now, staging, download, server>>
      BY <2>1, <1>a, ActorBegins DEF Begins
    <3> QED BY <3>1 DEF server
  <2>2. CASE Probe(c)
    BY <2>2, <1>a, ActorType DEF Probe, server
  <2>3. CASE Ends(c)
    BY <2>3, <1>a, ActorType DEF Ends, server
  <2>4. CASE Reactivate(c)
    <3>1. Of(c) \in Attempt
      BY <2>4, <1>a, <1>s DEF Reactivate, Working, At
    <3> QED BY <2>4, <3>1, <1>a, <1>m, ActorResumes DEF Reactivate, server, States, Occupied
  <2>5. CASE Submit(c) \/ Settle(c)
    <3>1. Of(c) \in Attempt
      BY <2>5, <1>a, <1>s DEF Submit, Settle, Working, At
    <3> QED BY <2>5, <1>a, <1>u, <3>1, ActorType DEF Submit, Settle, server, States, Occupied
  <2>6. CASE ArchiveChecks(c) \/ ArchiveRenames(c) \/ ArchiveMakes(c)
    <3>1. Of(c) \in Attempt
      BY <2>6, <1>a, <1>s DEF ArchiveChecks, ArchiveRenames, ArchiveMakes, Working, At
    <3> QED BY <2>6, <1>a, <1>m, <3>1, ActorType DEF ArchiveChecks, ArchiveRenames, ArchiveMakes, server, Stagings, Manifests
  <2>7. CASE KillGroup(c)
    BY <2>7, <1>a, ActorType DEF KillGroup, GivesUp, Dies, Results
  <2> QED BY <1>8, <2>1, <2>2, <2>3, <2>4, <2>5, <2>6, <2>7 DEF Command
<1>9. ASSUME NEW a \in Attempt, Server(a) PROVE TypeOK'
  <2>1. CASE ScriptLocks(a) \/ ScriptRefuses(a) \/ ScriptLaunches(a) \/ ScriptRecords(a)
    BY <2>1 DEF ScriptLocks, ScriptRefuses, ScriptLaunches, ScriptRecords, local, Scripts
  <2>2. CASE AdapterSpawns(a) \/ ChildEnds(a) \/ AdapterFinishes(a)
    BY <2>2 DEF AdapterSpawns, ChildEnds, AdapterFinishes, local, Results
  <2>3. CASE AdapterGivesUp(a) \/ AdapterDies(a)
    BY <2>3 DEF AdapterGivesUp, AdapterDies, GivesUp, Dies, local, Results
  <2> QED BY <1>9, <2>1, <2>2, <2>3 DEF Server
<1>10. CASE Reboot
  BY <1>10 DEF Reboot, local, Scripts
<1>11. CASE UNCHANGED vars
  BY <1>11 DEF vars, local, server
<1> QED
  BY <1>1, <1>2, <1>3, <1>4, <1>5, <1>6, <1>7, <1>8, <1>9, <1>10, <1>11 DEF Next, WrapperNext

LEMMA OwnerNext == TypeInv /\ [Next]_vars => Owner'
<1> SUFFICES ASSUME TypeOK, Owner, [Next]_vars PROVE Owner'
  BY DEF TypeInv
<1> USE DEF TypeOK, Owner, Working, At, Of
<1>a. Wrapper \in Actor /\ Operator \subseteq Actor /\ Wrapper \notin Operator /\ Actor = Operator \cup {Wrapper}
  BY RemoteAssumption DEF Actor
<1>i. Idle.pc = "idle" /\ Idle.at = 0 /\ Idle.early = FALSE /\ "idle" \notin Holding
  BY DEF Idle, Holding
<1>s. now \in Nat /\ \A x \in Actor : Working(x) => Of(x) \in Attempt
  BY RemoteAssumption DEF Attempt
<1>1. CASE Lease
  <2>1. state = "ready" /\ now' = now + 1 /\ state' = "leased" /\ result' = result
    BY <1>1 DEF Lease, Leasable, server
  <2>2. \A y \in Actor :
          /\ y # Wrapper => actor'[y] = actor[y]
          /\ y = Wrapper => actor'[y].pc = "upload" /\ actor'[y].at = now + 1 /\ actor'[y].early = FALSE
    BY <1>1 DEF Lease, Idle
  <2> QED BY <2>1, <2>2, <1>a, <1>s DEF Holding
<1>2. CASE NotStarted \/ Report \/ LeaseOrWrapperLost
  BY <1>2, <1>a, <1>i, <1>s, ActorMoves DEF NotStarted, Report, LeaseOrWrapperLost, server
<1>3. CASE Uploads \/ StartAnswered \/ Polls \/ ConnectionLost
  <2>1. UNCHANGED <<state, now, result>>
    BY <1>3 DEF Uploads, StartAnswered, Polls, ConnectionLost, server
  <2>2. Working(Wrapper) /\ \E pc \in {"start", "poll", "report", "download"} :
          /\ Goes(Wrapper, pc)
          /\ pc = "download" => result[Of(Wrapper)] # "none"
    BY <1>3 DEF Uploads, StartAnswered, Polls, ConnectionLost, Returns, Observed, Printed
  <2> QED BY <2>1, <2>2, <1>a, ActorMoves DEF Holding
<1>7. ASSUME NEW x \in Actor, Download(x) PROVE Owner'
  <2>1. UNCHANGED <<state, now, result>>
    BY <1>7 DEF Download, FetchStarts, FetchFails, FetchRefused, Validates, Moves, server
  <2>2. /\ actor[x].pc \in {"download", "fetch", "move"}
        /\ \/ Leaves(x)
           \/ \E pc \in {"fetch", "move", "reactivate"} : Goes(x, pc)
           \/ x = Wrapper /\ Goes(x, "report")
    BY <1>7 DEF Download, FetchStarts, FetchFails, FetchRefused, Validates, Moves, Returns
  <2> QED BY <2>1, <2>2, <1>a, <1>i, ActorMoves DEF Holding
<1>8. ASSUME NEW c \in Operator, Command(c) PROVE Owner'
  <2>1. CASE Begins(c)
    <3>1. UNCHANGED <<state, now, result>> /\ state = "recovering" /\ now \in 1..now
      BY <2>1, <1>s DEF Begins, server
    <3>2. \A y \in Actor :
            /\ y # c => actor'[y] = actor[y]
            /\ y = c => actor'[y].pc = "probe" /\ actor'[y].at = now /\ (actor'[y].early => result[now] # "none")
      BY <2>1, <1>a, ActorBegins
    <3> QED BY <3>1, <3>2, <1>a DEF Holding
  <2>2. CASE Probe(c)
    <3>1. UNCHANGED <<state, now, result>> /\ At(c, "probe")
      BY <2>2 DEF Probe, server
    <3>2. \E pc \in {"archive", "settle", "kill"} :
            Goes(c, pc) /\ (pc = "archive" => result[Of(c)] # "none")
      BY <2>2, <1>a DEF Probe, Seen, Printed
    <3> QED BY <3>1, <3>2, <1>a, ActorMoves DEF Holding
  <2>3. CASE Ends(c)
    BY <2>3, <1>a, <1>i, ActorMoves DEF Ends, server
  <2>4. CASE Reactivate(c)
    <3>2. UNCHANGED <<now, result>> /\ now = Of(c) /\ state' = "leased" /\ state \in {"recovering", "stuck"}
      BY <2>4 DEF Reactivate, Fenced, server
    <3>3. At(c, "reactivate")
      BY <2>4 DEF Reactivate
    <3>4. \A y \in Actor :
            /\ actor'[y].pc = IF y = c THEN "submit" ELSE actor[y].pc
            /\ actor'[y].at = actor[y].at /\ actor'[y].early = actor[y].early
      BY <2>4, <1>a, ActorResumes
    <3> QED BY <3>2, <3>3, <3>4, <1>a DEF Holding
  <2>5. CASE Submit(c) \/ Settle(c)
    <3>1. /\ UNCHANGED <<now, result>> /\ Leaves(c) /\ ~At(c, "idle") /\ now = Of(c)
          /\ (At(c, "submit") /\ state = "leased") \/ state \in {"recovering", "stuck"}
      BY <2>5 DEF Submit, Settle, Fenced, server
    <3> QED BY <3>1, <1>a, <1>i, ActorMoves
  <2>6. CASE ArchiveChecks(c) \/ ArchiveRenames(c) \/ ArchiveMakes(c)
    <3>1. UNCHANGED <<state, now, result>> /\ actor[c].pc \in {"archive", "rename", "mkdir"}
      BY <2>6 DEF ArchiveChecks, ArchiveRenames, ArchiveMakes, server
    <3>2. \E pc \in {"rename", "mkdir", "download"} : Goes(c, pc)
      BY <2>6 DEF ArchiveChecks, ArchiveRenames, ArchiveMakes
    <3> QED BY <3>1, <3>2, <1>a, ActorMoves DEF Holding
  <2>7. CASE KillGroup(c)
    <3>1. UNCHANGED <<state, now>> /\ Leaves(c)
      BY <2>7 DEF KillGroup
    <3>2. \A b \in Attempt : result[b] # "none" => result'[b] # "none"
      BY <2>7 DEF KillGroup, GivesUp, Dies
    <3> QED BY <3>1, <3>2, <1>a, <1>i, <1>s, ActorMoves
  <2> QED BY <1>8, <2>1, <2>2, <2>3, <2>4, <2>5, <2>6, <2>7 DEF Command
<1>9. ASSUME NEW a \in Attempt, Server(a) PROVE Owner'
  <2>1. UNCHANGED <<state, now, actor>>
    BY <1>9 DEF Server, ScriptLocks, ScriptRefuses, ScriptLaunches, ScriptRecords, AdapterSpawns, ChildEnds,
         AdapterFinishes, AdapterGivesUp, AdapterDies, local
  <2>2. \A b \in Attempt : result[b] # "none" => result'[b] # "none"
    BY <1>9 DEF Server, ScriptLocks, ScriptRefuses, ScriptLaunches, ScriptRecords, AdapterSpawns, ChildEnds,
         AdapterFinishes, AdapterGivesUp, AdapterDies, GivesUp, Dies, local
  <2> QED BY <2>1, <2>2, <1>s
<1>10. CASE Reboot \/ UNCHANGED vars
  BY <1>10 DEF Reboot, vars, local, server
<1> QED
  BY <1>1, <1>2, <1>3, <1>7, <1>8, <1>9, <1>10 DEF Next, WrapperNext

LEMMA TypeInvariant == Spec => []TypeInv
<1>1. TypeInv /\ [Next]_vars => TypeInv'
  BY TypeNext, OwnerNext DEF TypeInv
<1> QED BY TypeInit, <1>1, PTL DEF Spec

\* Every reachable state is well-typed.
THEOREM TypeCorrect == Spec => []TypeOK
<1>1. TypeInv => TypeOK
  BY DEF TypeInv
<1> QED BY TypeInvariant, <1>1, PTL

-----------------------------------------------------------------------------
(* A settled attempt stays settled.                                        *)

\* A step that leaves the number of attempts alone changes the state of the
\* stage only while the attempt has the slot.
LEMMA SettledOnceNext == TypeInv /\ [Next]_vars => (state \notin Occupied /\ now' = now => state' = state)
<1> SUFFICES ASSUME TypeInv, [Next]_vars, state \notin Occupied, now' = now PROVE state' = state
  OBVIOUS
<1> USE DEF Occupied
<1>1. now \in Nat /\ ~Working(Wrapper) /\ Wrapper \in Actor
  BY RemoteAssumption DEF TypeInv, TypeOK, Owner, Actor
<1>2. ~WrapperNext
  BY <1>1 DEF WrapperNext, Lease, NotStarted, Uploads, StartAnswered, Polls, ConnectionLost, Report, LeaseOrWrapperLost,
       Working, At
<1>3. ASSUME NEW x \in Actor, Download(x) PROVE state' = state
  BY <1>3 DEF Download, FetchStarts, FetchFails, FetchRefused, Validates, Moves
<1>4. ASSUME NEW c \in Operator, Command(c) PROVE state' = state
  BY <1>4 DEF Command, Begins, Probe, Ends, Reactivate, Submit, Settle, ArchiveChecks, ArchiveRenames, ArchiveMakes,
       KillGroup, Fenced
<1>5. ASSUME NEW a \in Attempt, Server(a) PROVE state' = state
  BY <1>5 DEF Server, ScriptLocks, ScriptRefuses, ScriptLaunches, ScriptRecords, AdapterSpawns, ChildEnds,
       AdapterFinishes, AdapterGivesUp, AdapterDies, local
<1>6. CASE Reboot \/ UNCHANGED vars
  BY <1>6 DEF Reboot, vars, local
<1> QED BY <1>2, <1>3, <1>4, <1>5, <1>6 DEF Next

\* No command and no late wrapper reopens an attempt that was settled, or
\* changes its outcome, however many commands run beside each other.
THEOREM AttemptSettledOnce == Spec => SettledOnce
<1>1. TypeInv /\ [Next]_vars => [(state \notin Occupied /\ now' = now) => state' = state]_vars
  BY SettledOnceNext
<1> QED BY TypeInvariant, <1>1, PTL DEF Spec, SettledOnce

-----------------------------------------------------------------------------
(* What the files of an attempt on the server tell.                        *)

\* The start script has not yet launched stage_adapter, or never will.
Undelivered == {"none", "sent", "lost", "locked", "refused"}

\* Nothing of an attempt has run before its script launched the adapter, and a
\* result is there only when the adapter is gone.
ServerInv ==
  /\ \A a \in Attempt : script[a] \in Undelivered => adapter[a] = "none" /\ child[a] = "none" /\ result[a] = "none"
  /\ \A a \in Attempt : result[a] # "none" => adapter[a] # "running"
  /\ \A a \in Attempt : a > now => script[a] = "none"
  /\ At(Wrapper, "upload") => script[now] = "none"

LEMMA ServerInit == Init => ServerInv
BY RemoteAssumption DEF Init, ServerInv, Undelivered, At, Idle, Actor

\* The facts about actors that the steps below share.
LEMMA TypeFacts ==
  ASSUME TypeInv
  PROVE  /\ Wrapper \in Actor /\ Operator \subseteq Actor /\ Wrapper \notin Operator
         /\ now \in 0..Tries /\ Tries \in Nat
         /\ \A x \in Actor : ~At(x, "idle") => Of(x) \in Attempt /\ Of(x) \in 1..now
         /\ ~At(Wrapper, "idle") => state = "leased" /\ Of(Wrapper) = now /\ now \in Attempt
         /\ \A c \in Operator : ~At(c, "idle") /\ ~At(Wrapper, "idle") => Of(c) # now
         /\ Idle.pc = "idle" /\ Idle.at = 0
BY RemoteAssumption DEF TypeInv, TypeOK, Owner, Actor, Working, Attempt, Idle

LEMMA ServerInvNext == TypeInv /\ ServerInv /\ [Next]_vars => ServerInv'
<1> SUFFICES ASSUME TypeInv, ServerInv, [Next]_vars PROVE ServerInv'
  OBVIOUS
<1> USE DEF ServerInv, Undelivered, At
<1>t. TypeOK
  BY DEF TypeInv
<1>f. actor \in [Actor -> ActorState] /\ script \in [Attempt -> Scripts] /\ adapter \in [Attempt -> {"none", "running", "dead"}]
      /\ child \in [Attempt -> {"none", "running", "dead"}] /\ result \in [Attempt -> Results \cup {"none"}]
  BY <1>t DEF TypeOK
<1>1. CASE Lease
  BY <1>1, TypeFacts DEF Lease, Leasable, server, Attempt
<1>2. CASE Uploads
  BY <1>2, TypeFacts, <1>f, ActorMoves DEF Uploads, Returns
<1>3. CASE NotStarted \/ StartAnswered \/ Polls \/ ConnectionLost \/ Report \/ LeaseOrWrapperLost
  <2>1. UNCHANGED <<now, adapter, child, result>> /\ ~At(Wrapper, "upload")'
    BY <1>3, TypeFacts, <1>f, ActorMoves
       DEF NotStarted, StartAnswered, Polls, ConnectionLost, Report, LeaseOrWrapperLost, Returns, server
  <2>2. script' = script \/ script' = Disconnect(now)
    BY <1>3 DEF NotStarted, StartAnswered, Polls, ConnectionLost, Report, LeaseOrWrapperLost, server
  <2> QED BY <2>1, <2>2, <1>f, TypeFacts DEF Disconnect
<1>4. ASSUME NEW x \in Actor, Download(x) PROVE ServerInv'
  <2>1. UNCHANGED <<now, server>>
    BY <1>4 DEF Download, FetchStarts, FetchFails, FetchRefused, Validates, Moves
  <2>2. Leaves(x) \/ \E pc \in {"fetch", "move", "report", "reactivate"} : Goes(x, pc)
    BY <1>4 DEF Download, FetchStarts, FetchFails, FetchRefused, Validates, Moves, Returns
  <2> QED BY <2>1, <2>2, TypeFacts, <1>f, ActorMoves DEF server
<1>5. ASSUME NEW c \in Operator, Command(c) PROVE ServerInv'
  <2>1. UNCHANGED now /\ actor'[Wrapper] = actor[Wrapper]
    BY <1>5, TypeFacts, <1>f DEF Command, Begins, Probe, Ends, Reactivate, Submit, Settle, ArchiveChecks, ArchiveRenames,
         ArchiveMakes, KillGroup, Goes, Leaves
  <2>2. CASE UNCHANGED server
    BY <2>1, <2>2 DEF server
  <2>3. CASE KillGroup(c)
    <3>1. script' = script /\ adapter[Of(c)] = "running" /\ Of(c) \in Attempt
      BY <2>3, TypeFacts, <1>f DEF KillGroup, GivesUp, Dies
    <3>2. /\ adapter' = [adapter EXCEPT ![Of(c)] = "dead"]
          /\ \A b \in Attempt : b # Of(c) => child'[b] = child[b] /\ result'[b] = result[b]
      BY <2>3, <1>f DEF KillGroup, GivesUp, Dies
    <3> QED BY <2>1, <3>1, <3>2, <1>f
  <2> QED
    BY <1>5, <2>2, <2>3 DEF Command, Begins, Probe, Ends, Reactivate, Submit, Settle, ArchiveChecks, ArchiveRenames,
       ArchiveMakes
<1>6. ASSUME NEW a \in Attempt, Server(a) PROVE ServerInv'
  <2>1. UNCHANGED <<now, actor>>
    BY <1>6 DEF Server, ScriptLocks, ScriptRefuses, ScriptLaunches, ScriptRecords, AdapterSpawns, ChildEnds,
         AdapterFinishes, AdapterGivesUp, AdapterDies, local
  <2>2. CASE ScriptLocks(a) \/ ScriptRefuses(a) \/ ScriptLaunches(a) \/ ScriptRecords(a)
    BY <2>1, <2>2, TypeFacts, <1>f DEF ScriptLocks, ScriptRefuses, ScriptLaunches, ScriptRecords, Attempt
  <2>3. CASE AdapterSpawns(a) \/ ChildEnds(a) \/ AdapterFinishes(a)
    BY <2>1, <2>3, <1>f DEF AdapterSpawns, ChildEnds, AdapterFinishes
  <2>4. CASE AdapterGivesUp(a) \/ AdapterDies(a)
    BY <2>1, <2>4, <1>f DEF AdapterGivesUp, AdapterDies, GivesUp, Dies
  <2> QED BY <1>6, <2>2, <2>3, <2>4 DEF Server
<1>7. CASE Reboot
  BY <1>7, <1>f, TypeFacts DEF Reboot, local
<1>8. CASE UNCHANGED vars
  BY <1>8 DEF vars, local, server
<1> QED BY <1>1, <1>2, <1>3, <1>4, <1>5, <1>6, <1>7, <1>8 DEF Next, WrapperNext

LEMMA ServerInvariant == Spec => []ServerInv
<1> QED BY TypeInvariant, ServerInit, ServerInvNext, PTL DEF Spec

\* A step of one actor leaves the others, and the attempts it does not work on, alone.
LEMMA OneActor ==
  ASSUME TypeInv, NEW x \in Actor,
         (x = Wrapper /\ WrapperNext) \/ Download(x) \/ (x \in Operator /\ Command(x))
  PROVE  /\ \A y \in Actor : y # x => actor'[y] = actor[y]
         /\ \A a \in Attempt : a # Of(x) => staging'[a] = staging[a]
         /\ At(x, "idle") => UNCHANGED staging
<1>f. actor \in [Actor -> ActorState] /\ staging \in [Attempt -> Stagings]
  BY DEF TypeInv, TypeOK
<1> USE DEF SetStaging, Unknown, Goes, Leaves, Returns, At
<1>1. CASE x = Wrapper /\ WrapperNext
  <2>1. \A y \in Actor : y # x => actor'[y] = actor[y]
    BY <1>1, <1>f DEF WrapperNext, Lease, NotStarted, Uploads, StartAnswered, Polls, ConnectionLost, Report,
       LeaseOrWrapperLost
  <2>2. UNCHANGED staging \/ (~At(Wrapper, "idle") /\ \E v : SetStaging(now, v))
    BY <1>1 DEF WrapperNext, Lease, NotStarted, Uploads, StartAnswered, Polls, ConnectionLost, Report,
       LeaseOrWrapperLost, Submits
  <2> QED BY <1>1, <2>1, <2>2, <1>f, TypeFacts
<1>2. CASE Download(x)
  BY <1>2, <1>f DEF Download, FetchStarts, FetchFails, FetchRefused, Validates, Moves
<1>3. CASE x \in Operator /\ Command(x)
  <2>1. \A y \in Actor : y # x => actor'[y] = actor[y]
    BY <1>3, <1>f DEF Command, Begins, Probe, Ends, Reactivate, Submit, Settle, ArchiveChecks, ArchiveRenames,
       ArchiveMakes, KillGroup
  <2>2. UNCHANGED staging \/ (~At(x, "idle") /\ \E v : SetStaging(Of(x), v))
    BY <1>3 DEF Command, Begins, Probe, Ends, Reactivate, Submit, Settle, ArchiveChecks, ArchiveRenames,
       ArchiveMakes, KillGroup, Submits
  <2> QED BY <2>1, <2>2, <1>f, TypeFacts
<1> QED BY <1>1, <1>2, <1>3

\* The server changes nothing on this machine.
LEMMA ServerSteps == (\E a \in Attempt : Server(a)) \/ Reboot \/ UNCHANGED vars => UNCHANGED local
BY DEF Server, ScriptLocks, ScriptRefuses, ScriptLaunches, ScriptRecords, AdapterSpawns, ChildEnds,
   AdapterFinishes, AdapterGivesUp, AdapterDies, Reboot, vars

\* A result on the server is never changed.
LEMMA ResultStays ==
  ASSUME TypeInv, ServerInv, [Next]_vars
  PROVE  \A a \in Attempt : result[a] # "none" => result'[a] = result[a]
<1> USE DEF ServerInv
<1>f. result \in [Attempt -> Results \cup {"none"}]
  BY DEF TypeInv, TypeOK
<1>1. CASE WrapperNext
  BY <1>1 DEF WrapperNext, Lease, NotStarted, Uploads, StartAnswered, Polls, ConnectionLost, Report,
     LeaseOrWrapperLost, server
<1>2. ASSUME NEW x \in Actor, Download(x) PROVE UNCHANGED result
  BY <1>2 DEF Download, FetchStarts, FetchFails, FetchRefused, Validates, Moves, server
<1>3. ASSUME NEW c \in Operator, KillGroup(c)
      PROVE  \A a \in Attempt : result[a] # "none" => result'[a] = result[a]
  BY <1>3, <1>f DEF KillGroup, GivesUp, Dies
<1>4. ASSUME NEW c \in Operator, Command(c), ~KillGroup(c) PROVE UNCHANGED result
  BY <1>4 DEF Command, Begins, Probe, Ends, Reactivate, Submit, Settle, ArchiveChecks, ArchiveRenames, ArchiveMakes, server
<1>5. ASSUME NEW b \in Attempt, Server(b)
      PROVE  \A a \in Attempt : result[a] # "none" => result'[a] = result[a]
  BY <1>5, <1>f DEF Server, ScriptLocks, ScriptRefuses, ScriptLaunches, ScriptRecords, AdapterSpawns, ChildEnds,
     AdapterFinishes, AdapterGivesUp, AdapterDies, GivesUp, Dies
<1>6. CASE Reboot \/ UNCHANGED vars
  BY <1>6 DEF Reboot, vars, server
<1> QED BY <1>1, <1>2, <1>3, <1>4, <1>5, <1>6 DEF Next

\* A command that decides to give an attempt up began before there was a result.
DecidesInv == \A c \in Operator : At(c, "settle") => ~actor[c].early

LEMMA DecidesInit == Init => DecidesInv
BY DEF Init, DecidesInv, At, Idle, Actor

LEMMA DecidesNext == TypeInv /\ ServerInv /\ DecidesInv /\ [Next]_vars => DecidesInv'
<1> SUFFICES ASSUME TypeInv, ServerInv, DecidesInv, [Next]_vars, NEW c \in Operator, At(c, "settle")'
             PROVE  ~actor'[c].early
  BY DEF DecidesInv
<1> USE DEF At
<1>f. actor \in [Actor -> ActorState] /\ c \in Actor /\ c # Wrapper
  BY TypeFacts DEF TypeInv, TypeOK
<1>1. CASE actor'[c] = actor[c]
  BY <1>1 DEF DecidesInv
<1>2. CASE WrapperNext \/ Download(Wrapper)
  BY <1>1, <1>2, <1>f, OneActor, TypeFacts
<1>3. CASE Probe(c)
  <2>1. \E pc \in {"archive", "settle", "kill"} : Goes(c, pc) /\ (pc = "settle" => Seen(c) \in Stopped)
    BY <1>3 DEF Probe
  <2>2. Seen(c) \in Stopped /\ actor'[c].early = actor[c].early
    BY <2>1, <1>f, ActorMoves
  <2>3. actor[c].early => result[Of(c)] # "none"
    BY <1>f DEF TypeInv, Owner
  <2>4. ~actor[c].early
    BY <2>2, <2>3 DEF Seen, Printed, Stopped
  <2> QED BY <2>2, <2>4
<1>4. ASSUME Download(c) \/ (Command(c) /\ ~Probe(c)) PROVE FALSE
  <2>1. CASE Leaves(c)
    BY <2>1, <1>f, ActorMoves, TypeFacts
  <2>2. CASE \E pc \in {"fetch", "move", "report", "reactivate", "download", "rename", "mkdir"} : Goes(c, pc)
    BY <2>2, <1>f, ActorMoves
  <2>3. CASE Begins(c) \/ Reactivate(c)
    BY <2>3, <1>f, ActorBegins, ActorResumes, TypeFacts
  <2> QED
    BY <1>4, <2>1, <2>2, <2>3 DEF Download, FetchStarts, FetchFails, FetchRefused, Validates, Moves, Returns, Command,
       Ends, Submit, Settle, ArchiveChecks, ArchiveRenames, ArchiveMakes, KillGroup
<1>5. ASSUME NEW d \in Operator, d # c, Download(d) \/ Command(d) PROVE actor'[c] = actor[c]
  BY <1>5, <1>f, OneActor, TypeFacts
<1>6. CASE (\E a \in Attempt : Server(a)) \/ Reboot \/ UNCHANGED vars
  BY <1>1, <1>6, ServerSteps DEF local
<1> QED BY <1>1, <1>2, <1>3, <1>4, <1>5, <1>6, RemoteAssumption DEF Next, Actor


\* Only a decision of resolve_recovering_item gives up a fenced attempt.
LEMMA DiscardNext ==
  ASSUME TypeInv, DecidesInv, [Next]_vars, state \in {"recovering", "stuck"}, state' \in {"ready", "failed"}
  PROVE  \E c \in Operator : At(c, "settle") /\ Of(c) = now /\ ~actor[c].early
<1>1. ~WrapperNext
  BY TypeFacts DEF WrapperNext, Lease, Leasable, NotStarted, Uploads, StartAnswered, Polls, ConnectionLost, Report,
     LeaseOrWrapperLost, At
<1>2. ASSUME NEW x \in Actor, Download(x) PROVE FALSE
  BY <1>2 DEF Download, FetchStarts, FetchFails, FetchRefused, Validates, Moves
<1>3. ASSUME NEW c \in Operator, Command(c) PROVE At(c, "settle") /\ Of(c) = now
  BY <1>3 DEF Command, Begins, Probe, Ends, Reactivate, Submit, Settle, ArchiveChecks, ArchiveRenames, ArchiveMakes,
     KillGroup, Fenced
<1>4. ASSUME NEW a \in Attempt, Server(a) PROVE FALSE
  BY <1>4 DEF Server, ScriptLocks, ScriptRefuses, ScriptLaunches, ScriptRecords, AdapterSpawns, ChildEnds,
     AdapterFinishes, AdapterGivesUp, AdapterDies, local
<1>5. ~Reboot /\ ~UNCHANGED vars
  BY DEF Reboot, vars, local
<1> QED BY <1>1, <1>2, <1>3, <1>4, <1>5 DEF Next, DecidesInv

\* A result that was on the server when a command's probe began is not given up
\* by that command, and nothing but a command's decision gives a result up: what
\* is left of it are the moments between the look and the decision, however many
\* commands there are, and also where start commands arrive late.
THEOREM SeenResultKept == Spec => ResultSeenKept
<1>1. TypeInv /\ DecidesInv /\ [Next]_vars
        => [(state \in {"recovering", "stuck"} /\ state' \in {"ready", "failed"} /\ result[now] # "none")
              => (\E c \in Operator : At(c, "settle") /\ Of(c) = now /\ ~actor[c].early)]_vars
  BY DiscardNext
<1>2. Spec => []DecidesInv
  BY TypeInvariant, ServerInvariant, DecidesInit, DecidesNext, PTL DEF Spec
<1> QED BY TypeInvariant, <1>1, <1>2, PTL DEF Spec, ResultSeenKept

-----------------------------------------------------------------------------
(* What the files of an attempt on this machine tell.                      *)

\* A manifest in staging that says how the stage ended is the one the server
\* wrote, and one that says nothing of it is there while nothing was started.
StagedInv ==
  /\ \A a \in Attempt : staging[a] \in Results => result[a] = staging[a]
  /\ \A a \in Attempt : staging[a] \in {"torn", "overwritten"} => result[a] = "succeeded"
  /\ \A a \in Attempt : staging[a] = "transient" => script[a] = "none"
  /\ \A a \in Attempt : a > now \/ (a = now /\ At(Wrapper, "upload")) => staging[a] = "empty"

LEMMA StagedInit == Init => StagedInv
BY RemoteAssumption DEF Init, StagedInv, At, Idle, Actor, Results

\* Only a lease puts the wrapper where it has started nothing yet.
LEMMA UploadOnce ==
  ASSUME TypeInv, [Next]_vars, ~Lease
  PROVE  now' = now /\ (At(Wrapper, "upload")' => At(Wrapper, "upload") /\ actor'[Wrapper] = actor[Wrapper])
<1> USE DEF At
<1>f. actor \in [Actor -> ActorState]
  BY DEF TypeInv, TypeOK
<1>1. CASE WrapperNext
  BY <1>1, <1>f, TypeFacts, ActorMoves DEF WrapperNext, NotStarted, Uploads, StartAnswered, Polls, ConnectionLost, Report,
     LeaseOrWrapperLost, Returns
<1>2. ASSUME NEW x \in Actor, Download(x)
      PROVE  now' = now /\ (At(Wrapper, "upload")' => actor'[Wrapper] = actor[Wrapper])
  <2>1. now' = now /\ (Leaves(x) \/ \E pc \in {"fetch", "move", "report", "reactivate"} : Goes(x, pc))
    BY <1>2 DEF Download, FetchStarts, FetchFails, FetchRefused, Validates, Moves, Returns
  <2>2. x # Wrapper => actor'[Wrapper] = actor[Wrapper]
    BY <2>1, <1>f, TypeFacts DEF Goes, Leaves
  <2>3. x = Wrapper => ~At(Wrapper, "upload")'
    BY <2>1, <1>f, TypeFacts, ActorMoves
  <2> QED BY <2>1, <2>2, <2>3
<1>3. ASSUME NEW c \in Operator, Command(c) PROVE now' = now /\ actor'[Wrapper] = actor[Wrapper]
  BY <1>3, <1>f, TypeFacts DEF Command, Begins, Probe, Ends, Reactivate, Submit, Settle, ArchiveChecks, ArchiveRenames,
       ArchiveMakes, KillGroup, Goes, Leaves
<1>4. ASSUME NEW a \in Attempt, Server(a) PROVE UNCHANGED <<now, actor>>
  BY <1>4 DEF Server, ScriptLocks, ScriptRefuses, ScriptLaunches, ScriptRecords, AdapterSpawns, ChildEnds,
       AdapterFinishes, AdapterGivesUp, AdapterDies, local
<1>5. CASE Reboot \/ UNCHANGED vars
  BY <1>5 DEF Reboot, vars, local
<1> QED BY <1>1, <1>2, <1>3, <1>4, <1>5, <1>f DEF Next

LEMMA StagedInvNext == TypeInv /\ ServerInv /\ StagedInv /\ [Next]_vars => StagedInv'
<1> SUFFICES ASSUME TypeInv, ServerInv, StagedInv, [Next]_vars PROVE StagedInv'
  OBVIOUS
<1> USE DEF StagedInv, Results
<1>t. TypeOK
  BY DEF TypeInv
<1>f. actor \in [Actor -> ActorState] /\ staging \in [Attempt -> Stagings] /\ result \in [Attempt -> Results \cup {"none"}]
      /\ script \in [Attempt -> Scripts]
  BY <1>t DEF TypeOK
<1>r. \A a \in Attempt : result[a] # "none" => result'[a] = result[a]
  BY ResultStays
\* The steps that leave staging alone.
<1>q. ASSUME UNCHANGED staging, ~Lease, \A a \in Attempt : script[a] = "none" => script'[a] = "none"
      PROVE  StagedInv'
  BY <1>q, <1>r, UploadOnce
\* The steps in which an actor writes its manifest.
<1>w. ASSUME NEW x \in Actor, ~At(x, "idle"), NEW v \in Stagings, SetStaging(Of(x), v), ~Lease, UNCHANGED result,
             \A a \in Attempt : script[a] = "none" => script'[a] = "none",
             x = Wrapper => ~At(x, "upload")',
             v \in Results => result[Of(x)] = v,
             v \in {"torn", "overwritten"} => result[Of(x)] = "succeeded",
             v = "transient" => script[Of(x)] = "none"
      PROVE  StagedInv'
  <2>1. now' = now /\ Of(x) \in Attempt /\ Of(x) <= now /\ now \in Nat
    BY <1>w, UploadOnce, TypeFacts
  <2>2. At(Wrapper, "upload")' => Of(x) # now /\ At(Wrapper, "upload")
    <3>1. CASE x = Wrapper
      BY <3>1, <1>w
    <3>2. CASE x # Wrapper /\ At(Wrapper, "upload")
      BY <3>2, <1>w, RemoteAssumption, TypeFacts DEF Actor, At
    <3> QED BY <3>1, <3>2, UploadOnce, <1>w
  <2>3. \A a \in Attempt : staging'[a] = IF a = Of(x) THEN v ELSE staging[a]
    BY <1>w, <1>f DEF SetStaging
  <2> QED BY <2>1, <2>2, <2>3, <1>w DEF Attempt
\* _unknown is one of them.
<1>u. ASSUME NEW x \in Actor, ~At(x, "idle"), Unknown(Of(x)), ~Lease, UNCHANGED result,
             \A a \in Attempt : script[a] = "none" => script'[a] = "none",
             x = Wrapper => ~At(x, "upload")'
      PROVE  StagedInv'
  <2> DEFINE v == IF staging[Of(x)] \in {"succeeded", "overwritten"} THEN "overwritten" ELSE "unknown"
  <2>1. SetStaging(Of(x), v) /\ v \in {"overwritten", "unknown"}
    BY <1>u DEF Unknown
  <2>2. v = "overwritten" => result[Of(x)] = "succeeded"
    BY <1>u, TypeFacts
  <2>3. v \in Stagings
    BY <2>1 DEF Stagings, Manifests
  <2> HIDE DEF v
  <2> QED BY <2>1, <2>2, <2>3, <1>u, <1>w
<1>1. CASE Lease
  <2>1. /\ now \in Nat /\ now' = now + 1 /\ UNCHANGED <<staging, script, result>>
    BY <1>1, TypeFacts DEF Lease, server
  <2> QED BY <2>1 DEF Attempt
<1>2. CASE NotStarted \/ LeaseOrWrapperLost
  <2>1. \A a \in Attempt : script[a] = "none" => script'[a] = "none"
    BY <1>2, <1>f DEF NotStarted, LeaseOrWrapperLost, Disconnect, server
  <2> QED
    BY <1>2, <1>q, <2>1, TypeFacts DEF NotStarted, LeaseOrWrapperLost, Lease, Leasable
<1>3. CASE Uploads
  <2>1. ~Lease /\ ~At(Wrapper, "idle") /\ Of(Wrapper) = now /\ ~At(Wrapper, "upload")' /\ UNCHANGED result
    BY <1>3, <1>f, TypeFacts, ActorMoves DEF Uploads, Lease, Leasable, Returns, At
  <2>2. CASE script' = [script EXCEPT ![now] = "sent"] /\ UNCHANGED staging
    BY <1>3, <2>1, <2>2, <1>r, <1>f, TypeFacts, UploadOnce DEF Uploads
  <2>3. CASE SetStaging(now, "transient") /\ UNCHANGED script
    BY <1>3, <2>1, <2>3, <1>w, TypeFacts DEF Uploads, ServerInv, Stagings, Manifests
  <2> QED BY <1>3, <2>2, <2>3 DEF Uploads
<1>4. CASE StartAnswered \/ Polls \/ ConnectionLost
  <2>1. ~Lease /\ ~At(Wrapper, "idle") /\ Of(Wrapper) = now /\ ~At(Wrapper, "upload")' /\ UNCHANGED result
    BY <1>4, <1>f, TypeFacts, ActorMoves DEF StartAnswered, Polls, ConnectionLost, Lease, Leasable, Returns, At, server
  <2>2. \A a \in Attempt : script[a] = "none" => script'[a] = "none"
    BY <1>4, <1>f DEF StartAnswered, Polls, ConnectionLost, Disconnect, server
  <2>3. UNCHANGED staging \/ Unknown(now)
    BY <1>4 DEF StartAnswered, Polls, ConnectionLost
  <2> QED BY <2>1, <2>2, <2>3, <1>q, <1>u, TypeFacts
<1>5. CASE Report
  <2>1. ~Lease /\ ~At(Wrapper, "idle") /\ Of(Wrapper) = now /\ ~At(Wrapper, "upload")' /\ UNCHANGED <<script, result>>
    BY <1>5, <1>f, TypeFacts, ActorMoves DEF Report, Lease, Leasable, At, server
  <2>2. UNCHANGED staging \/ SetStaging(now, "missing")
    BY <1>5 DEF Report, Submits
  <2> QED BY <2>1, <2>2, <1>q, <1>w, TypeFacts DEF Stagings
<1>6. ASSUME NEW x \in Actor, Download(x) PROVE StagedInv'
  <2>1. ~At(x, "idle") /\ UNCHANGED <<now, script, result>> /\ ~Lease
    <3>1. UNCHANGED <<now, script, result>> /\ ~At(x, "idle")
      BY <1>6 DEF Download, FetchStarts, FetchFails, FetchRefused, Validates, Moves, At, server
    <3> QED BY <3>1, TypeFacts DEF Lease
  <2>2. x = Wrapper => ~At(x, "upload")'
    <3>1. Leaves(x) \/ \E pc \in {"fetch", "move", "report", "reactivate"} : Goes(x, pc)
      BY <1>6 DEF Download, FetchStarts, FetchFails, FetchRefused, Validates, Moves, Returns
    <3> QED BY <3>1, <1>f, TypeFacts, ActorMoves DEF At
  <2>3. CASE FetchStarts(x)
    BY <2>1, <2>3, <1>q DEF FetchStarts
  <2>4. CASE FetchFails(x)
    BY <2>1, <2>2, <2>4, <1>u DEF FetchFails
  <2>5. CASE FetchRefused(x)
    BY <2>1, <2>2, <2>5, <1>w DEF FetchRefused, Stagings, Manifests
  <2>6. CASE Validates(x)
    BY <2>1, <2>2, <2>6, <1>w DEF Validates, Stagings
  <2>7. CASE Moves(x)
    <3>1. \E v \in Results \cup {"torn"} : SetStaging(Of(x), v) /\ result[Of(x)] = IF v = "torn" THEN "succeeded" ELSE v
      BY <2>7, <1>f, TypeFacts DEF Moves, TypeInv, Owner, Holding, At, Of
    <3> QED BY <2>1, <2>2, <3>1, <1>w DEF Stagings, Manifests
  <2> QED BY <1>6, <2>3, <2>4, <2>5, <2>6, <2>7 DEF Download
<1>7. ASSUME NEW c \in Operator, Command(c) PROVE StagedInv'
  <2>1. UNCHANGED <<now, script>> /\ ~Lease
    <3>1. UNCHANGED <<now, script>>
      BY <1>7 DEF Command, Begins, Probe, Ends, Reactivate, Submit, Settle, ArchiveChecks, ArchiveRenames,
         ArchiveMakes, KillGroup, server
    <3> QED BY <3>1, TypeFacts DEF Lease
  <2>2. CASE UNCHANGED staging
    BY <2>1, <2>2, <1>q
  <2>3. CASE ~UNCHANGED staging
    <3>1. UNCHANGED result /\ ~At(c, "idle") /\ (SetStaging(Of(c), "missing") \/ SetStaging(Of(c), "empty"))
      BY <1>7, <2>3 DEF Command, Begins, Probe, Ends, Reactivate, Submit, Submits, Settle, ArchiveChecks,
         ArchiveRenames, ArchiveMakes, KillGroup, server, At
    <3> QED BY <2>1, <3>1, <1>w, TypeFacts DEF Stagings
  <2> QED BY <2>2, <2>3
<1>8. ASSUME NEW b \in Attempt, Server(b) PROVE StagedInv'
  <2>1. UNCHANGED local /\ ~Lease
    <3>1. UNCHANGED local
      BY <1>8 DEF Server, ScriptLocks, ScriptRefuses, ScriptLaunches, ScriptRecords, AdapterSpawns, ChildEnds,
         AdapterFinishes, AdapterGivesUp, AdapterDies
    <3> QED BY <3>1, TypeFacts DEF Lease, local
  <2>2. \A a \in Attempt : script[a] = "none" => script'[a] = "none"
    BY <1>8, <1>f DEF Server, ScriptLocks, ScriptRefuses, ScriptLaunches, ScriptRecords, AdapterSpawns, ChildEnds,
         AdapterFinishes, AdapterGivesUp, AdapterDies
  <2> QED BY <2>1, <2>2, <1>q DEF local
<1>9. CASE Reboot \/ UNCHANGED vars
  <2>1. UNCHANGED local /\ ~Lease
    BY <1>9, TypeFacts DEF Reboot, vars, local, Lease
  <2>2. \A a \in Attempt : script[a] = "none" => script'[a] = "none"
    BY <1>9, <1>f DEF Reboot, vars, server
  <2> QED BY <2>1, <2>2, <1>q DEF local
<1> QED BY <1>1, <1>2, <1>3, <1>4, <1>5, <1>6, <1>7, <1>8, <1>9 DEF Next, WrapperNext

\* The manifest a command has in hand says how the stage ended on the server.
Submitting(c) ==
  At(c, "submit") =>
    /\ actor[c].got \in Results => result[Of(c)] = actor[c].got
    /\ actor[c].got # "transient"

HandInv == \A c \in Operator : Submitting(c)

LEMMA HandNext == TypeInv /\ ServerInv /\ StagedInv /\ HandInv /\ [Next]_vars => HandInv'
<1> SUFFICES ASSUME TypeInv, ServerInv, StagedInv, HandInv, [Next]_vars, NEW c \in Operator, At(c, "submit")'
             PROVE  /\ actor'[c].got \in Results => result'[Of(c)'] = actor'[c].got
                    /\ actor'[c].got # "transient"
  BY DEF HandInv, Submitting
<1> USE DEF At, Of
<1>f. /\ actor \in [Actor -> ActorState] /\ c \in Actor /\ c # Wrapper
      /\ \A a \in Attempt : result[a] # "none" => result'[a] = result[a]
      /\ actor[c].pc \in {"submit", "reactivate"} => actor[c].at \in Attempt /\ result[actor[c].at] # "none"
  BY TypeFacts, ResultStays DEF TypeInv, TypeOK, Owner, Holding
<1>1. CASE actor'[c] = actor[c]
  BY <1>1, <1>f DEF HandInv, Submitting
<1>2. CASE WrapperNext \/ Download(Wrapper)
  BY <1>1, <1>2, <1>f, OneActor, TypeFacts
<1>3. CASE Reactivate(c)
  <2>1. /\ actor[c].pc = "reactivate" /\ actor'[c].got = staging[actor[c].at] /\ actor'[c].at = actor[c].at
        /\ result' = result
    BY <1>3, <1>f, ActorResumes DEF Reactivate, server
  <2>2. script[actor[c].at] # "none"
    BY <2>1, <1>f DEF ServerInv, Undelivered
  <2> QED BY <2>1, <2>2, <1>f DEF StagedInv
<1>4. ASSUME Download(c) \/ (Command(c) /\ ~Reactivate(c)) PROVE FALSE
  <2>1. CASE Leaves(c)
    BY <2>1, <1>f, ActorMoves, TypeFacts
  <2>2. CASE \E pc \in {"fetch", "move", "report", "reactivate", "download", "rename", "mkdir", "archive", "settle",
                         "kill"} : Goes(c, pc)
    BY <2>2, <1>f, ActorMoves
  <2>3. CASE Begins(c)
    BY <2>3, <1>f, ActorBegins, TypeFacts
  <2> QED
    BY <1>4, <2>1, <2>2, <2>3 DEF Download, FetchStarts, FetchFails, FetchRefused, Validates, Moves, Returns, Command,
       Probe, Ends, Submit, Settle, ArchiveChecks, ArchiveRenames, ArchiveMakes, KillGroup
<1>5. ASSUME NEW d \in Operator, d # c, Download(d) \/ Command(d) PROVE actor'[c] = actor[c]
  BY <1>5, <1>f, OneActor, TypeFacts
<1>6. CASE (\E a \in Attempt : Server(a)) \/ Reboot \/ UNCHANGED vars
  BY <1>1, <1>6, ServerSteps DEF local
<1> QED BY <1>1, <1>2, <1>3, <1>4, <1>5, <1>6, RemoteAssumption DEF Next, Actor

-----------------------------------------------------------------------------
(* Who gives up the GPU.                                                   *)

Accepted == {"succeeded", "failed"}

\* A result that does not admit to a leak was written when nothing ran any more.
EndedInv == \A a \in Attempt : result[a] \in Accepted => child[a] # "running"

LEMMA EndedNext == TypeInv /\ ServerInv /\ EndedInv /\ [Next]_vars => EndedInv'
<1> SUFFICES ASSUME TypeInv, ServerInv, EndedInv, [Next]_vars PROVE EndedInv'
  OBVIOUS
<1>f. /\ result \in [Attempt -> Results \cup {"none"}]
      /\ adapter \in [Attempt -> {"none", "running", "dead"}] /\ child \in [Attempt -> {"none", "running", "dead"}]
  BY DEF TypeInv, TypeOK
<1> USE DEF EndedInv, Accepted
<1>1. CASE UNCHANGED <<child, result>>
  BY <1>1
<1>2. ASSUME NEW a \in Attempt, GivesUp(a) \/ Dies(a) PROVE EndedInv'
  BY <1>2, <1>f DEF GivesUp, Dies, ServerInv
<1>3. CASE WrapperNext
  BY <1>1, <1>3 DEF WrapperNext, Lease, NotStarted, Uploads, StartAnswered, Polls, ConnectionLost, Report,
     LeaseOrWrapperLost, server
<1>4. ASSUME NEW x \in Actor, Download(x) PROVE EndedInv'
  BY <1>1, <1>4 DEF Download, FetchStarts, FetchFails, FetchRefused, Validates, Moves, server
<1>5. ASSUME NEW c \in Operator, Command(c), ~KillGroup(c) PROVE EndedInv'
  BY <1>1, <1>5 DEF Command, Begins, Probe, Ends, Reactivate, Submit, Settle, ArchiveChecks, ArchiveRenames,
     ArchiveMakes, server
<1>6. ASSUME NEW c \in Operator, KillGroup(c) PROVE EndedInv'
  BY <1>2, <1>6, TypeFacts DEF KillGroup, At
<1>7. ASSUME NEW a \in Attempt, Server(a) PROVE EndedInv'
  <2>1. CASE ScriptLocks(a) \/ ScriptRefuses(a) \/ ScriptLaunches(a) \/ ScriptRecords(a)
    BY <1>1, <2>1 DEF ScriptLocks, ScriptRefuses, ScriptLaunches, ScriptRecords
  <2>2. CASE AdapterSpawns(a) \/ ChildEnds(a) \/ AdapterFinishes(a)
    BY <2>2, <1>f DEF AdapterSpawns, ChildEnds, AdapterFinishes, ServerInv
  <2>3. CASE AdapterGivesUp(a) \/ AdapterDies(a)
    BY <1>2, <2>3 DEF AdapterGivesUp, AdapterDies
  <2> QED BY <1>7, <2>1, <2>2, <2>3 DEF Server
<1>8. CASE Reboot
  BY <1>8, <1>f DEF Reboot
<1>9. CASE UNCHANGED vars
  BY <1>1, <1>9 DEF vars, server
<1> QED BY <1>3, <1>4, <1>5, <1>6, <1>7, <1>8, <1>9 DEF Next

\* How a step gives the slot up.
LEMMA ReleaseNext ==
  ASSUME TypeInv, ServerInv, StagedInv, HandInv, EndedInv, [Next]_vars, state \in Occupied, state' \notin Occupied
  PROVE  Quiet(now) \/ Decided(now) \/ PutAside(now)
<1> USE DEF Occupied, At, Of
<1>f. result \in [Attempt -> Results \cup {"none"}] /\ actor \in [Actor -> ActorState]
  BY DEF TypeInv, TypeOK
<1>r. \A a \in Attempt : result[a] \in Accepted => Quiet(a)
  BY DEF ServerInv, Undelivered, EndedInv, Accepted, Quiet
<1>n. \A a \in Attempt : script[a] = "none" => Quiet(a)
  BY DEF ServerInv, Undelivered, Quiet
<1>1. CASE NotStarted
  <2>1. now \in Attempt /\ script[now] = "none"
    BY <1>1, TypeFacts DEF NotStarted, ServerInv
  <2> QED BY <2>1, <1>n
<1>2. CASE Report
  <2>1. now \in Attempt /\ actor[Wrapper].pc = "report"
    BY <1>2, TypeFacts DEF Report
  <2>2. staging[now] \in {"succeeded", "failed", "transient", "invalid"}
    BY <1>2 DEF Report, Submits, Outcomes
  <2>3. result[now] \in Accepted \/ script[now] = "none" \/ staging[now] = "invalid"
    BY <2>1, <2>2 DEF StagedInv, Accepted, Results
  <2> QED BY <2>1, <2>3, <1>r, <1>n DEF PutAside
<1>3. ASSUME NEW c \in Operator, Submit(c) PROVE Quiet(now) \/ PutAside(now)
  <2>1. now \in Attempt /\ actor[c].pc = "submit" /\ now = actor[c].at
    BY <1>3, TypeFacts DEF Submit
  <2>2. actor[c].got \in Stagings
    BY <1>f, TypeFacts DEF ActorState
  <2>3. CASE Submits(now, "succeeded")
    <3>1. staging[now] \in {"succeeded", "overwritten"}
      BY <2>3, RemoteAssumption DEF Submits, Outcomes
    <3> QED BY <2>1, <3>1, <1>r DEF StagedInv, Accepted, Results
  <2>4. CASE Submits(now, actor[c].got) /\ actor[c].got # "torn"
    <3>1. actor[c].got \in {"succeeded", "failed", "transient", "invalid"}
      BY <2>4 DEF Submits, Outcomes
    <3> QED BY <2>1, <3>1, <1>r DEF HandInv, Submitting, Accepted, Results, PutAside
  <2> QED BY <1>3, <2>1, <2>3, <2>4 DEF Submit
<1>4. ASSUME NEW c \in Operator, Settle(c) PROVE Decided(now)
  BY <1>4 DEF Settle, Fenced, Decided
<1>5. CASE Lease \/ Uploads \/ StartAnswered \/ Polls \/ ConnectionLost \/ LeaseOrWrapperLost
  BY <1>5 DEF Lease, Leasable, Uploads, StartAnswered, Polls, ConnectionLost, LeaseOrWrapperLost
<1>6. ASSUME NEW x \in Actor, Download(x) PROVE FALSE
  BY <1>6 DEF Download, FetchStarts, FetchFails, FetchRefused, Validates, Moves
<1>7. ASSUME NEW c \in Operator, Command(c), ~Submit(c), ~Settle(c) PROVE FALSE
  BY <1>7 DEF Command, Begins, Probe, Ends, Reactivate, ArchiveChecks, ArchiveRenames, ArchiveMakes, KillGroup
<1>8. CASE (\E a \in Attempt : Server(a)) \/ Reboot \/ UNCHANGED vars
  BY <1>8, ServerSteps DEF local
<1> QED BY <1>1, <1>2, <1>3, <1>4, <1>5, <1>6, <1>7, <1>8 DEF Next, WrapperNext

\* A slot is given up under something that runs, or is about to be launched, only
\* by a decision on a probe or with a tree that was put aside as invalid: no
\* report and no recovered result does it, for any number of commands, with late
\* starts, orphans, slow probes and any refusals.
THEOREM GpuGivenUpQuietly == Spec => QuietRelease
<1>1. Init => StagedInv /\ HandInv /\ EndedInv
  BY StagedInit DEF Init, HandInv, Submitting, EndedInv, Accepted, At, Idle, Actor
<1>2. TypeInv /\ ServerInv /\ StagedInv /\ HandInv /\ EndedInv /\ [Next]_vars => StagedInv' /\ HandInv' /\ EndedInv'
  BY StagedInvNext, HandNext, EndedNext
<1>3. TypeInv /\ ServerInv /\ StagedInv /\ HandInv /\ EndedInv /\ [Next]_vars
        => [(state \in Occupied /\ state' \notin Occupied) => (Quiet(now) \/ Decided(now) \/ PutAside(now))]_vars
  BY ReleaseNext
<1> QED BY TypeInvariant, ServerInvariant, <1>1, <1>2, <1>3, PTL DEF Spec, QuietRelease

-----------------------------------------------------------------------------
(* The plan of a pipeline: which stages it may consist of, none twice.     *)

StageShape ==
  [name : StageNames, reads : SUBSET Outputs, writes : SUBSET Outputs, tolerated : BOOLEAN,
   rejects : {"never", "stop", "go on"}, follows : BOOLEAN, copies : BOOLEAN]

\* What the reconstruction makes, and no other stage; only its second half follows
\* another stage, and one that copies has no outputs of its own.
Rebuilt == {"mesh", "sample"}
StageRecord ==
  {s \in StageShape : /\ s.follows => s.name = "mesh_to_gaussian"
                      /\ s.copies => s.writes = {}
                      /\ s.name \notin Reconstruction => s.writes \cap Rebuilt = {}
                      /\ s.name = "model_generation" => s.writes \subseteq Rebuilt}

Named(s, N) == \A i \in DOMAIN s : s[i].name \in N
NamedOnce(s) == \A i, j \in DOMAIN s : s[i].name = s[j].name => i = j

\* A stretch of a plan: stages with names among N, none twice.
Stretch(s, N) == s \in Seq(StageRecord) /\ Named(s, N) /\ NamedOnce(s)

LEMMA StageTyped ==
  ASSUME NEW n \in StageNames, NEW r \in SUBSET Outputs, NEW w \in SUBSET Outputs,
         n \notin Reconstruction => w \cap Rebuilt = {},
         n = "model_generation" => w \subseteq Rebuilt
  PROVE  Stage(n, r, w) \in StageRecord /\ Stage(n, r, w).name = n /\ Stage(n, r, w).writes = w
BY DEF Stage, StageRecord, StageShape

LEMMA ToleratedTyped ==
  ASSUME NEW s \in StageRecord
  PROVE  Tolerated(s) \in StageRecord /\ Tolerated(s).name = s.name
BY DEF Tolerated, StageRecord, StageShape

LEMMA FollowsTyped ==
  ASSUME NEW s \in StageRecord, s.name = "mesh_to_gaussian"
  PROVE  Follows(s) \in StageRecord /\ Follows(s).name = s.name
BY DEF Follows, StageRecord, StageShape

LEMMA CopiesTyped ==
  ASSUME NEW s \in StageRecord, s.writes = {}
  PROVE  Copies(s) \in StageRecord /\ Copies(s).name = s.name
BY DEF Copies, StageRecord, StageShape

LEMMA RejectsTyped ==
  ASSUME NEW how \in {"stop", "go on"}, NEW s \in StageRecord
  PROVE  Rejects(how, s) \in StageRecord /\ Rejects(how, s).name = s.name
BY DEF Rejects, StageRecord, StageShape

LEMMA EmptyStretch == \A N : Stretch(<<>>, N)
BY DEF Stretch, Named, NamedOnce

LEMMA OneStage ==
  ASSUME NEW s \in StageRecord, NEW N, s.name \in N
  PROVE  Stretch(<<s>>, N)
BY DEF Stretch, Named, NamedOnce

LEMMA JoinedStretch ==
  ASSUME NEW s, NEW N, NEW u, NEW M, Stretch(s, N), Stretch(u, M), N \cap M = {}
  PROVE  Stretch(s \o u, N \cup M)
<1> USE DEF Stretch
<1>1. /\ s \o u \in Seq(StageRecord) /\ Len(s \o u) = Len(s) + Len(u)
      /\ \A i \in 1..(Len(s) + Len(u)) :
           (s \o u)[i] = IF i <= Len(s) THEN s[i] ELSE u[i - Len(s)]
      /\ Len(s) \in Nat /\ Len(u) \in Nat
      /\ DOMAIN s = 1..Len(s) /\ DOMAIN u = 1..Len(u) /\ DOMAIN (s \o u) = 1..(Len(s) + Len(u))
  BY ConcatProperties, LenProperties
<1>2. ASSUME NEW i \in DOMAIN (s \o u)
      PROVE  \/ i \in DOMAIN s /\ (s \o u)[i] = s[i] /\ (s \o u)[i].name \in N
             \/ /\ i \notin DOMAIN s /\ i - Len(s) \in DOMAIN u /\ (s \o u)[i] = u[i - Len(s)]
                /\ (s \o u)[i].name \in M
  BY <1>1 DEF Named
<1>3. Named(s \o u, N \cup M)
  BY <1>2 DEF Named
<1>4. NamedOnce(s \o u)
  <2> SUFFICES ASSUME NEW i \in DOMAIN (s \o u), NEW j \in DOMAIN (s \o u),
                      (s \o u)[i].name = (s \o u)[j].name
               PROVE  i = j
    BY DEF NamedOnce
  <2> QED BY <1>1, <1>2 DEF NamedOnce
<1> QED BY <1>1, <1>3, <1>4

LEMMA TwoStages ==
  ASSUME NEW a \in StageRecord, NEW b \in StageRecord, NEW N,
         a.name \in N, b.name \in N, a.name # b.name
  PROVE  Stretch(<<a, b>>, N)
BY DEF Stretch, Named, NamedOnce

LEMMA FourStages ==
  ASSUME NEW a \in StageRecord, NEW b \in StageRecord, NEW c \in StageRecord, NEW d \in StageRecord,
         NEW N, a.name \in N, b.name \in N, c.name \in N, d.name \in N,
         a.name \notin {b.name, c.name, d.name}, b.name \notin {c.name, d.name}, c.name # d.name
  PROVE  Stretch(<<a, b, c, d>>, N)
<1>1. <<a, b, c, d>> \in Seq(StageRecord)
  OBVIOUS
<1>2. Named(<<a, b, c, d>>, N)
  BY DEF Named
<1>3. NamedOnce(<<a, b, c, d>>)
  BY DEF NamedOnce
<1> QED BY <1>1, <1>2, <1>3 DEF Stretch

LEMMA WhenStretch ==
  ASSUME NEW condition \in BOOLEAN, NEW s, NEW N, condition => Stretch(s, N)
  PROVE  Stretch(When(condition, s), N)
BY EmptyStretch DEF When

\* The names the stages of the mask, and those of the object's mask, may have.
CutoutNames(o) == IF o.input = "cutout" THEN {"segmentation"} ELSE {}
SegmentingNames(o) == IF o.input = "composite" THEN {"segmentation"} ELSE {}

LEMMA SampleTyped == \A o : Sample(o) \in SUBSET Outputs
BY DEF Sample, Outputs

LEMMA InputMaskStretch ==
  ASSUME NEW o \in PipelineOptions
  PROVE  Stretch(InputMask(o), {"trellis_input_segmentation"})
<1>1. Stage("trellis_input_segmentation", {}, {"cutout"}) \in StageRecord
      /\ Stage("trellis_input_segmentation", {}, {"cutout"}).name = "trellis_input_segmentation"
  BY StageTyped DEF StageNames, Outputs, Reconstruction, Rebuilt
<1>2. (Trellis(o) /\ o.masks /\ ~o.ply) \in BOOLEAN
  BY DEF Trellis, PipelineOptions
<1>3. Stretch(<< Stage("trellis_input_segmentation", {}, {"cutout"}) >>, {"trellis_input_segmentation"})
  BY <1>1, OneStage
<1> QED BY <1>2, <1>3, WhenStretch DEF InputMask

LEMMA CutoutStretch ==
  ASSUME NEW o \in PipelineOptions
  PROVE  Stretch(Cutout(o), CutoutNames(o))
<1> DEFINE s == Stage("segmentation", {}, {"segmentation"})
           stages == << IF Trellis(o) /\ ~o.ply THEN s ELSE Tolerated(s) >>
<1>1. s \in StageRecord /\ s.name = "segmentation"
  BY StageTyped DEF StageNames, Outputs, Reconstruction, Rebuilt
<1>2. (o.input = "cutout" /\ o.prompt) \in BOOLEAN
  BY DEF PipelineOptions
<1>3. o.input = "cutout" => Stretch(stages, CutoutNames(o))
  <2> HIDE DEF s
  <2>1. \A r \in {s, Tolerated(s)} : r \in StageRecord /\ r.name = "segmentation"
    BY <1>1, ToleratedTyped
  <2>2. (IF Trellis(o) /\ ~o.ply THEN s ELSE Tolerated(s)) \in {s, Tolerated(s)}
    OBVIOUS
  <2> QED BY <2>1, <2>2, OneStage DEF CutoutNames
<1>4. Stretch(When(o.input = "cutout" /\ o.prompt, stages), CutoutNames(o))
  <2> HIDE DEF stages
  <2> QED BY <1>2, <1>3, WhenStretch
<1> QED BY <1>4 DEF Cutout

LEMMA GenerationStretch ==
  ASSUME NEW o \in PipelineOptions
  PROVE  Stretch(Generation(o), {"model_generation", "mesh_to_gaussian"})
<1> DEFINE N == {"model_generation", "mesh_to_gaussian"}
           mesh == Stage("model_generation", {}, {"mesh"})
           gaussian == Stage("mesh_to_gaussian", {"mesh"}, {"sample"})
           scene == Stage("model_generation", Cutouts(o), {"sample"})
           both == << Tolerated(mesh), Tolerated(Follows(gaussian)) >>
<1>1. mesh \in StageRecord /\ mesh.name = "model_generation"
  BY StageTyped DEF StageNames, Outputs, Reconstruction, Rebuilt
<1>2. gaussian \in StageRecord /\ gaussian.name = "mesh_to_gaussian"
  BY StageTyped DEF StageNames, Outputs, Reconstruction, Rebuilt
<1>3. scene \in StageRecord /\ scene.name = "model_generation"
  <2>1. Cutouts(o) \in SUBSET Outputs
    BY DEF Cutouts, Outputs
  <2> QED BY <2>1, StageTyped DEF StageNames, Outputs, Reconstruction, Rebuilt
<1> HIDE DEF mesh, gaussian, scene
<1>4. Stretch(both, N)
  BY <1>1, <1>2, ToleratedTyped, FollowsTyped, TwoStages
<1>5. Stretch(<< Tolerated(scene) >>, N)
  BY <1>3, ToleratedTyped, OneStage
<1> HIDE DEF both
<1>6. Stretch(IF o.provider = "hunyuan" THEN both ELSE << Tolerated(scene) >>, N)
  BY <1>4, <1>5
<1>7. (~o.ply) \in BOOLEAN
  OBVIOUS
<1> HIDE DEF N
<1>8. Stretch(When(~o.ply, IF o.provider = "hunyuan" THEN both ELSE << Tolerated(scene) >>), N)
  BY <1>6, <1>7, WhenStretch
<1> QED BY <1>8 DEF Generation, N, mesh, gaussian, scene, both

LEMMA RenderingStretch ==
  ASSUME NEW o \in PipelineOptions
  PROVE  Stretch(Rendering(o), {"yaw_search", "gim_initial", "pose_coarse", "render_aligned", "render"})
<1> DEFINE N == {"yaw_search", "gim_initial", "pose_coarse", "render_aligned", "render"}
           yaw == Stage("yaw_search", Sample(o), {"initial"})
           match == Stage("gim_initial", {"initial"}, {"gim_initial"})
           coarse == Stage("pose_coarse", {"initial", "gim_initial"}, {"coarse"})
           aligned == Stage("render_aligned", Sample(o) \cup {"coarse"}, {"render"})
           plain == Stage("render", Sample(o), {"render"})
<1>1. /\ yaw \in StageRecord /\ yaw.name = "yaw_search"
      /\ match \in StageRecord /\ match.name = "gim_initial"
      /\ plain \in StageRecord /\ plain.name = "render"
  BY StageTyped, SampleTyped DEF StageNames, Outputs, Reconstruction, Rebuilt
<1>2. coarse \in StageRecord /\ coarse.name = "pose_coarse"
  BY StageTyped DEF StageNames, Outputs, Reconstruction, Rebuilt
<1>3. aligned \in StageRecord /\ aligned.name = "render_aligned"
  BY StageTyped, SampleTyped DEF StageNames, Outputs, Reconstruction, Rebuilt
<1> HIDE DEF yaw, match, coarse, aligned, plain
<1>4. Rejects("stop", coarse) \in StageRecord /\ Rejects("stop", coarse).name = "pose_coarse"
  BY <1>2, RejectsTyped
<1>5. Stretch(<< yaw, match, Rejects("stop", coarse), aligned >>, N)
  BY <1>1, <1>3, <1>4, FourStages
<1>6. Stretch(<< plain >>, N)
  BY <1>1, OneStage
<1> HIDE DEF N
<1>7. Stretch(IF Refined(o) THEN << yaw, match, Rejects("stop", coarse), aligned >> ELSE << plain >>, N)
  BY <1>5, <1>6
<1>8. o.render \in BOOLEAN
  BY DEF PipelineOptions
<1>9. Stretch(When(o.render, IF Refined(o) THEN << yaw, match, Rejects("stop", coarse), aligned >>
                             ELSE << plain >>), N)
  BY <1>7, <1>8, WhenStretch
<1> QED BY <1>9 DEF Rendering, N, yaw, match, coarse, aligned, plain

LEMMA MatchingStretch ==
  ASSUME NEW o \in PipelineOptions
  PROVE  Stretch(Matching(o), {"gim"})
<1>1. Stage("gim", {"render"}, {"gim"}) \in StageRecord /\ Stage("gim", {"render"}, {"gim"}).name = "gim"
  BY StageTyped DEF StageNames, Outputs, Reconstruction, Rebuilt
<1>2. Stretch(<< Stage("gim", {"render"}, {"gim"}) >>, {"gim"})
  BY <1>1, OneStage
<1>3. o.gim \in BOOLEAN
  BY DEF PipelineOptions
<1> QED BY <1>2, <1>3, WhenStretch DEF Matching

LEMMA PosingStretch ==
  ASSUME NEW o \in PipelineOptions
  PROVE  Stretch(Posing(o), {"anchor_segmentation", "pose"})
<1> DEFINE N == {"anchor_segmentation", "pose"}
           anchor == Stage("anchor_segmentation", {"render"}, {"anchor"})
           pose == Stage("pose", {"render", "gim", "anchor"}, {"pose"})
<1>1. anchor \in StageRecord /\ anchor.name = "anchor_segmentation"
  BY StageTyped DEF StageNames, Outputs, Reconstruction, Rebuilt
<1>2. pose \in StageRecord /\ pose.name = "pose"
  BY StageTyped DEF StageNames, Outputs, Reconstruction, Rebuilt
<1> HIDE DEF anchor, pose
<1>3. Rejects("go on", pose) \in StageRecord /\ Rejects("go on", pose).name = "pose"
  BY <1>2, RejectsTyped
<1>4. Stretch(<< anchor, Rejects("go on", pose) >>, N)
  BY <1>1, <1>3, TwoStages
<1>5. o.pose \in BOOLEAN
  BY DEF PipelineOptions
<1> HIDE DEF N
<1>6. Stretch(When(o.pose, << anchor, Rejects("go on", pose) >>), N)
  BY <1>4, <1>5, WhenStretch
<1> QED BY <1>6 DEF Posing, N, anchor, pose

LEMMA SagsViewsStretch ==
  ASSUME NEW o \in PipelineOptions
  PROVE  Stretch(SagsViews(o), {"sags_render", "sags_segmentation"})
<1> DEFINE views == Stage("sags_render", Sample(o), {"views"})
           annotations == Stage("sags_segmentation", {"views"}, {"annotations"})
<1>1. views \in StageRecord /\ views.name = "sags_render"
  BY StageTyped, SampleTyped DEF StageNames, Outputs, Reconstruction, Rebuilt
<1>2. annotations \in StageRecord /\ annotations.name = "sags_segmentation"
  BY StageTyped DEF StageNames, Outputs, Reconstruction, Rebuilt
<1> HIDE DEF views, annotations
<1>3. Stretch(<< views >>, {"sags_render"}) /\ Stretch(<< annotations >>, {"sags_segmentation"})
  BY <1>1, <1>2, OneStage
<1>4. o.render \in BOOLEAN /\ Independent(o) \in BOOLEAN
  BY DEF PipelineOptions, Independent
<1>5. Stretch(When(o.render, << views >>), {"sags_render"})
  BY <1>3, <1>4, WhenStretch
<1>6. Stretch(When(o.render, << views >>) \o << annotations >>, {"sags_render"} \cup {"sags_segmentation"})
  BY <1>3, <1>5, JoinedStretch
<1>7. {"sags_render"} \cup {"sags_segmentation"} = {"sags_render", "sags_segmentation"}
  OBVIOUS
<1>8. Stretch(When(Independent(o), When(o.render, << views >>) \o << annotations >>),
              {"sags_render", "sags_segmentation"})
  BY <1>4, <1>6, <1>7, WhenStretch
<1> QED BY <1>8 DEF SagsViews, views, annotations

LEMMA SegmentingStretch ==
  ASSUME NEW o \in PipelineOptions
  PROVE  Stretch(Segmenting(o), SegmentingNames(o))
<1> DEFINE s == Stage("segmentation", {"render"}, {"segmentation"})
           condition == o.input = "composite" /\ Trellis(o) /\ o.prompt /\ ~Independent(o)
<1>1. s \in StageRecord /\ s.name = "segmentation"
  BY StageTyped DEF StageNames, Outputs, Reconstruction, Rebuilt
<1>2. condition \in BOOLEAN
  BY DEF Trellis, PipelineOptions
<1>3. condition => Stretch(<< s >>, SegmentingNames(o))
  <2> HIDE DEF s
  <2> QED BY <1>1, OneStage DEF SegmentingNames
<1>4. Stretch(When(condition, << s >>), SegmentingNames(o))
  <2> HIDE DEF s, condition
  <2> QED BY <1>2, <1>3, WhenStretch
<1> QED BY <1>4 DEF Segmenting

LEMMA SagsStretch ==
  ASSUME NEW o \in PipelineOptions
  PROVE  /\ Stretch(Sags(o), {"sags"})
         /\ o.sags # "no" => Len(Sags(o)) = 1 /\ Sags(o)[1].name = "sags"
<1> DEFINE copied == Stage("sags", Sample(o), {})
           independent == Stage("sags", {"views", "annotations"}, {})
           legacy == Stage("sags", {"render", "segmentation"}, {})
           last == IF ~Trellis(o) THEN Copies(copied)
                   ELSE IF Independent(o) THEN independent ELSE legacy
<1>1. copied \in StageRecord /\ copied.name = "sags" /\ copied.writes = {}
  BY SampleTyped, StageTyped DEF StageNames, Outputs, Reconstruction, Rebuilt
<1>2. /\ independent \in StageRecord /\ independent.name = "sags"
      /\ legacy \in StageRecord /\ legacy.name = "sags"
  BY StageTyped DEF StageNames, Outputs, Reconstruction, Rebuilt
<1>3. Copies(copied) \in StageRecord /\ Copies(copied).name = "sags"
  <2> HIDE DEF copied
  <2> QED BY <1>1, CopiesTyped
<1>4. last \in StageRecord /\ last.name = "sags"
  <2> HIDE DEF copied, independent, legacy
  <2> QED BY <1>2, <1>3
<1>5. Sags(o) = When(o.sags # "no", << last >>)
  BY DEF Sags
<1> HIDE DEF last
<1>6. Stretch(<< last >>, {"sags"})
  BY <1>4, OneStage
<1>7. Stretch(When(o.sags # "no", << last >>), {"sags"})
  BY <1>6, WhenStretch
<1>8. o.sags # "no" => Len(When(o.sags # "no", << last >>)) = 1
                       /\ When(o.sags # "no", << last >>)[1].name = "sags"
  BY <1>4 DEF When
<1> QED BY <1>5, <1>7, <1>8

\* A plan consists of stages, none of which it names twice; and it has the stage
\* whose results are published when it is asked to.
LEMMA PlanStretch ==
  ASSUME NEW o \in PipelineOptions
  PROVE  /\ Plan(o) \in Seq(StageRecord) /\ NamedOnce(Plan(o))
         /\ o.sags # "no" => \E k \in DOMAIN Plan(o) : Plan(o)[k].name = "sags"
<1> DEFINE p1 == InputMask(o) \o Cutout(o)
           n1 == {"trellis_input_segmentation"} \cup CutoutNames(o)
           p2 == p1 \o Generation(o)
           n2 == n1 \cup {"model_generation", "mesh_to_gaussian"}
           p3 == p2 \o Rendering(o)
           n3 == n2 \cup {"yaw_search", "gim_initial", "pose_coarse", "render_aligned", "render"}
           p4 == p3 \o Matching(o)
           n4 == n3 \cup {"gim"}
           p5 == p4 \o Posing(o)
           n5 == n4 \cup {"anchor_segmentation", "pose"}
           p6 == p5 \o SagsViews(o)
           n6 == n5 \cup {"sags_render", "sags_segmentation"}
           p7 == p6 \o Segmenting(o)
           n7 == n6 \cup SegmentingNames(o)
           p8 == p7 \o Sags(o)
           n8 == n7 \cup {"sags"}
<1> USE DEF CutoutNames, SegmentingNames
<1>1. Stretch(p1, n1)
  BY InputMaskStretch, CutoutStretch, JoinedStretch
<1>2. Stretch(p2, n2)
  <2>1. n1 \cap {"model_generation", "mesh_to_gaussian"} = {}
    OBVIOUS
  <2> HIDE DEF p1, n1
  <2> QED BY <1>1, <2>1, GenerationStretch, JoinedStretch
<1>3. Stretch(p3, n3)
  <2>1. n2 \cap {"yaw_search", "gim_initial", "pose_coarse", "render_aligned", "render"} = {}
    OBVIOUS
  <2> HIDE DEF p2, n2
  <2> QED BY <1>2, <2>1, RenderingStretch, JoinedStretch
<1>4. Stretch(p4, n4)
  <2>1. n3 \cap {"gim"} = {}
    OBVIOUS
  <2> HIDE DEF p3, n3
  <2> QED BY <1>3, <2>1, MatchingStretch, JoinedStretch
<1>5. Stretch(p5, n5)
  <2>1. n4 \cap {"anchor_segmentation", "pose"} = {}
    OBVIOUS
  <2> HIDE DEF p4, n4
  <2> QED BY <1>4, <2>1, PosingStretch, JoinedStretch
<1>6. Stretch(p6, n6)
  <2>1. n5 \cap {"sags_render", "sags_segmentation"} = {}
    OBVIOUS
  <2> HIDE DEF p5, n5
  <2> QED BY <1>5, <2>1, SagsViewsStretch, JoinedStretch
<1>7. Stretch(p7, n7)
  <2>1. n6 \cap SegmentingNames(o) = {}
    OBVIOUS
  <2> HIDE DEF p6, n6
  <2> QED BY <1>6, <2>1, SegmentingStretch, JoinedStretch
<1>8. Stretch(p8, n8)
  <2>1. n7 \cap {"sags"} = {}
    OBVIOUS
  <2> HIDE DEF p7, n7
  <2> QED BY <1>7, <2>1, SagsStretch, JoinedStretch
<1>9. Plan(o) = p8
  BY DEF Plan
<1>10. o.sags # "no" => \E k \in DOMAIN Plan(o) : Plan(o)[k].name = "sags"
  <2> SUFFICES ASSUME o.sags # "no"
               PROVE  p8[Len(p7) + 1].name = "sags" /\ Len(p7) + 1 \in DOMAIN p8
    BY <1>9
  <2>1. Sags(o) \in Seq(StageRecord) /\ Len(Sags(o)) = 1 /\ Sags(o)[1].name = "sags"
    BY SagsStretch DEF Stretch
  <2>2. p7 \in Seq(StageRecord)
    BY <1>7 DEF Stretch
  <2> HIDE DEF p7
  <2>3. /\ p8 \in Seq(StageRecord) /\ Len(p8) = Len(p7) + Len(Sags(o))
        /\ \A i \in 1..(Len(p7) + Len(Sags(o))) :
             p8[i] = IF i <= Len(p7) THEN p7[i] ELSE Sags(o)[i - Len(p7)]
    BY <2>1, <2>2, ConcatProperties
  <2>4. Len(p7) \in Nat /\ DOMAIN p8 = 1..Len(p8)
    BY <2>2, <2>3, LenProperties
  <2>5. Len(p7) + 1 \in DOMAIN p8
    BY <2>1, <2>3, <2>4
  <2>6. p8[Len(p7) + 1] = Sags(o)[(Len(p7) + 1) - Len(p7)]
    BY <2>1, <2>3, <2>4
  <2>7. (Len(p7) + 1) - Len(p7) = 1
    BY <2>4
  <2> QED BY <2>1, <2>5, <2>6, <2>7
<1> QED BY <1>8, <1>9, <1>10 DEF Stretch

-----------------------------------------------------------------------------

Pcs == {"off", "task", "refused", "check", "stage", "process", "finish", "publish", "aside", "move",
        "book", "evidence", "fatal", "ended"}
AtWork == {"stage", "process", "finish", "publish", "aside", "move"}

Failures == StageNames \cup {"batch", "pipeline", "provider_preflight"}
Manifest ==
  [run : Nat, status : Statuses, failed : SUBSET Failures, rejected : SUBSET StageNames,
   late : SUBSET StageNames, active : StageNames \cup {"none", "provider_preflight"}]
StageResults == {"ready", "failed", "rejected", "timeout"}
Standings == {"none", "running", "ready", "failed", "timeout"}
CommandState ==
  [pc : Pcs, i : Nat, run : Nat, k : Nat, code : Int,
   outcome : {"-"} \cup StageResults, aside : Nat]
Verdicts == {"none", "skipped", "failed", "rejected", "ready"}
Record == [status : Verdicts, run : Nat, batch : Nat]

\* The shape of the variables that the properties speak of.
Typed ==
  /\ man \in [Task -> Manifest]
  /\ made \in [Task -> [Outputs -> Int]]
  /\ attempt \in [Task -> [StageNames -> Standings]]
  /\ ply \in [Task -> Nat] /\ tree \in [Task -> Nat]
  /\ backup \in [Task -> SUBSET (Nat \ {0})]
  /\ evidence \in [Task -> SUBSET Nat]
  /\ cmd \in CommandState
  /\ record \in [Task -> Record]
  /\ runs \in Nat /\ batches \in Nat

\* No run is known that has not been started.
Numbered ==
  /\ runs <= MaxRuns /\ batches <= MaxBatches /\ cmd.run <= runs /\ cmd.aside <= runs
  /\ \A t \in Task : /\ man[t].run <= runs /\ ply[t] <= runs /\ tree[t] <= runs
                     /\ backup[t] \subseteq 1..runs /\ evidence[t] \subseteq 1..runs
                     /\ \A x \in Outputs : made[t][x] \in -runs..runs
                     /\ record[t].batch <= batches

\* Where the command may be.
Placed ==
  /\ cmd.pc # "off" => cmd.i \in 1..Len(Tasks)
  /\ cmd.pc \notin {"off", "task", "refused"} => cmd.run # 0
  /\ cmd.pc \in AtWork => cmd.k \in 1..(Len(Plan(Options[T])) + 1)
  /\ cmd.pc \in AtWork \ {"stage"} => AtStage
  /\ cmd.pc = "move" => tree[T] = 0

\* While stages run, the manifest is that of this run, and it is open.
Owned ==
  /\ cmd.pc \in AtWork => man[T].run = cmd.run /\ man[T].status = "open"
  /\ cmd.pc = "process" => man[T].active = Current.name /\ attempt[T][Current.name] = "running"

\* What the manifest has heard of the stage that ended last: a run goes on after a
\* reconstruction that was out of time only where it was told to.
Heard ==
  /\ cmd.pc \in {"task", "check"} => cmd.outcome = "-"
  /\ cmd.pc \in AtWork =>
       /\ cmd.outcome = "failed" => man[T].failed # {}
       /\ cmd.outcome = "timeout" => man[T].late # {}
       /\ man[T].late # {} => Options[T].goOn \/ (cmd.pc = "finish" /\ cmd.outcome = "timeout")
  /\ cmd.pc = "finish" /\ cmd.outcome = "timeout" => Current.name = "model_generation"

Wrote(t, s) == \A x \in s.writes : made[t][x] = cmd.run
Attempted(t, s) == s.copies \/ attempt[t][s.name] = "ready"
Succeeded(t, s) == Wrote(t, s) /\ Attempted(t, s) /\ (s.name = "sags" => ply[t] = cmd.run)
Behind(t, s) == Succeeded(t, s) \/ s.name \in Excused(man[t])
Clean(m) == m.failed = {} /\ m.rejected = {}

\* As long as nothing has failed or been rejected, each stage behind the pipeline
\* has succeeded in this run, or is a reconstruction that was out of time.
Progress ==
  cmd.pc \in AtWork /\ Clean(man[T]) =>
    /\ \A j \in 1..(cmd.k - 1) : Behind(T, Plan(Options[T])[j])
    /\ cmd.pc = "finish" /\ cmd.outcome # "timeout" => Wrote(T, Current)
    /\ cmd.pc \in {"publish", "aside", "move"} => Wrote(T, Current) /\ Attempted(T, Current)
    /\ cmd.pc \in {"aside", "move"} => ply[T] = cmd.run

\* What the end of the run says is what the manifest says.
Closing ==
  /\ cmd.pc \in {"book", "evidence"} =>
       man[T].run = cmd.run /\ man[T].status \in {"failed", "rejected", "ready"}
  /\ cmd.pc = "ended" /\ cmd.code = 0 =>
       man[T].run = cmd.run /\ man[T].status = "ready" /\ cmd.run \in evidence[T]

Sound == Typed /\ Numbered /\ Placed /\ Owned /\ Heard /\ Progress /\ Closing /\ ReadySound

\* The records of the batch at hand are of the tasks it has done.
Recorded ==
  cmd.pc # "off" =>
    \A t \in Task : record[t].status # "none" /\ record[t].batch = batches =>
      \E j \in 1..(cmd.i - 1) : Tasks[j] = t

LEMMA TasksListed ==
  /\ Len(Tasks) \in Nat \ {0} /\ DOMAIN Tasks = 1..Len(Tasks) /\ 1 \in 1..Len(Tasks)
  /\ \A i \in 1..Len(Tasks) : Tasks[i] \in Task
<1>1. Len(Tasks) \in Nat /\ DOMAIN Tasks = 1..Len(Tasks)
  BY PipelineAssumption, LenProperties
<1>2. Len(Tasks) # 0
  BY PipelineAssumption, EmptySeq
<1>3. \A i \in 1..Len(Tasks) : Tasks[i] \in Task
  BY PipelineAssumption, ElementOfSeq
<1> QED BY <1>1, <1>2, <1>3

LEMMA TaskAtHand ==
  ASSUME Placed, cmd.pc # "off"
  PROVE  /\ T \in Task /\ Options[T] \in PipelineOptions
         /\ Plan(Options[T]) \in Seq(StageRecord) /\ NamedOnce(Plan(Options[T]))
         /\ Len(Plan(Options[T])) \in Nat /\ DOMAIN Plan(Options[T]) = 1..Len(Plan(Options[T]))
<1>1. T \in Task
  BY TasksListed DEF Placed, T
<1>2. Options[T] \in PipelineOptions
  BY <1>1, PipelineAssumption
<1> QED BY <1>1, <1>2, PlanStretch, LenProperties

LEMMA StageAtHand ==
  ASSUME Typed, Placed, cmd.pc \in AtWork \ {"stage"} \/ (cmd.pc = "stage" /\ AtStage)
  PROVE  cmd.k \in DOMAIN Plan(Options[T]) /\ Current \in StageRecord
<1>1. cmd.pc # "off" /\ cmd.k \in 1..(Len(Plan(Options[T])) + 1) /\ AtStage
  BY DEF Placed, AtWork
<1>2. cmd.k \in DOMAIN Plan(Options[T])
  BY <1>1, TaskAtHand DEF AtStage
<1> QED BY <1>1, <1>2, TaskAtHand, ElementOfSeq DEF Current

\* The task at hand stays the same where a step only moves on in its pipeline, and
\* the stage at hand where it does not go to the next one.
LEMMA SameTask ==
  ASSUME cmd'.i = cmd.i
  PROVE  /\ T' = T
         /\ cmd'.k = cmd.k => (AtStage' <=> AtStage) /\ Current' = Current
BY DEF T, AtStage, Current


\* How a step may move the command on, and what that leaves.
Advances == cmd' = [cmd EXCEPT !.pc = "stage", !.k = @ + 1]

LEMMA GoneTo ==
  ASSUME cmd \in CommandState, NEW p \in Pcs, Goto(p)
  PROVE  /\ cmd' \in CommandState /\ cmd'.pc = p /\ cmd'.i = cmd.i /\ cmd'.run = cmd.run
         /\ cmd'.k = cmd.k /\ cmd'.aside = cmd.aside /\ cmd'.outcome = cmd.outcome
         /\ cmd'.code = cmd.code
BY DEF Goto, CommandState

LEMMA Advanced ==
  ASSUME cmd \in CommandState, Advances
  PROVE  /\ cmd' \in CommandState /\ cmd'.pc = "stage" /\ cmd'.i = cmd.i /\ cmd'.run = cmd.run
         /\ cmd'.k = cmd.k + 1 /\ cmd'.aside = cmd.aside /\ cmd'.outcome = cmd.outcome
<1>1. cmd.k + 1 \in Nat
  BY DEF CommandState
<1> QED BY <1>1 DEF Advances, CommandState, Pcs

LEMMA Ended ==
  ASSUME cmd \in CommandState, NEW n \in Int, cmd' = [cmd EXCEPT !.pc = "ended", !.code = n]
  PROVE  /\ cmd' \in CommandState /\ cmd'.pc = "ended" /\ cmd'.i = cmd.i /\ cmd'.run = cmd.run
         /\ cmd'.code = n /\ cmd'.aside = cmd.aside
BY DEF CommandState, Pcs

\* The moves of those steps that have more to say.
LEMMA LaunchMoves ==
  ASSUME cmd \in CommandState, runs \in Nat, Launches
  PROVE  /\ cmd' \in CommandState /\ cmd'.pc = "check" /\ cmd'.i = cmd.i /\ cmd'.run = runs + 1
         /\ cmd'.aside = cmd.aside /\ cmd'.outcome = cmd.outcome
<1>1. runs + 1 \in Nat
  OBVIOUS
<1> QED BY <1>1 DEF Launches, CommandState, Pcs

LEMMA OpenMoves ==
  ASSUME cmd \in CommandState, Opens
  PROVE  /\ cmd' \in CommandState /\ cmd'.pc \in {"stage", "fatal"} /\ cmd'.i = cmd.i
         /\ cmd'.run = cmd.run /\ cmd'.aside = cmd.aside /\ cmd'.outcome = cmd.outcome
         /\ cmd'.pc = "stage" => cmd'.k = 1 /\ man' = [man EXCEPT ![T] = Fresh(cmd.run)]
<1>1. CASE Goto("fatal")
  BY <1>1, GoneTo DEF Pcs
<1>2. CASE /\ cmd' = [cmd EXCEPT !.pc = "stage", !.k = 1]
           /\ man' = [man EXCEPT ![T] = Fresh(cmd.run)]
  BY <1>2 DEF CommandState, Pcs
<1> QED BY <1>1, <1>2 DEF Opens

LEMMA ReturnMoves ==
  ASSUME cmd \in CommandState, NEW outcome \in StageResults,
         cmd' = [cmd EXCEPT !.pc = "finish", !.outcome = outcome]
  PROVE  /\ cmd' \in CommandState /\ cmd'.pc = "finish" /\ cmd'.i = cmd.i /\ cmd'.run = cmd.run
         /\ cmd'.k = cmd.k /\ cmd'.outcome = outcome /\ cmd'.aside = cmd.aside
BY DEF CommandState, Pcs, StageResults

LEMMA FinishMoves ==
  ASSUME cmd \in CommandState, FinishesStage
  PROVE  \/ Goto("fatal") \/ Advances
         \/ cmd.outcome = "ready" /\ Current.name = "sags" /\ Goto("publish")
BY DEF FinishesStage, Goto, Advances

LEMMA AsideMoves ==
  ASSUME cmd \in CommandState, tree \in [Task -> Nat], T \in Task, MovesAside
  PROVE  /\ cmd' \in CommandState /\ cmd'.i = cmd.i /\ cmd'.run = cmd.run /\ cmd'.k = cmd.k
         /\ cmd'.outcome = cmd.outcome
         /\ \/ cmd'.pc = "fatal" /\ cmd'.aside = cmd.aside /\ tree' = tree /\ backup' = backup
            \/ /\ cmd'.pc = "move" /\ cmd'.aside = tree[T]
               /\ tree' = [tree EXCEPT ![T] = 0]
               /\ backup' = [backup EXCEPT ![T] = @ \cup ({tree[T]} \ {0})]
<1>1. CASE Goto("fatal") /\ UNCHANGED <<tree, backup>>
  BY <1>1, GoneTo DEF Pcs
<1>2. CASE /\ tree' = [tree EXCEPT ![T] = 0]
           /\ backup' = [backup EXCEPT ![T] = @ \cup ({tree[T]} \ {0})]
           /\ cmd' = [cmd EXCEPT !.pc = "move", !.aside = tree[T]]
  BY <1>2 DEF CommandState, Pcs
<1> QED BY <1>1, <1>2 DEF MovesAside

LEMMA InMoves ==
  ASSUME cmd \in CommandState, MovesIn
  PROVE  /\ cmd' \in CommandState /\ cmd'.i = cmd.i /\ cmd'.run = cmd.run /\ cmd'.aside = 0
         /\ cmd'.outcome = cmd.outcome
         /\ backup' = [backup EXCEPT ![T] = @ \ {cmd.aside}]
         /\ \/ /\ cmd'.pc = "stage" /\ cmd'.k = cmd.k + 1
               /\ tree' = [tree EXCEPT ![T] = cmd.run]
            \/ /\ cmd'.pc = "fatal" /\ tree' = [tree EXCEPT ![T] = cmd.aside]
<1>1. CASE /\ tree' = [tree EXCEPT ![T] = cmd.run] /\ Unmoved
           /\ cmd' = [cmd EXCEPT !.pc = "stage", !.k = @ + 1, !.aside = 0]
  <2>1. cmd.k + 1 \in Nat
    BY DEF CommandState
  <2> QED BY <1>1, <2>1 DEF CommandState, Pcs, Unmoved
<1>2. CASE /\ tree' = [tree EXCEPT ![T] = cmd.aside] /\ Unmoved
           /\ cmd' = [cmd EXCEPT !.pc = "fatal", !.aside = 0]
  BY <1>2 DEF CommandState, Pcs, Unmoved
<1> QED BY <1>1, <1>2 DEF MovesIn, PutBack

LEMMA OffTyped == Off \in CommandState
BY DEF Off, CommandState, Pcs

LEMMA TaskMoves ==
  ASSUME NEW n \in Nat, cmd' = [Off EXCEPT !.pc = "task", !.i = n]
  PROVE  /\ cmd' \in CommandState /\ cmd'.pc = "task" /\ cmd'.i = n /\ cmd'.run = 0 /\ cmd'.aside = 0
         /\ cmd'.outcome = "-"
<1> DEFINE c == Off
<1>1. c \in CommandState /\ c.run = 0 /\ c.aside = 0 /\ c.outcome = "-"
  BY OffTyped DEF Off
<1>2. cmd' = [c EXCEPT !.pc = "task", !.i = n]
  OBVIOUS
<1> HIDE DEF c
<1> QED BY <1>1, <1>2 DEF CommandState, Pcs

LEMMA NoManifestTyped == NoManifest \in Manifest
BY DEF NoManifest, Manifest, Statuses

LEMMA ManifestEdits ==
  ASSUME NEW m \in Manifest, NEW st \in Statuses
  PROVE  /\ [m EXCEPT !.status = st] \in Manifest
         /\ \A n \in Nat : [m EXCEPT !.run = n, !.status = st] \in Manifest
         /\ \A w \in SUBSET Failures : [m EXCEPT !.status = st, !.failed = w] \in Manifest
         /\ [m EXCEPT !.status = st, !.active = "provider_preflight"] \in Manifest
BY DEF Manifest

LEMMA FreshTyped ==
  ASSUME NEW r \in Nat
  PROVE  /\ Fresh(r) \in Manifest /\ Fresh(r).run = r /\ Fresh(r).status = "open"
         /\ Fresh(r).failed = {} /\ Fresh(r).rejected = {} /\ Fresh(r).late = {}
<1>1. Fresh(r) \in Manifest
  BY NoManifestTyped, ManifestEdits DEF Fresh, Statuses
<1>2. /\ Fresh(r).run = r /\ Fresh(r).status = "open"
      /\ Fresh(r).failed = {} /\ Fresh(r).rejected = {} /\ Fresh(r).late = {}
  BY DEF Fresh, NoManifest
<1> QED BY <1>1, <1>2

LEMMA NotedTyped ==
  ASSUME NEW m \in Manifest, Current.name \in StageNames
  PROVE  \A w : /\ Noted(m, w) \in Manifest /\ Noted(m, w).run = m.run /\ Noted(m, w).status = m.status
                /\ Noted(m, w).rejected = m.rejected
                /\ m.failed \subseteq Noted(m, w).failed /\ m.late \subseteq Noted(m, w).late
                /\ w = "failed" => Noted(m, w).failed # {}
                /\ IF w = "timeout" THEN Noted(m, w).late # {} ELSE Noted(m, w).late = m.late
BY DEF Noted, Manifest, Failures

LEMMA TypedKept ==
  ASSUME Typed, Placed, PipelineNext
  PROVE  Typed'
<1>a. cmd \in CommandState /\ cmd.run \in Nat /\ cmd.k \in Nat /\ cmd.i \in Nat /\ cmd.aside \in Nat /\ runs \in Nat
  BY DEF Typed, CommandState
<1>b. cmd.pc # "off" => T \in Task
  BY TaskAtHand
<1>c. man \in [Task -> Manifest]
  BY DEF Typed
<1>d. /\ attempt \in [Task -> [StageNames -> Standings]]
      /\ made \in [Task -> [Outputs -> Int]]
      /\ tree \in [Task -> Nat] /\ evidence \in [Task -> SUBSET Nat]
      /\ backup \in [Task -> SUBSET (Nat \ {0})]
  BY DEF Typed
<1>1. CASE BatchStarts
  <2>1. cmd' \in CommandState
    BY <1>1, TaskMoves DEF BatchStarts
  <2> QED BY <1>b, <1>1, <2>1 DEF Typed, BatchStarts, space
<1>2. ASSUME NEW status \in Verdicts, NEW run \in Nat, NextTask(status, run), cmd.pc # "off"
      PROVE  record' \in [Task -> Record] /\ cmd' \in CommandState
  <2>1. cmd.i + 1 \in Nat
    BY <1>a
  <2>2. cmd' \in CommandState
    BY <1>2, <2>1, OffTyped, TaskMoves DEF NextTask
  <2>3. [status |-> status, run |-> run, batch |-> batches] \in Record /\ NoRecord \in Record
    BY DEF Typed, Record, NoRecord, Verdicts
  <2> QED BY <1>b, <1>2, <2>2, <2>3 DEF Typed, NextTask
<1>0. CASE RecordsRefusal
  BY <1>b, <1>2, <1>0 DEF Typed, RecordsRefusal, Verdicts, space
<1>3. CASE SkipsTask
  BY <1>b, <1>2, <1>3 DEF Typed, SkipsTask, Manifest, Verdicts, space
<1>4. CASE RefusesTask
  <2>1. [NoManifest EXCEPT !.status = "failed", !.failed = {"batch"}] \in Manifest
    <3> DEFINE m == NoManifest
    <3>1. m \in Manifest
      BY NoManifestTyped
    <3>2. {"batch"} \in SUBSET Failures /\ "failed" \in Statuses
      BY DEF Failures, Statuses
    <3> HIDE DEF m
    <3>3. [m EXCEPT !.status = "failed", !.failed = {"batch"}] \in Manifest
      BY <3>1, <3>2, ManifestEdits
    <3> QED BY <3>3 DEF m
  <2>2. cmd' \in CommandState
    BY <1>a, <1>4, GoneTo DEF RefusesTask, Pcs
  <2> QED BY <1>b, <1>4, <2>1, <2>2 DEF Typed, RefusesTask, space
<1>5. CASE Launches
  <2>1. cmd' \in CommandState
    BY <1>a, <1>5, LaunchMoves
  <2> QED BY <1>b, <1>5, <2>1 DEF Typed, Launches, space
<1>6. CASE RecordsTask
  BY <1>b, <1>2, <1>6 DEF Typed, RecordsTask, Verdict, Verdicts, CommandState, space
<1>7. CASE Fatal
  <2>1. cmd' \in CommandState
    <3>1. cmd' = [cmd EXCEPT !.pc = "ended", !.code = 1] /\ 1 \in Int
      BY <1>7 DEF Fatal
    <3> QED BY <1>a, <3>1, Ended
  <2>2. man' \in [Task -> Manifest]
    BY <1>b, <1>c, <1>7 DEF Fatal, Manifest, Statuses
  <2> QED BY <1>b, <1>7, <2>1, <2>2 DEF Typed, Fatal, space
<1>8. CASE Opens
  <2>1. cmd' \in CommandState
    BY <1>a, <1>8, OpenMoves
  <2>2. man' \in [Task -> Manifest]
    <3>1. cmd.run \in Nat
      BY <1>a
    <3>2. [Fresh(cmd.run) EXCEPT !.status = "blocked", !.active = "provider_preflight"] \in Manifest
      BY <1>a, <3>1, FreshTyped, ManifestEdits DEF Statuses
    <3> QED BY <1>b, <1>c, <1>8, <3>1, <3>2, FreshTyped DEF Opens
  <2> QED BY <1>b, <1>8, <2>1, <2>2 DEF Typed, Opens, space
<1>9. CASE BeginsStage
  <2>1. cmd' \in CommandState
    BY <1>a, <1>9, GoneTo DEF BeginsStage, Pcs
  <2>2. Current.name \in StageNames
    BY <1>9, StageAtHand DEF BeginsStage, StageRecord, StageShape
  <2>3. man' \in [Task -> Manifest]
    BY <1>b, <1>c, <1>9, <2>2 DEF BeginsStage, Manifest
  <2>4. attempt' \in [Task -> [StageNames -> Standings]]
    <3>1. attempt' = attempt \/ attempt' = [attempt EXCEPT ![T][Current.name] = "running"]
      BY <1>9 DEF BeginsStage
    <3>2. T \in Task
      BY <1>b, <1>9 DEF BeginsStage
    <3> DEFINE f == [attempt[T] EXCEPT ![Current.name] = "running"]
    <3>3. f \in [StageNames -> Standings]
      BY <1>d, <2>2, <3>2 DEF Standings
    <3>4. attempt' = attempt \/ attempt' = [attempt EXCEPT ![T] = f]
      BY <1>d, <3>1, <3>2
    <3> HIDE DEF f
    <3> QED BY <1>d, <3>2, <3>3, <3>4
  <2> QED BY <1>b, <1>9, <2>1, <2>3, <2>4 DEF Typed, BeginsStage
<1>10. CASE StageReturns
  <2>1. PICK outcome \in StageResults :
          cmd' = [cmd EXCEPT !.pc = "finish", !.outcome = outcome]
    BY <1>a, <1>10 DEF StageReturns, StageOutcomes, StageResults
  <2>2. cmd' \in CommandState
    BY <1>a, <2>1, ReturnMoves
  <2>3. Current.name \in StageNames /\ Current.writes \in SUBSET Outputs
    BY <1>10, StageAtHand DEF StageReturns, StageRecord, StageShape, AtWork
  <2>4. man' \in [Task -> Manifest]
    <3>1. T \in Task
      BY <1>b, <1>10 DEF StageReturns
    <3>2. \A w : Noted(man[T], w) \in Manifest
      BY <1>c, <2>3, <3>1, NotedTyped
    <3>3. \E w : man' = [man EXCEPT ![T] = Noted(@, w)]
      BY <1>10 DEF StageReturns
    <3> QED BY <1>c, <3>1, <3>2, <3>3
  <2>5. made' \in [Task -> [Outputs -> Int]]
    <3> DEFINE Marked(W, n) == [made EXCEPT ![T] = [x \in Outputs |-> IF x \in W THEN n ELSE @[x]]]
    <3>1. \E W \in SUBSET Outputs : made' = Marked(W, -cmd.run) \/ made' = Marked(W, cmd.run)
      <4>1. \/ \E torn \in {{}, Current.writes} : made' = Marked(torn, -cmd.run)
            \/ made' = Marked(Current.writes, cmd.run)
        BY <1>10 DEF StageReturns
      <4> HIDE DEF Marked
      <4> QED BY <2>3, <4>1
    <3>2. \A W \in SUBSET Outputs, n \in Int : Marked(W, n) \in [Task -> [Outputs -> Int]]
      BY <1>d
    <3>3. cmd.run \in Int /\ -cmd.run \in Int
      BY <1>a
    <3> HIDE DEF Marked
    <3> QED BY <3>1, <3>2, <3>3
  <2> QED BY <1>b, <1>10, <2>2, <2>4, <2>5 DEF Typed, StageReturns
<1>11. CASE FinishesStage
  <2>1. cmd' \in CommandState
    BY <1>a, <1>11, FinishMoves, GoneTo, Advanced DEF Pcs
  <2>2. Current.name \in StageNames
    BY <1>11, StageAtHand DEF FinishesStage, StageRecord, StageShape, AtWork
  <2>3. man' \in [Task -> Manifest]
    <3> DEFINE m == [man[T] EXCEPT !.rejected = @ \cup {Current.name}]
    <3>1. T \in Task
      BY <1>b, <1>11 DEF FinishesStage
    <3>2. m \in Manifest
      BY <1>c, <2>2, <3>1 DEF Manifest
    <3>3. man' = man \/ man' = [man EXCEPT ![T] = m]
      BY <1>c, <1>11, <3>1 DEF FinishesStage
    <3> HIDE DEF m
    <3> QED BY <1>c, <3>1, <3>2, <3>3
  <2>4. attempt' \in [Task -> [StageNames -> Standings]]
    <3>1. PICK w \in Standings : attempt' = [attempt EXCEPT ![T][Current.name] = w]
      BY <1>11 DEF FinishesStage, Broken, Standings
    <3> QED BY <1>b, <1>d, <1>11, <2>2, <3>1 DEF FinishesStage
  <2> QED BY <1>b, <1>11, <2>1, <2>3, <2>4 DEF Typed, FinishesStage
<1>12. CASE PublishesFile
  <2>1. cmd' \in CommandState
    BY <1>a, <1>12, GoneTo, Advanced DEF PublishesFile, Advances, Pcs
  <2>2. cmd.run \in Nat
    BY <1>a
  <2> QED BY <1>b, <1>12, <2>1, <2>2 DEF Typed, PublishesFile
<1>13. CASE MovesAside
  <2>1. cmd' \in CommandState
    BY <1>a, <1>b, <1>d, <1>13, AsideMoves DEF MovesAside
  <2>2. tree' \in [Task -> Nat] /\ backup' \in [Task -> SUBSET (Nat \ {0})]
    <3>1. T \in Task /\ 0 \in Nat
      BY <1>b, <1>13 DEF MovesAside
    <3>2. \/ tree' = tree /\ backup' = backup
          \/ /\ tree' = [tree EXCEPT ![T] = 0]
             /\ backup' = [backup EXCEPT ![T] = @ \cup ({tree[T]} \ {0})]
      BY <1>a, <1>d, <1>13, <3>1, AsideMoves
    <3>3. backup[T] \cup ({tree[T]} \ {0}) \in SUBSET (Nat \ {0})
      BY <1>d, <3>1
    <3> QED BY <1>d, <3>1, <3>2, <3>3
  <2> QED BY <1>b, <1>13, <2>1, <2>2 DEF Typed, MovesAside
<1>14. CASE MovesIn
  <2>1. cmd' \in CommandState
    BY <1>a, <1>14, InMoves
  <2>2. cmd.run \in Nat /\ cmd.aside \in Nat
    BY <1>a
  <2>3. tree' \in [Task -> Nat] /\ backup' \in [Task -> SUBSET (Nat \ {0})]
    BY <1>a, <1>b, <1>d, <1>14, <2>2, InMoves DEF MovesIn
  <2> QED BY <1>b, <1>14, <2>1, <2>3 DEF Typed, MovesIn, PutBack
<1>15. CASE WritesOutcome
  <2>1. cmd' \in CommandState
    BY <1>a, <1>15, GoneTo DEF WritesOutcome, Pcs
  <2>2. Outcome(man[T]) \in Statuses
    BY DEF Outcome, Statuses
  <2>3. man' \in [Task -> Manifest]
    BY <1>b, <1>c, <1>15, <2>2 DEF WritesOutcome, Manifest
  <2> QED BY <1>b, <1>15, <2>1, <2>3 DEF Typed, WritesOutcome, space
<1>16. CASE WritesBook
  <2>1. cmd' \in CommandState
    BY <1>a, <1>16, GoneTo DEF WritesBook, Pcs
  <2> QED BY <1>b, <1>16, <2>1 DEF Typed, WritesBook, space
<1>17. CASE WritesEvidence
  <2>1. (CASE man[T].status = "failed" -> 1 [] man[T].status = "rejected" -> 2 [] OTHER -> 0) \in Int
    OBVIOUS
  <2>2. cmd' \in CommandState
    BY <1>a, <1>17, <2>1, GoneTo, Ended DEF WritesEvidence, Pcs
  <2>3. evidence' \in [Task -> SUBSET Nat]
    <3>1. evidence' = evidence \/ evidence' = [evidence EXCEPT ![T] = @ \cup {cmd.run}]
      BY <1>17, Zenon DEF WritesEvidence
    <3>2. T \in Task
      BY <1>b, <1>17, Zenon DEF WritesEvidence
    <3>3. evidence[T] \cup {cmd.run} \in SUBSET Nat
      BY <1>a, <1>d, <3>2
    <3> QED BY <1>d, <3>1, <3>2, <3>3
  <2> QED BY <1>b, <1>17, <2>2, <2>3 DEF Typed, WritesEvidence, space
<1>18. CASE PipelineDies
  <2>1. cmd' \in CommandState
    <3>1. cmd' = [cmd EXCEPT !.pc = "ended", !.code = -9] /\ -9 \in Int
      BY <1>18 DEF PipelineDies
    <3> QED BY <1>a, <3>1, Ended
  <2>2. man' \in [Task -> Manifest]
    BY <1>b, <1>c, <1>18 DEF PipelineDies, Manifest, Statuses
  <2> QED BY <1>b, <1>18, <2>1, <2>2 DEF Typed, PipelineDies, space
<1>19. CASE BatchDies
  <2>1. man' \in [Task -> Manifest]
    BY <1>b, <1>c, <1>19 DEF BatchDies, Manifest, Statuses
  <2>2. record' \in [Task -> Record]
    <3>1. NoRecord \in Record
      BY DEF NoRecord, Record, Verdicts
    <3> QED BY <1>19, <3>1 DEF Typed, BatchDies
  <2> QED BY <1>19, <2>1, <2>2, OffTyped DEF Typed, BatchDies, space
<1>20. CASE PassesOver
  <2>1. cmd' \in CommandState
    BY <1>a, <1>20, Advanced DEF PassesOver, Advances
  <2> QED BY <1>20, <2>1 DEF Typed, PassesOver, space
<1> QED BY <1>0, <1>1, <1>3, <1>4, <1>5, <1>6, <1>7, <1>8, <1>9, <1>10, <1>11, <1>12, <1>13, <1>14,
        <1>15, <1>16, <1>17, <1>18, <1>19, <1>20 DEF PipelineNext

\* What any step may do to the manifests and outputs of a task: those of other
\* tasks than the one at hand stay as they are.
LEMMA ManifestSteps ==
  ASSUME Typed, Placed, PipelineNext, NEW t \in Task
  PROVE  /\ man'[t].run \in {man[t].run, 0, cmd.run}
         /\ cmd.pc = "off" \/ t # T => man'[t] = man[t]
<1>1. man \in [Task -> Manifest] /\ (cmd.pc # "off" => T \in Task)
  BY TaskAtHand DEF Typed
<1>2. CASE man' = man
  BY <1>2
<1>3. CASE RefusesTask
  BY <1>1, <1>3 DEF RefusesTask, NoManifest
<1>4. CASE Fatal
  BY <1>1, <1>4 DEF Fatal, Manifest
<1>5. CASE Opens
  BY <1>1, <1>5 DEF Opens, Fresh, NoManifest
<1>6. CASE BeginsStage
  BY <1>1, <1>6 DEF BeginsStage, Manifest
<1>7. CASE StageReturns
  <2>1. PICK w : man' = [man EXCEPT ![T] = Noted(@, w)]
    BY <1>7 DEF StageReturns
  <2>2. T \in Task /\ Current.name \in StageNames
    BY <1>1, <1>7, StageAtHand DEF StageReturns, AtWork, StageRecord, StageShape
  <2>3. Noted(man[T], w).run = man[T].run
    BY <1>1, <2>2, NotedTyped
  <2>4. /\ t # T => man'[t] = man[t]
        /\ t = T => man'[t] = Noted(man[T], w)
    BY <1>1, <2>1
  <2>5. cmd.pc # "off"
    BY <1>7 DEF StageReturns
  <2> QED BY <2>3, <2>4, <2>5
<1>8. CASE FinishesStage
  BY <1>1, <1>8 DEF FinishesStage, Manifest
<1>9. CASE WritesOutcome
  BY <1>1, <1>9 DEF WritesOutcome, Manifest
<1>10. CASE PipelineDies
  BY <1>1, <1>10 DEF PipelineDies, InPipeline, Manifest
<1>11. CASE BatchDies
  BY <1>1, <1>11 DEF BatchDies, Manifest
<1> QED BY <1>2, <1>3, <1>4, <1>5, <1>6, <1>7, <1>8, <1>9, <1>10, <1>11
        DEF PipelineNext, BatchStarts, SkipsTask, Launches, RecordsTask, PublishesFile, MovesAside, MovesIn,
            WritesBook, WritesEvidence, RecordsRefusal, PassesOver

LEMMA OutputSteps ==
  ASSUME Typed, Placed, PipelineNext, NEW t \in Task
  PROVE  /\ \A x \in Outputs : made'[t][x] \in {made[t][x], cmd.run, -cmd.run}
         /\ cmd.pc = "off" \/ t # T => made'[t] = made[t]
         /\ cmd.pc # "process" => made'[t] = made[t]
<1>1. made \in [Task -> [Outputs -> Int]] /\ (cmd.pc # "off" => T \in Task)
  BY TaskAtHand DEF Typed
<1>2. CASE made' = made
  BY <1>2
<1>3. CASE StageReturns
  <2> DEFINE Marked(W, n) == [made EXCEPT ![T] = [x \in Outputs |-> IF x \in W THEN n ELSE @[x]]]
  <2>1. \/ \E torn \in {{}, Current.writes} : made' = Marked(torn, -cmd.run)
        \/ made' = Marked(Current.writes, cmd.run)
    BY <1>3 DEF StageReturns
  <2>2. ASSUME NEW W, NEW n
        PROVE  /\ \A x \in Outputs : Marked(W, n)[t][x] \in {made[t][x], n}
               /\ t # T => Marked(W, n)[t] = made[t]
    BY <1>1
  <2>3. cmd.pc = "process"
    BY <1>3 DEF StageReturns
  <2> HIDE DEF Marked
  <2> QED BY <2>1, <2>2, <2>3
<1> QED BY <1>2, <1>3
        DEF PipelineNext, space, BatchStarts, SkipsTask, RefusesTask, RecordsRefusal, PassesOver, Launches, RecordsTask, Fatal, Opens,
            BeginsStage, FinishesStage, PublishesFile, MovesAside, MovesIn,
            WritesOutcome, WritesBook, WritesEvidence, PipelineDies, BatchDies

LEMMA AttemptSteps ==
  ASSUME Typed, Placed, PipelineNext, NEW t \in Task, NEW s \in StageNames
  PROVE  /\ cmd.pc = "off" \/ t # T => attempt'[t][s] = attempt[t][s]
         /\ cmd.pc \notin {"stage", "finish"} => attempt'[t][s] = attempt[t][s]
         /\ s # Current.name => attempt'[t][s] = attempt[t][s]
<1>1. attempt \in [Task -> [StageNames -> Standings]]
      /\ (cmd.pc # "off" => T \in Task)
  BY TaskAtHand DEF Typed
<1>2. CASE attempt' = attempt
  BY <1>2
<1>3. ASSUME NEW w, attempt' = [attempt EXCEPT ![T][Current.name] = w], cmd.pc \in {"stage", "finish"}
      PROVE  /\ t # T => attempt'[t][s] = attempt[t][s]
             /\ s # Current.name => attempt'[t][s] = attempt[t][s]
  BY <1>1, <1>3
<1>4. CASE BeginsStage
  BY <1>2, <1>3, <1>4 DEF BeginsStage
<1>5. CASE FinishesStage
  BY <1>3, <1>5 DEF FinishesStage
<1> QED BY <1>2, <1>4, <1>5
        DEF PipelineNext, space, BatchStarts, SkipsTask, RefusesTask, RecordsRefusal, PassesOver, Launches, RecordsTask, Fatal, Opens,
            StageReturns, PublishesFile, MovesAside, MovesIn,
            WritesOutcome, WritesBook, WritesEvidence, PipelineDies, BatchDies

LEMMA PublishedSteps ==
  ASSUME Typed, Placed, PipelineNext, NEW t \in Task
  PROVE  /\ ply'[t] \in {ply[t], cmd.run}
         /\ cmd.pc # "publish" \/ t # T => ply'[t] = ply[t]
         /\ tree'[t] \in {tree[t], 0, cmd.run, cmd.aside}
         /\ cmd.pc \notin {"aside", "move"} \/ t # T => tree'[t] = tree[t] /\ backup'[t] = backup[t]
         /\ backup'[t] \subseteq backup[t] \cup ({tree[t]} \ {0})
<1>1. /\ ply \in [Task -> Nat] /\ tree \in [Task -> Nat] /\ (cmd.pc # "off" => T \in Task)
      /\ backup \in [Task -> SUBSET (Nat \ {0})]
  BY TaskAtHand DEF Typed
<1>2. CASE ply' = ply /\ tree' = tree /\ backup' = backup
  BY <1>2
<1>3. CASE PublishesFile
  BY <1>1, <1>3 DEF PublishesFile
<1>4. CASE MovesAside
  BY <1>1, <1>4 DEF MovesAside
<1>5. CASE MovesIn
  BY <1>1, <1>5 DEF MovesIn, PutBack, Unmoved
<1> QED BY <1>2, <1>3, <1>4, <1>5
        DEF PipelineNext, space, BatchStarts, SkipsTask, RefusesTask, RecordsRefusal, PassesOver, Launches, RecordsTask, Fatal, Opens,
            BeginsStage, StageReturns, FinishesStage,
            WritesOutcome, WritesBook, WritesEvidence, PipelineDies, BatchDies

LEMMA EvidenceSteps ==
  ASSUME Typed, Placed, PipelineNext, NEW t \in Task
  PROVE  /\ evidence'[t] = evidence[t] \/ (cmd.pc = "evidence" /\ evidence'[t] = evidence[t] \cup {cmd.run})
         /\ evidence[t] \subseteq evidence'[t]
<1>1. evidence \in [Task -> SUBSET Nat] /\ (cmd.pc # "off" => T \in Task)
  BY TaskAtHand DEF Typed
<1>2. CASE evidence' = evidence
  BY <1>2
<1>3. CASE cmd.pc = "evidence" /\ evidence' = [evidence EXCEPT ![T] = @ \cup {cmd.run}]
  BY <1>1, <1>3
<1>4. WritesEvidence => cmd.pc = "evidence" /\ (\/ evidence' = evidence
                                                \/ evidence' = [evidence EXCEPT ![T] = @ \cup {cmd.run}])
  BY Zenon DEF WritesEvidence
<1> QED BY <1>2, <1>3, <1>4
        DEF PipelineNext, BatchStarts, SkipsTask, RefusesTask, RecordsRefusal, PassesOver, Launches, RecordsTask, Fatal, Opens,
            BeginsStage, StageReturns, FinishesStage, PublishesFile, MovesAside, MovesIn,
            WritesOutcome, WritesBook, PipelineDies, BatchDies

\* The numbers the command carries are those of runs it has started.
LEMMA CarriedSteps ==
  ASSUME Typed, Placed, PipelineNext
  PROVE  /\ cmd'.run \in {cmd.run, 0, runs'}
         /\ cmd'.aside \in {cmd.aside, 0} \/ (T \in Task /\ cmd'.aside = tree[T])
<1>1. cmd \in CommandState /\ runs \in Nat /\ tree \in [Task -> Nat] /\ (cmd.pc # "off" => T \in Task)
  BY TaskAtHand DEF Typed
<1>5. ASSUME NEW status, NEW run, NextTask(status, run)
      PROVE  /\ cmd'.run \in {cmd.run, 0, runs'}
             /\ cmd'.aside \in {cmd.aside, 0} \/ (T \in Task /\ cmd'.aside = tree[T])
  <2>1. cmd.i + 1 \in Nat /\ Off.run = 0 /\ Off.aside = 0
    BY <1>1 DEF CommandState, Off
  <2> QED BY <1>5, <2>1, TaskMoves DEF NextTask
<1>6. CASE BatchStarts
  BY <1>6, TaskMoves DEF BatchStarts
<1>7. CASE SkipsTask \/ RecordsRefusal \/ RecordsTask
  BY <1>5, <1>7 DEF SkipsTask, RecordsRefusal, RecordsTask
<1>2. CASE RefusesTask
  BY <1>1, <1>2, GoneTo DEF RefusesTask, Pcs
<1>3. CASE PassesOver
  BY <1>1, <1>3, Advanced DEF PassesOver, Advances
<1>8. CASE Launches
  <2>1. runs' = runs + 1
    BY <1>8 DEF Launches
  <2> QED BY <1>1, <1>8, <2>1, LaunchMoves
<1>9. CASE Fatal
  <2>1. cmd' = [cmd EXCEPT !.pc = "ended", !.code = 1] /\ 1 \in Int
    BY <1>9 DEF Fatal
  <2> QED BY <1>1, <2>1, Ended
<1>10. CASE Opens
  BY <1>1, <1>10, OpenMoves
<1>11. CASE BeginsStage
  BY <1>1, <1>11, GoneTo DEF BeginsStage, Pcs
<1>12. CASE StageReturns
  <2>1. PICK outcome \in StageResults :
          cmd' = [cmd EXCEPT !.pc = "finish", !.outcome = outcome]
    BY <1>12 DEF StageReturns, StageOutcomes, StageResults
  <2> QED BY <1>1, <2>1, ReturnMoves
<1>13. CASE FinishesStage
  BY <1>1, <1>13, FinishMoves, GoneTo, Advanced DEF Pcs
<1>14. CASE PublishesFile
  BY <1>1, <1>14, GoneTo, Advanced DEF PublishesFile, Advances, Pcs
<1>15. CASE MovesAside
  <2>1. T \in Task
    BY <1>1, <1>15 DEF MovesAside
  <2> QED BY <1>1, <1>15, <2>1, AsideMoves
<1>16. CASE MovesIn
  BY <1>1, <1>16, InMoves
<1>17. CASE WritesOutcome \/ WritesBook
  BY <1>1, <1>17, GoneTo DEF WritesOutcome, WritesBook, Pcs
<1>18. CASE WritesEvidence
  <2>1. (CASE man[T].status = "failed" -> 1 [] man[T].status = "rejected" -> 2 [] OTHER -> 0) \in Int
    OBVIOUS
  <2> QED BY <1>1, <1>18, <2>1, GoneTo, Ended DEF WritesEvidence, Pcs
<1>19. CASE PipelineDies
  <2>1. cmd' = [cmd EXCEPT !.pc = "ended", !.code = -9] /\ -9 \in Int
    BY <1>19 DEF PipelineDies
  <2> QED BY <1>1, <2>1, Ended
<1>20. CASE BatchDies
  BY <1>20 DEF BatchDies, Off
<1> QED BY <1>2, <1>3, <1>6, <1>7, <1>8, <1>9, <1>10, <1>11, <1>12, <1>13, <1>14, <1>15, <1>16, <1>17, <1>18,
           <1>19, <1>20 DEF PipelineNext

\* Runs and batches are only counted up, to their bounds.
LEMMA CountSteps ==
  ASSUME Typed, Numbered, Placed, PipelineNext
  PROVE  /\ runs' \in {runs, runs + 1} /\ runs' <= MaxRuns
         /\ batches' \in {batches, batches + 1} /\ batches' <= MaxBatches
         /\ ~BatchStarts => batches' = batches
<1>1. cmd \in CommandState /\ runs \in Nat /\ batches \in Nat
  BY DEF Typed
<1>2. MaxRuns \in Nat /\ MaxBatches \in Nat
  BY PipelineAssumption
<1>3. runs' \in {runs, runs + 1} /\ runs' <= MaxRuns
  <2>1. CASE Launches
    BY <1>1, <1>2, <2>1 DEF Launches
  <2>2. CASE WritesEvidence
    <3>1. runs' = runs
      BY <2>2, Zenon DEF WritesEvidence
    <3> QED BY <1>1, <3>1 DEF Numbered
  <2> QED BY <1>1, <2>1, <2>2 DEF Numbered, PipelineNext, BatchStarts, SkipsTask, RefusesTask, RecordsRefusal, PassesOver, RecordsTask,
            Fatal, Opens, BeginsStage, StageReturns, FinishesStage, PublishesFile, MovesAside, MovesIn,
            WritesOutcome, WritesBook, PipelineDies, BatchDies
<1>4. /\ batches' \in {batches, batches + 1} /\ batches' <= MaxBatches
      /\ ~BatchStarts => batches' = batches
  <2>1. CASE BatchStarts
    BY <1>1, <1>2, <2>1 DEF BatchStarts
  <2>2. CASE batches' = batches
    BY <1>1, <2>2 DEF Numbered
  <2>3. WritesEvidence => batches' = batches
    BY Zenon DEF WritesEvidence
  <2> QED BY <2>1, <2>2, <2>3 DEF PipelineNext, SkipsTask, RefusesTask, RecordsRefusal, PassesOver, RecordsTask, Launches,
            Fatal, Opens, BeginsStage, StageReturns, FinishesStage, PublishesFile, MovesAside, MovesIn,
            WritesOutcome, WritesBook, PipelineDies, BatchDies
<1> QED BY <1>3, <1>4

\* A record that is there stays, or is written anew by the batch at hand.
LEMMA RecordSteps ==
  ASSUME Typed, Placed, PipelineNext, NEW t \in Task
  PROVE  \/ record'[t] = record[t]
         \/ record'[t] = NoRecord
         \/ /\ cmd.pc # "off" /\ t = T
            /\ \E status \in Verdicts, run \in Nat :
                 /\ NextTask(status, run)
                 /\ record'[t] = [status |-> status, run |-> run, batch |-> batches]
            /\ SkipsTask \/ RecordsRefusal \/ RecordsTask
<1>1. /\ record \in [Task -> Record] /\ cmd \in CommandState /\ man \in [Task -> Manifest]
      /\ (cmd.pc # "off" => T \in Task)
  BY TaskAtHand DEF Typed
<1>2. ASSUME NEW status \in Verdicts, NEW run \in Nat, NextTask(status, run), cmd.pc # "off",
             SkipsTask \/ RecordsRefusal \/ RecordsTask
      PROVE  \/ record'[t] = record[t]
             \/ record'[t] = NoRecord
             \/ /\ t = T
                /\ \E st \in Verdicts, r \in Nat :
                     /\ NextTask(st, r)
                     /\ record'[t] = [status |-> st, run |-> r, batch |-> batches]
  <2>1. t # T => record'[t] \in {NoRecord, record[t]}
    BY <1>2 DEF NextTask
  <2>2. t = T => record'[t] = [status |-> status, run |-> run, batch |-> batches]
    BY <1>2 DEF NextTask
  <2> QED BY <1>2, <2>1, <2>2
<1>3. CASE SkipsTask
  <2>1. cmd.pc # "off" /\ NextTask("skipped", man[T].run) /\ man[T].run \in Nat /\ "skipped" \in Verdicts
    BY <1>1, <1>3 DEF SkipsTask, Manifest, Verdicts
  <2> QED BY <1>2, <1>3, <2>1
<1>4. CASE RecordsRefusal
  <2>1. cmd.pc # "off" /\ NextTask("failed", 0) /\ 0 \in Nat /\ "failed" \in Verdicts
    BY <1>4 DEF RecordsRefusal, Verdicts
  <2> QED BY <1>2, <1>4, <2>1
<1>5. CASE RecordsTask
  <2>1. /\ cmd.pc # "off" /\ NextTask(Verdict(man[T].status, cmd.code), cmd.run) /\ cmd.run \in Nat
        /\ Verdict(man[T].status, cmd.code) \in Verdicts
    BY <1>1, <1>5 DEF RecordsTask, Verdict, Verdicts, CommandState
  <2> QED BY <1>2, <1>5, <2>1
<1>6. CASE record' = record
  BY <1>6
<1>7. CASE BatchDies
  BY <1>7 DEF BatchDies
<1>8. WritesEvidence => record' = record
  BY Zenon DEF WritesEvidence
<1> QED BY <1>3, <1>4, <1>5, <1>6, <1>7, <1>8
        DEF PipelineNext, BatchStarts, RefusesTask, Launches, Fatal, Opens, PassesOver, BeginsStage,
            StageReturns, FinishesStage, PublishesFile, MovesAside, MovesIn, WritesOutcome, WritesBook,
            PipelineDies

LEMMA NumberedKept ==
  ASSUME Typed, Numbered, Placed, PipelineNext
  PROVE  Numbered'
<1>1. /\ runs \in Nat /\ runs' \in Nat /\ runs <= runs' /\ runs' <= MaxRuns /\ batches' <= MaxBatches
      /\ cmd.run \in Nat /\ cmd.run <= runs /\ cmd.aside \in Nat /\ cmd.aside <= runs
  BY CountSteps DEF Typed, Numbered, CommandState
<1>2. cmd'.run <= runs'
  BY <1>1, CountSteps, CarriedSteps
<1>3. cmd'.aside <= runs'
  <2>1. T \in Task => tree[T] \in Nat /\ tree[T] <= runs
    BY DEF Typed, Numbered
  <2> QED BY <1>1, <2>1, CarriedSteps
<1>4. ASSUME NEW t \in Task
      PROVE  /\ man'[t].run <= runs' /\ ply'[t] <= runs' /\ tree'[t] <= runs'
             /\ backup'[t] \subseteq 1..runs' /\ evidence'[t] \subseteq 1..runs'
             /\ \A x \in Outputs : made'[t][x] \in -runs'..runs'
             /\ record'[t].batch <= batches'
  <2>1. /\ man[t].run \in Nat /\ ply[t] \in Nat /\ tree[t] \in Nat
        /\ man[t].run <= runs /\ ply[t] <= runs /\ tree[t] <= runs
    BY DEF Typed, Numbered, Manifest
  <2>2. man'[t].run <= runs'
    BY <1>1, <2>1, ManifestSteps
  <2>3. ply'[t] <= runs' /\ tree'[t] <= runs'
    BY <1>1, <2>1, PublishedSteps
  <2>4. evidence'[t] \subseteq 1..runs'
    <3>1. evidence[t] \subseteq 1..runs /\ (cmd.pc = "evidence" => cmd.run # 0)
      BY DEF Numbered, Placed
    <3> QED BY <1>1, <3>1, EvidenceSteps
  <2>5. ASSUME NEW x \in Outputs
        PROVE  made'[t][x] \in -runs'..runs'
    <3>1. made[t][x] \in Int /\ made[t][x] \in -runs..runs
      BY DEF Typed, Numbered
    <3>2. made'[t][x] \in {made[t][x], cmd.run, -cmd.run}
      BY OutputSteps
    <3> QED BY <1>1, <3>1, <3>2
  <2>6. backup'[t] \subseteq 1..runs'
    <3>1. backup[t] \subseteq 1..runs
      BY DEF Numbered
    <3>2. backup'[t] \subseteq backup[t] \cup ({tree[t]} \ {0})
      BY PublishedSteps
    <3> QED BY <1>1, <2>1, <3>1, <3>2
  <2>7. record'[t].batch <= batches'
    <3>1. /\ record[t].batch \in Nat /\ record[t].batch <= batches /\ batches \in Nat
          /\ batches' \in {batches, batches + 1}
      BY CountSteps DEF Typed, Numbered, Record
    <3>2. record'[t].batch \in {record[t].batch, 0, batches}
      <4>1. \A status, run : [status |-> status, run |-> run, batch |-> batches].batch = batches
        OBVIOUS
      <4>2. NoRecord.batch = 0
        BY DEF NoRecord
      <4> QED BY <4>1, <4>2, RecordSteps
    <3> QED BY <3>1, <3>2
  <2> QED BY <2>2, <2>3, <2>4, <2>5, <2>6, <2>7
<1> QED BY <1>1, <1>2, <1>3, <1>4 DEF Numbered


LEMMA NextTaskMoves ==
  ASSUME cmd \in CommandState, Placed, cmd.pc # "off", NEW status, NEW run, NextTask(status, run)
  PROVE  \/ cmd' = Off
         \/ /\ cmd'.pc = "task" /\ cmd'.i = cmd.i + 1 /\ cmd.i + 1 \in 1..Len(Tasks)
            /\ cmd'.run = 0 /\ cmd'.aside = 0 /\ cmd'.outcome = "-"
<1>1. cmd.i \in 1..Len(Tasks) /\ Len(Tasks) \in Nat /\ cmd.i + 1 \in Nat
  BY TasksListed DEF Placed, CommandState
<1>2. \/ cmd' = Off
      \/ cmd.i # Len(Tasks) /\ cmd' = [Off EXCEPT !.pc = "task", !.i = cmd.i + 1]
  BY DEF NextTask
<1>3. ASSUME cmd.i # Len(Tasks)
      PROVE  cmd.i + 1 \in 1..Len(Tasks)
  BY <1>1, <1>3
<1>4. ASSUME cmd' = [Off EXCEPT !.pc = "task", !.i = cmd.i + 1]
      PROVE  /\ cmd'.pc = "task" /\ cmd'.i = cmd.i + 1 /\ cmd'.run = 0 /\ cmd'.aside = 0
             /\ cmd'.outcome = "-"
  BY <1>1, <1>4, TaskMoves
<1> QED BY <1>2, <1>3, <1>4

LEMMA PlacedKept ==
  ASSUME Typed, Placed, PipelineNext
  PROVE  Placed'
<1>1. cmd \in CommandState /\ runs \in Nat /\ tree \in [Task -> Nat] /\ (cmd.pc # "off" => T \in Task)
  BY TaskAtHand DEF Typed
<1> DEFINE L == Len(Plan(Options[T]))
<1>2. cmd.pc # "off" => L \in Nat /\ cmd.i \in 1..Len(Tasks)
  BY TaskAtHand DEF Placed
<1>3. cmd.pc \notin {"off", "task", "refused"} => cmd.run # 0
  BY DEF Placed
<1>4. cmd.pc \in AtWork => cmd.k \in 1..(L + 1)
  BY DEF Placed
<1>5. cmd.pc \in AtWork \ {"stage"} => AtStage
  BY DEF Placed
\* Steps that leave the stages behind.
<1>6. ASSUME cmd'.i = cmd.i, cmd'.run = cmd.run, cmd'.pc \notin AtWork, cmd.pc \notin {"off", "task", "refused"}
      PROVE  Placed'
  BY <1>2, <1>3, <1>6 DEF Placed, AtWork
\* Steps to the first or the next stage, and steps within one.
<1>7. ASSUME cmd'.i = cmd.i, cmd'.run = cmd.run, cmd'.pc = "stage", cmd.pc \notin {"off", "task", "refused"},
             cmd'.k = 1 \/ (cmd'.k = cmd.k + 1 /\ cmd.pc \in AtWork /\ AtStage)
      PROVE  Placed'
  <2>1. T' = T
    BY <1>7, SameTask
  <2>2. cmd'.k \in 1..(L + 1)
    BY <1>2, <1>4, <1>5, <1>7 DEF AtStage, AtWork
  <2> QED BY <1>2, <1>3, <1>7, <2>1, <2>2 DEF Placed, AtWork
<1>8. ASSUME cmd'.i = cmd.i, cmd'.run = cmd.run, cmd'.k = cmd.k, cmd.pc \in AtWork, AtStage,
             cmd'.pc \in AtWork \ {"stage"}, cmd'.pc = "move" => tree'[T] = 0
      PROVE  Placed'
  <2>1. T' = T /\ AtStage'
    BY <1>8, SameTask
  <2>2. cmd.pc \notin {"off", "task", "refused"} /\ cmd'.pc \notin {"off", "task", "refused"}
    BY <1>8 DEF AtWork
  <2> QED BY <1>2, <1>3, <1>4, <1>8, <2>1, <2>2 DEF Placed
<1>9. ASSUME NEW status, NEW run, NextTask(status, run), cmd.pc # "off"
      PROVE  Placed'
  <2>1. CASE cmd' = Off
    BY <2>1 DEF Placed, Off, AtWork
  <2>2. CASE cmd'.pc = "task" /\ cmd'.i \in 1..Len(Tasks)
    BY <2>2 DEF Placed, AtWork
  <2> QED BY <1>1, <1>9, <2>1, <2>2, NextTaskMoves
<1>10. CASE BatchStarts
  <2>1. cmd'.pc = "task" /\ cmd'.i = 1
    BY <1>10, TaskMoves DEF BatchStarts
  <2> QED BY <2>1, TasksListed DEF Placed, AtWork
<1>11. CASE SkipsTask \/ RecordsRefusal \/ RecordsTask
  BY <1>9, <1>11 DEF SkipsTask, RecordsRefusal, RecordsTask
<1>25. CASE RefusesTask
  <2>1. cmd'.pc = "refused" /\ cmd'.i = cmd.i /\ cmd.pc # "off"
    BY <1>1, <1>25, GoneTo DEF RefusesTask, Pcs
  <2> QED BY <1>2, <2>1 DEF Placed, AtWork
<1>26. CASE PassesOver
  <2>1. cmd.pc = "stage" /\ AtStage /\ Advances
    BY <1>26 DEF PassesOver, Advances
  <2> QED BY <1>1, <1>7, <2>1, Advanced DEF AtWork
<1>12. CASE Launches
  <2>1. cmd'.pc = "check" /\ cmd'.i = cmd.i /\ cmd'.run = runs + 1 /\ cmd.pc = "task"
    BY <1>1, <1>12, LaunchMoves DEF Launches
  <2> QED BY <1>1, <1>2, <2>1 DEF Placed, AtWork
<1>13. CASE Fatal
  <2>1. cmd' = [cmd EXCEPT !.pc = "ended", !.code = 1] /\ 1 \in Int /\ cmd.pc = "fatal"
    BY <1>13 DEF Fatal
  <2> QED BY <1>1, <1>6, <2>1, Ended DEF AtWork
<1>14. CASE Opens
  <2>1. /\ cmd'.pc \in {"stage", "fatal"} /\ cmd'.i = cmd.i /\ cmd'.run = cmd.run
        /\ cmd'.pc = "stage" => cmd'.k = 1
    BY <1>1, <1>14, OpenMoves
  <2>2. cmd.pc = "check"
    BY <1>14 DEF Opens
  <2> QED BY <1>6, <1>7, <2>1, <2>2 DEF AtWork
<1>15. CASE BeginsStage
  <2>1. cmd.pc = "stage" /\ AtStage /\ (Goto("fatal") \/ Goto("process") \/ Goto("publish"))
    BY <1>15 DEF BeginsStage
  <2> QED BY <1>1, <1>6, <1>8, <2>1, GoneTo DEF AtWork, Pcs
<1>16. CASE StageReturns
  <2>1. PICK outcome \in StageResults :
          cmd' = [cmd EXCEPT !.pc = "finish", !.outcome = outcome]
    BY <1>16 DEF StageReturns, StageOutcomes, StageResults
  <2>2. cmd.pc = "process"
    BY <1>16 DEF StageReturns
  <2> QED BY <1>1, <1>5, <1>8, <2>1, <2>2, ReturnMoves DEF AtWork
<1>17. CASE FinishesStage
  <2>1. cmd.pc = "finish" /\ AtStage
    BY <1>5, <1>17 DEF FinishesStage, AtWork
  <2>2. CASE Goto("fatal")
    BY <1>1, <1>6, <2>1, <2>2, GoneTo DEF AtWork, Pcs
  <2>3. CASE Goto("publish")
    BY <1>1, <1>8, <2>1, <2>3, GoneTo DEF AtWork, Pcs
  <2>4. CASE Advances
    BY <1>1, <1>7, <2>1, <2>4, Advanced DEF AtWork
  <2> QED BY <1>1, <1>17, <2>2, <2>3, <2>4, FinishMoves
<1>18. CASE PublishesFile
  <2>1. cmd.pc = "publish" /\ AtStage /\ (Goto("aside") \/ Advances)
    BY <1>5, <1>18 DEF PublishesFile, Advances, AtWork
  <2>2. CASE Goto("aside")
    BY <1>1, <1>8, <2>1, <2>2, GoneTo DEF AtWork, Pcs
  <2>3. CASE Advances
    BY <1>1, <1>7, <2>1, <2>3, Advanced DEF AtWork
  <2> QED BY <2>1, <2>2, <2>3
<1>19. CASE MovesAside
  <2>1. cmd.pc = "aside" /\ T \in Task /\ AtStage
    BY <1>1, <1>5, <1>19 DEF MovesAside, AtWork
  <2>2. /\ cmd'.i = cmd.i /\ cmd'.run = cmd.run /\ cmd'.k = cmd.k
        /\ cmd'.pc = "fatal" \/ (cmd'.pc = "move" /\ tree' = [tree EXCEPT ![T] = 0])
    BY <1>1, <1>19, <2>1, AsideMoves
  <2>3. tree' = [tree EXCEPT ![T] = 0] => tree'[T] = 0
    BY <1>1, <2>1
  <2> QED BY <1>6, <1>8, <2>1, <2>2, <2>3 DEF AtWork
<1>20. CASE MovesIn
  <2>1. cmd.pc = "move"
    BY <1>20 DEF MovesIn
  <2> QED BY <1>1, <1>5, <1>6, <1>7, <1>20, <2>1, InMoves DEF AtWork
<1>21. CASE WritesOutcome \/ WritesBook
  <2>1. cmd.pc \in {"stage", "book"} /\ (Goto("book") \/ Goto("evidence"))
    BY <1>21 DEF WritesOutcome, WritesBook
  <2> QED BY <1>1, <1>6, <2>1, GoneTo DEF Pcs, AtWork
<1>22. CASE WritesEvidence
  <2>1. (CASE man[T].status = "failed" -> 1 [] man[T].status = "rejected" -> 2 [] OTHER -> 0) \in Int
    OBVIOUS
  <2>2. /\ cmd.pc = "evidence" /\ cmd'.pc \in {"fatal", "ended"} /\ cmd'.i = cmd.i
        /\ cmd'.run = cmd.run
    BY <1>1, <1>22, <2>1, GoneTo, Ended DEF WritesEvidence, Pcs
  <2> QED BY <1>6, <2>2 DEF AtWork
<1>23. CASE PipelineDies
  <2>1. cmd' = [cmd EXCEPT !.pc = "ended", !.code = -9] /\ -9 \in Int /\ cmd.pc \notin {"off", "task", "refused"}
    BY <1>23 DEF PipelineDies, InPipeline
  <2> QED BY <1>1, <1>6, <2>1, Ended DEF AtWork
<1>24. CASE BatchDies
  BY <1>24 DEF BatchDies, Placed, Off, AtWork
<1> QED BY <1>10, <1>11, <1>12, <1>13, <1>14, <1>15, <1>16, <1>17, <1>18, <1>19, <1>20, <1>21, <1>22,
           <1>23, <1>24, <1>25, <1>26 DEF PipelineNext

\* The steps that go on with the stages, and those that go on with the end of a run.
LEMMA WorkSteps ==
  ASSUME Typed, Placed, PipelineNext
  PROVE  /\ cmd'.pc \in AtWork =>
              \/ (Opens /\ cmd.pc = "check") \/ PassesOver \/ BeginsStage \/ StageReturns \/ FinishesStage
              \/ PublishesFile \/ MovesAside \/ MovesIn
         /\ cmd'.pc = "process" => BeginsStage
         /\ cmd'.pc = "book" => WritesOutcome
         /\ cmd'.pc = "evidence" => WritesBook
         /\ cmd'.pc = "ended" /\ cmd'.code = 0 => WritesEvidence
         /\ cmd'.pc = "finish" => StageReturns
         /\ cmd'.pc = "aside" => PublishesFile
         /\ cmd'.pc = "move" => MovesAside
         /\ cmd'.pc \in {"task", "check"} =>
              \/ Launches \/ BatchStarts
              \/ cmd.pc # "off" /\ \E status, run : NextTask(status, run)
<1>1. cmd \in CommandState /\ runs \in Nat /\ tree \in [Task -> Nat] /\ (cmd.pc # "off" => T \in Task)
  BY TaskAtHand DEF Typed
<1>2. CASE BatchStarts
  <2>1. cmd'.pc = "task"
    BY <1>2, TaskMoves DEF BatchStarts
  <2> QED BY <1>2, <2>1 DEF AtWork
<1>3. CASE SkipsTask \/ RecordsRefusal \/ RecordsTask
  <2>1. cmd'.pc \in {"off", "task"}
    BY <1>1, <1>3, NextTaskMoves DEF SkipsTask, RecordsRefusal, RecordsTask, Off
  <2> QED BY <1>3, <2>1 DEF AtWork, SkipsTask, RecordsRefusal, RecordsTask
<1>4. CASE Launches
  <2>1. cmd'.pc = "check"
    BY <1>1, <1>4, LaunchMoves
  <2> QED BY <1>4, <2>1 DEF AtWork
<1>5. CASE Fatal
  <2>1. cmd' = [cmd EXCEPT !.pc = "ended", !.code = 1] /\ 1 \in Int
    BY <1>5 DEF Fatal
  <2>2. cmd'.pc = "ended" /\ cmd'.code = 1
    BY <1>1, <2>1, Ended
  <2> QED BY <2>2 DEF AtWork
<1>6. CASE Opens
  <2>1. cmd'.pc \in {"stage", "fatal"}
    BY <1>1, <1>6, OpenMoves
  <2> QED BY <1>6, <2>1 DEF Opens, AtWork
<1>7. CASE BeginsStage
  <2>1. cmd'.pc \in {"fatal", "process", "publish"}
    BY <1>1, <1>7, GoneTo DEF BeginsStage, Pcs
  <2> QED BY <1>7, <2>1 DEF AtWork
<1>8. CASE StageReturns
  <2>1. PICK outcome \in StageResults :
          cmd' = [cmd EXCEPT !.pc = "finish", !.outcome = outcome]
    BY <1>8 DEF StageReturns, StageOutcomes, StageResults
  <2>2. cmd'.pc = "finish"
    BY <1>1, <2>1, ReturnMoves
  <2> QED BY <1>8, <2>2 DEF AtWork
<1>9. CASE FinishesStage
  <2>1. cmd'.pc \in {"fatal", "stage", "publish"}
    BY <1>1, <1>9, FinishMoves, GoneTo, Advanced DEF Pcs
  <2> QED BY <1>9, <2>1 DEF AtWork
<1>10. CASE PublishesFile
  <2>1. cmd'.pc \in {"aside", "stage"}
    BY <1>1, <1>10, GoneTo, Advanced DEF PublishesFile, Advances, Pcs
  <2> QED BY <1>10, <2>1 DEF AtWork
<1>11. CASE MovesAside
  <2>1. T \in Task
    BY <1>1, <1>11 DEF MovesAside
  <2>2. cmd'.pc \in {"fatal", "move"}
    BY <1>1, <1>11, <2>1, AsideMoves
  <2> QED BY <1>11, <2>2 DEF AtWork
<1>12. CASE MovesIn
  <2>1. cmd'.pc \in {"stage", "fatal"}
    BY <1>1, <1>12, InMoves
  <2> QED BY <1>12, <2>1 DEF AtWork
<1>13. CASE WritesOutcome
  <2>1. cmd'.pc = "book"
    BY <1>1, <1>13, GoneTo DEF WritesOutcome, Pcs
  <2> QED BY <1>13, <2>1 DEF AtWork
<1>14. CASE WritesBook
  <2>1. cmd'.pc = "evidence"
    BY <1>1, <1>14, GoneTo DEF WritesBook, Pcs
  <2> QED BY <1>14, <2>1 DEF AtWork
<1>15. CASE WritesEvidence
  <2>1. (CASE man[T].status = "failed" -> 1 [] man[T].status = "rejected" -> 2 [] OTHER -> 0) \in Int
    OBVIOUS
  <2>2. cmd'.pc \in {"fatal", "ended"}
    BY <1>1, <1>15, <2>1, GoneTo, Ended DEF WritesEvidence, Pcs
  <2> QED BY <1>15, <2>2 DEF AtWork
<1>16. CASE PipelineDies
  <2>1. cmd' = [cmd EXCEPT !.pc = "ended", !.code = -9] /\ -9 \in Int
    BY <1>16 DEF PipelineDies
  <2>2. cmd'.pc = "ended" /\ cmd'.code = -9
    BY <1>1, <2>1, Ended
  <2> QED BY <2>2 DEF AtWork
<1>17. CASE BatchDies
  BY <1>17 DEF BatchDies, Off, AtWork
<1>18. CASE RefusesTask
  <2>1. cmd'.pc = "refused"
    BY <1>1, <1>18, GoneTo DEF RefusesTask, Pcs
  <2> QED BY <2>1 DEF AtWork
<1>19. CASE PassesOver
  <2>1. cmd'.pc = "stage"
    BY <1>1, <1>19, Advanced DEF PassesOver, Advances
  <2> QED BY <1>19, <2>1 DEF AtWork
<1> QED BY <1>2, <1>3, <1>4, <1>5, <1>6, <1>7, <1>8, <1>9, <1>10, <1>11, <1>12, <1>13, <1>14, <1>15,
           <1>16, <1>17, <1>18, <1>19 DEF PipelineNext

\* Where those steps leave the command and the manifest.
LEMMA WorkMoves ==
  ASSUME Typed, Placed, PipelineNext, cmd'.pc \in AtWork
  PROVE  /\ cmd'.i = cmd.i /\ cmd'.run = cmd.run /\ T' = T /\ T \in Task
         /\ cmd'.k = 1 \/ (cmd'.k = cmd.k /\ cmd.pc \in AtWork)
              \/ (cmd'.k = cmd.k + 1 /\ cmd.pc \in AtWork)
         /\ cmd.pc = "check" => man' = [man EXCEPT ![T] = Fresh(cmd.run)] /\ cmd'.k = 1 /\ cmd'.pc = "stage"
         /\ cmd.pc # "check" =>
              /\ cmd.pc \in AtWork /\ man'[T].run = man[T].run /\ man'[T].status = man[T].status
              /\ man[T].failed \subseteq man'[T].failed /\ man[T].rejected \subseteq man'[T].rejected
              /\ man[T].late \subseteq man'[T].late
              /\ ~StageReturns => man'[T].late = man[T].late /\ cmd'.outcome = cmd.outcome
<1>1. cmd \in CommandState /\ tree \in [Task -> Nat] /\ man \in [Task -> Manifest] /\ (cmd.pc # "off" => T \in Task)
  BY TaskAtHand DEF Typed
<1>2. cmd'.i = cmd.i => T' = T
  BY SameTask
<1>3. CASE Opens /\ cmd.pc = "check"
  BY <1>1, <1>2, <1>3, OpenMoves DEF AtWork
<1>4. CASE BeginsStage
  <2>1. cmd.pc = "stage" /\ (Goto("process") \/ Goto("publish"))
    BY <1>1, <1>4, GoneTo DEF BeginsStage, AtWork, Pcs
  <2>2. man'[T].run = man[T].run /\ man'[T].status = man[T].status
        /\ man[T].failed = man'[T].failed /\ man[T].rejected = man'[T].rejected
        /\ man[T].late = man'[T].late
    BY <1>1, <1>4, <2>1 DEF BeginsStage, Manifest
  <2> QED BY <1>1, <1>2, <2>1, <2>2, GoneTo DEF AtWork, Pcs
<1>5. CASE StageReturns
  <2>1. PICK outcome \in StageResults :
          cmd' = [cmd EXCEPT !.pc = "finish", !.outcome = outcome]
    BY <1>5 DEF StageReturns, StageOutcomes, StageResults
  <2>2. cmd.pc = "process"
    BY <1>5 DEF StageReturns
  <2>3. man'[T].run = man[T].run /\ man'[T].status = man[T].status
        /\ man[T].failed \subseteq man'[T].failed /\ man[T].rejected = man'[T].rejected
        /\ man[T].late \subseteq man'[T].late
    <3>1. PICK w : man' = [man EXCEPT ![T] = Noted(@, w)]
      BY <1>5 DEF StageReturns
    <3>2. T \in Task /\ Current.name \in StageNames
      BY <1>1, <2>2, StageAtHand DEF AtWork, StageRecord, StageShape
    <3>3. man'[T] = Noted(man[T], w)
      BY <1>1, <3>1, <3>2
    <3> QED BY <1>1, <3>2, <3>3, NotedTyped
  <2> QED BY <1>1, <1>2, <1>5, <2>1, <2>2, <2>3, ReturnMoves DEF AtWork
<1>6. CASE FinishesStage
  <2>1. cmd.pc = "finish"
    BY <1>6 DEF FinishesStage
  <2>2. Advances \/ Goto("publish")
    BY <1>1, <1>6, FinishMoves, GoneTo DEF AtWork, Pcs
  <2>3. man'[T].run = man[T].run /\ man'[T].status = man[T].status
        /\ man[T].failed = man'[T].failed /\ man[T].rejected \subseteq man'[T].rejected
        /\ man[T].late = man'[T].late
    BY <1>1, <1>6, <2>1 DEF FinishesStage, Manifest
  <2> QED BY <1>1, <1>2, <2>1, <2>2, <2>3, GoneTo, Advanced DEF AtWork, Pcs
<1>7. CASE PublishesFile
  <2>1. cmd.pc = "publish" /\ man' = man /\ (Goto("aside") \/ Advances)
    BY <1>7 DEF PublishesFile, Advances
  <2> QED BY <1>1, <1>2, <2>1, GoneTo, Advanced DEF AtWork, Pcs
<1>8. CASE MovesAside
  <2>1. cmd.pc = "aside" /\ man' = man
    BY <1>8 DEF MovesAside
  <2> QED BY <1>1, <1>2, <1>8, <2>1, AsideMoves DEF AtWork
<1>9. CASE MovesIn
  <2>1. cmd.pc = "move" /\ man' = man
    BY <1>9 DEF MovesIn
  <2> QED BY <1>1, <1>2, <1>9, <2>1, InMoves DEF AtWork
<1>10. CASE PassesOver
  <2>1. cmd.pc = "stage" /\ man' = man /\ Advances
    BY <1>10 DEF PassesOver, Advances
  <2> QED BY <1>1, <1>2, <2>1, Advanced DEF AtWork
<1> QED BY <1>3, <1>4, <1>5, <1>6, <1>7, <1>8, <1>9, <1>10, WorkSteps

LEMMA OwnedKept ==
  ASSUME Typed, Placed, Owned, PipelineNext
  PROVE  Owned'
<1>1. ASSUME cmd'.pc \in AtWork
      PROVE  man'[T'].run = cmd'.run /\ man'[T'].status = "open"
  <2>1. CASE cmd.pc = "check"
    <3>1. man'[T] = Fresh(cmd.run)
      BY <1>1, <2>1, WorkMoves DEF Typed
    <3>2. cmd.run \in Nat
      BY DEF Typed, CommandState
    <3> QED BY <1>1, <3>1, <3>2, WorkMoves, FreshTyped
  <2>2. CASE cmd.pc # "check"
    BY <1>1, <2>2, WorkMoves DEF Owned
  <2> QED BY <2>1, <2>2
<1>2. ASSUME cmd'.pc = "process"
      PROVE  man'[T'].active = Current'.name /\ attempt'[T'][Current'.name] = "running"
  <2>1. BeginsStage
    BY <1>2, WorkSteps
  <2>2. cmd \in CommandState /\ man \in [Task -> Manifest] /\ T \in Task
        /\ attempt \in [Task -> [StageNames -> Standings]]
    BY <1>2, WorkMoves DEF Typed, AtWork
  <2>3. cmd.pc = "stage" /\ AtStage /\ Goto("process")
    BY <1>2, <2>1, <2>2, GoneTo DEF BeginsStage, Pcs
  <2>4. T' = T /\ Current' = Current
    BY <2>2, <2>3, GoneTo, SameTask DEF Pcs
  <2>5. Current.name \in StageNames
    BY <2>3, StageAtHand DEF StageRecord, StageShape
  <2>6. /\ attempt' = [attempt EXCEPT ![T][Current.name] = "running"]
        /\ man' = [man EXCEPT ![T].active = Current.name]
    BY <1>2, <2>1, <2>2, GoneTo DEF BeginsStage, Pcs
  <2>7. man'[T].active = Current.name
    BY <2>2, <2>6 DEF Manifest
  <2>8. attempt'[T][Current.name] = "running"
    BY <2>2, <2>5, <2>6
  <2> QED BY <2>4, <2>7, <2>8
<1> QED BY <1>1, <1>2 DEF Owned

\* How a stage returns: what the manifest hears of it, and what it leaves.
LEMMA ReturnSteps ==
  ASSUME Typed, Placed, StageReturns
  PROVE  \E outcome \in StageOutcomes(Options[T], Current) :
           /\ cmd'.pc = "finish" /\ cmd'.i = cmd.i /\ cmd'.k = cmd.k /\ cmd'.outcome = outcome
           /\ T' = T /\ Current' = Current
           /\ man'[T] = Noted(man[T], outcome)
           /\ \A x \in Outputs \ Current.writes : made'[T][x] = made[T][x]
           /\ outcome \notin Broken => \A x \in Outputs \cap Current.writes : made'[T][x] = cmd.run
<1>1. /\ cmd \in CommandState /\ T \in Task /\ cmd.pc = "process"
      /\ man \in [Task -> Manifest] /\ made \in [Task -> [Outputs -> Int]]
  BY TaskAtHand DEF Typed, StageReturns
<1> DEFINE Marked(W, n) == [made EXCEPT ![T] = [x \in Outputs |-> IF x \in W THEN n ELSE @[x]]]
<1>2. PICK outcome \in StageOutcomes(Options[T], Current) :
        /\ cmd' = [cmd EXCEPT !.pc = "finish", !.outcome = outcome]
        /\ man' = [man EXCEPT ![T] = Noted(@, outcome)]
        /\ \/ outcome \in Broken /\ \E torn \in {{}, Current.writes} : made' = Marked(torn, -cmd.run)
           \/ outcome \notin Broken /\ made' = Marked(Current.writes, cmd.run)
  BY DEF StageReturns
<1>3. outcome \in StageResults
  BY DEF StageOutcomes, StageResults
<1>4. cmd'.pc = "finish" /\ cmd'.i = cmd.i /\ cmd'.k = cmd.k /\ cmd'.outcome = outcome
  BY <1>1, <1>2, <1>3, ReturnMoves
<1>5. man'[T] = Noted(man[T], outcome)
  BY <1>1, <1>2
<1>6. \A W, n : \A x \in Outputs : Marked(W, n)[T][x] = IF x \in W THEN n ELSE made[T][x]
  BY <1>1
<1>7. \A x \in Outputs \ Current.writes : made'[T][x] = made[T][x]
  <2> HIDE DEF Marked
  <2> QED BY <1>2, <1>6
<1>8. outcome \notin Broken => \A x \in Outputs \cap Current.writes : made'[T][x] = cmd.run
  <2> HIDE DEF Marked
  <2> QED BY <1>2, <1>6
<1>9. T' = T /\ Current' = Current
  BY <1>4, SameTask
<1> QED BY <1>4, <1>5, <1>7, <1>8, <1>9

LEMMA HeardKept ==
  ASSUME Typed, Placed, Heard, PipelineNext
  PROVE  Heard'
<1>1. /\ cmd \in CommandState /\ man \in [Task -> Manifest] /\ (cmd.pc # "off" => T \in Task)
  BY TaskAtHand DEF Typed
<1>2. ASSUME cmd'.pc \in {"task", "check"}
      PROVE  cmd'.outcome = "-"
  <2>1. CASE Launches
    <3>1. cmd'.outcome = cmd.outcome /\ cmd.pc = "task"
      BY <1>1, <2>1, LaunchMoves DEF Typed, Launches
    <3> QED BY <3>1 DEF Heard
  <2>2. CASE BatchStarts
    BY <2>2, TaskMoves DEF BatchStarts
  <2>3. CASE cmd.pc # "off" /\ \E status, run : NextTask(status, run)
    BY <1>1, <2>3, NextTaskMoves DEF Off
  <2> QED BY <1>2, <2>1, <2>2, <2>3, WorkSteps
<1>3. ASSUME cmd'.pc \in AtWork
      PROVE  /\ cmd'.outcome = "failed" => man'[T'].failed # {}
             /\ cmd'.outcome = "timeout" => man'[T'].late # {}
             /\ man'[T'].late # {} => Options[T'].goOn \/ (cmd'.pc = "finish" /\ cmd'.outcome = "timeout")
             /\ cmd'.pc = "finish" /\ cmd'.outcome = "timeout" => Current'.name = "model_generation"
  <2>1. T' = T /\ T \in Task
    BY <1>3, WorkMoves
  <2>2. CASE cmd.pc = "check"
    <3>1. cmd'.pc = "stage" /\ cmd'.outcome = "-"
      <4>1. Opens
        BY <1>3, <2>2, WorkSteps DEF PassesOver, BeginsStage, StageReturns, FinishesStage, PublishesFile,
             MovesAside, MovesIn
      <4> QED BY <1>1, <1>3, <2>2, <4>1, OpenMoves, WorkMoves DEF Heard
    <3>2. man'[T].late = {}
      <4>1. man'[T] = Fresh(cmd.run) /\ cmd.run \in Nat
        BY <1>1, <1>3, <2>1, <2>2, WorkMoves DEF CommandState
      <4> QED BY <4>1, FreshTyped
    <3> QED BY <2>1, <3>1, <3>2
  <2>3. CASE StageReturns
    <3>1. PICK outcome \in StageOutcomes(Options[T], Current) :
            /\ cmd'.pc = "finish" /\ cmd'.outcome = outcome /\ Current' = Current
            /\ man'[T] = Noted(man[T], outcome)
      BY <2>3, ReturnSteps
    <3>2. Current.name \in StageNames /\ cmd.pc = "process"
      BY <2>3, StageAtHand DEF StageReturns, AtWork, StageRecord, StageShape
    <3>3. /\ outcome = "failed" => Noted(man[T], outcome).failed # {}
          /\ IF outcome = "timeout" THEN Noted(man[T], outcome).late # {}
             ELSE Noted(man[T], outcome).late = man[T].late
      BY <1>1, <2>1, <3>2, NotedTyped
    <3>4. outcome = "timeout" => Current.name = "model_generation"
      BY DEF StageOutcomes
    <3>5. man[T].late # {} => Options[T].goOn
      BY <3>2 DEF Heard, AtWork
    <3> QED BY <2>1, <3>1, <3>3, <3>4, <3>5
  <2>4. CASE cmd.pc # "check" /\ ~StageReturns
    <3>1. /\ cmd.pc \in AtWork /\ man[T].failed \subseteq man'[T].failed
          /\ man'[T].late = man[T].late /\ cmd'.outcome = cmd.outcome
      BY <1>3, <2>4, WorkMoves
    <3>2. cmd'.pc # "finish"
      BY <1>3, <2>4, WorkSteps
    <3>3. man[T].late # {} => Options[T].goOn
      <4>1. CASE cmd.pc # "finish" \/ cmd.outcome # "timeout"
        BY <3>1, <4>1 DEF Heard
      <4>2. CASE cmd.pc = "finish" /\ cmd.outcome = "timeout"
        <5>1. FinishesStage
          BY <1>3, <2>4, <4>2, WorkSteps DEF PassesOver, BeginsStage, StageReturns, PublishesFile,
               MovesAside, MovesIn
        <5>2. ~Goto("fatal")
          BY <1>1, <1>3, GoneTo DEF AtWork, Pcs
        <5> QED BY <4>2, <5>1, <5>2 DEF FinishesStage, Broken
      <4> QED BY <4>1, <4>2
    <3> QED BY <2>1, <3>1, <3>2, <3>3 DEF Heard
  <2> QED BY <2>2, <2>3, <2>4
<1> QED BY <1>2, <1>3 DEF Heard, AtWork

\* A stage that returns without having failed, or in time, has written its outputs.
LEMMA ReturnWrites ==
  ASSUME Typed, Placed, StageReturns, Clean(man'[T]), cmd'.outcome # "timeout"
  PROVE  \A x \in Outputs : made'[T][x] = IF x \in Current.writes THEN cmd.run ELSE made[T][x]
<1>1. PICK outcome \in StageOutcomes(Options[T], Current) :
        /\ cmd'.outcome = outcome /\ man'[T] = Noted(man[T], outcome)
        /\ \A x \in Outputs \ Current.writes : made'[T][x] = made[T][x]
        /\ outcome \notin Broken => \A x \in Outputs \cap Current.writes : made'[T][x] = cmd.run
  BY ReturnSteps
<1>2. man[T] \in Manifest /\ Current.name \in StageNames
  BY TaskAtHand, StageAtHand DEF Typed, StageReturns, AtWork, StageRecord, StageShape
<1>3. outcome = "failed" => man'[T].failed # {}
  BY <1>1, <1>2, NotedTyped
<1>4. outcome \notin Broken
  BY <1>1, <1>3 DEF Clean, Broken
<1> QED BY <1>1, <1>4

\* A stage that finishes and lets the run go on without a blemish was ready.
LEMMA FinishReady ==
  ASSUME Typed, Placed, FinishesStage, cmd.outcome \notin Broken, Clean(man'[T])
  PROVE  /\ cmd.outcome = "ready" /\ attempt'[T][Current.name] = "ready"
         /\ Advances => Current.name # "sags"
<1>1. /\ cmd \in CommandState /\ T \in Task /\ cmd.pc = "finish" /\ Current.name \in StageNames
      /\ man \in [Task -> Manifest]
      /\ attempt \in [Task -> [StageNames -> Standings]]
  BY TaskAtHand, StageAtHand DEF Typed, FinishesStage, AtWork, StageRecord, StageShape
<1>2. attempt'[T][Current.name] = "ready"
  BY <1>1 DEF FinishesStage
<1>3. cmd.outcome # "rejected"
  <2> SUFFICES ASSUME cmd.outcome = "rejected" PROVE FALSE
    OBVIOUS
  <2>1. man' = [man EXCEPT ![T].rejected = @ \cup {Current.name}]
    BY DEF FinishesStage
  <2>2. man'[T].rejected = man[T].rejected \cup {Current.name}
    BY <1>1, <2>1 DEF Manifest
  <2> QED BY <2>2 DEF Clean
<1>4. cmd.outcome = "ready"
  BY <1>3 DEF FinishesStage, Broken
<1>5. ASSUME Advances, Current.name = "sags"
      PROVE  FALSE
  <2>1. Goto("publish")
    BY <1>4, <1>5 DEF FinishesStage, Broken
  <2> QED BY <1>1, <1>5, <2>1, GoneTo, Advanced DEF Pcs
<1> QED BY <1>2, <1>4, <1>5

\* What is behind the pipeline stays as it is while the run stays clean.
LEMMA BehindStays ==
  ASSUME Typed, Placed, Heard, Progress, PipelineNext, cmd'.pc \in AtWork, cmd.pc \in AtWork,
         Clean(man'[T])
  PROVE  /\ Clean(man[T]) /\ cmd.k \in DOMAIN Plan(Options[T])
         /\ \A j \in 1..(cmd.k - 1) : Behind(T, Plan(Options[T])[j])'
<1>1. cmd.pc # "check" /\ cmd \in CommandState /\ T' = T /\ T \in Task /\ cmd'.run = cmd.run
  BY WorkMoves DEF Typed, AtWork
<1>2. Clean(man[T]) /\ man[T].late \subseteq man'[T].late
  BY <1>1, WorkMoves DEF Clean
<1>3. cmd.pc = "stage" => AtStage
  <2>1. cmd.pc = "stage" => BeginsStage \/ PassesOver
    BY <1>1, WorkSteps DEF StageReturns, FinishesStage, PublishesFile, MovesAside, MovesIn
  <2> QED BY <2>1 DEF BeginsStage, PassesOver
<1>4. cmd.k \in DOMAIN Plan(Options[T]) /\ Current \in StageRecord
  BY <1>3, StageAtHand
<1> DEFINE InTime == StageReturns => cmd'.outcome # "timeout"
<1>5. InTime => \A x \in Outputs : made'[T][x] \in {made[T][x], cmd.run}
  <2>1. CASE StageReturns
    BY <2>1, ReturnWrites
  <2>2. CASE cmd.pc # "process"
    BY <1>1, <2>2, OutputSteps
  <2>3. cmd.pc = "process" => StageReturns
    BY <1>1, WorkSteps DEF PassesOver, BeginsStage, FinishesStage, PublishesFile, MovesAside, MovesIn
  <2> QED BY <2>1, <2>2, <2>3
<1>6. ~InTime => man'[T].late # {} /\ \A x \in Outputs \ Rebuilt : made'[T][x] = made[T][x]
  <2> SUFFICES ASSUME StageReturns, cmd'.outcome = "timeout"
               PROVE  man'[T].late # {} /\ \A x \in Outputs \ Rebuilt : made'[T][x] = made[T][x]
    OBVIOUS
  <2>1. PICK outcome \in StageOutcomes(Options[T], Current) :
          /\ cmd'.pc = "finish" /\ Current' = Current
          /\ \A x \in Outputs \ Current.writes : made'[T][x] = made[T][x]
    BY ReturnSteps
  <2>2. Current.name = "model_generation" /\ man'[T].late # {}
    BY <1>1, <2>1, HeardKept DEF Heard, AtWork
  <2>3. Current.writes \subseteq Rebuilt
    BY <1>4, <2>2 DEF StageRecord
  <2> QED BY <2>1, <2>2, <2>3
<1>7. ASSUME NEW j \in 1..(cmd.k - 1)
      PROVE  Behind(T, Plan(Options[T])[j])'
  <2> DEFINE plan == Plan(Options[T])
             s == plan[j]
  <2>1. /\ plan \in Seq(StageRecord) /\ NamedOnce(plan) /\ Len(plan) \in Nat
        /\ DOMAIN plan = 1..Len(plan)
    BY <1>1, TaskAtHand DEF AtWork
  <2>2. j \in DOMAIN plan /\ j # cmd.k
    BY <1>1, <1>4, <2>1 DEF CommandState
  <2>3. s \in StageRecord
    BY <2>1, <2>2, ElementOfSeq
  <2>4. s.name # Current.name
    BY <1>4, <2>1, <2>2 DEF NamedOnce, Current
  <2>5. Behind(T, s)
    BY <1>2 DEF Progress
  <2> HIDE DEF InTime
  <2>6. CASE s.name \in Excused(man'[T])
    <3> HIDE DEF s
    <3>1. Behind(T, s)'
      BY <1>1, <2>6 DEF Behind, s, plan
    <3> QED BY <3>1 DEF s, plan
  <2>7. CASE s.name \notin Excused(man'[T])
    <3>1. Succeeded(T, s)
      BY <1>2, <2>5, <2>7 DEF Behind, Excused
    <3>2. Attempted(T, s) /\ (s.copies \/ attempt'[T][s.name] = "ready")
      BY <1>1, <2>3, <2>4, <3>1, AttemptSteps DEF Succeeded, Attempted, StageRecord, StageShape
    <3>3. \A x \in s.writes : made'[T][x] = cmd.run
      <4>1. s.writes \subseteq Outputs /\ \A x \in s.writes : made[T][x] = cmd.run
        BY <2>3, <3>1 DEF Succeeded, Wrote, StageRecord, StageShape
      <4>2. CASE InTime
        BY <1>5, <4>1, <4>2
      <4>3. CASE ~InTime
        <5>1. s.name \notin Reconstruction
          BY <1>6, <2>7, <4>3 DEF Excused
        <5>2. s.writes \cap Rebuilt = {}
          BY <2>3, <5>1 DEF StageRecord
        <5> QED BY <1>6, <4>1, <4>3, <5>2
      <4> QED BY <4>2, <4>3
    <3>4. s.name = "sags" => ply'[T] = cmd.run
      BY <1>1, <3>1, PublishedSteps DEF Succeeded
    <3> HIDE DEF s
    <3>5. Succeeded(T, s)'
      BY <1>1, <3>2, <3>3, <3>4 DEF Succeeded, Attempted, Wrote, s, plan
    <3>6. Behind(T, s)'
      BY <3>5 DEF Behind
    <3> QED BY <3>6 DEF s, plan
  <2> QED BY <2>6, <2>7
<1> QED BY <1>2, <1>4, <1>7

\* The stage at hand joins those behind the pipeline.
LEMMA OneMoreBehind ==
  ASSUME Typed, Placed, T' = T, cmd'.run = cmd.run, cmd'.k = cmd.k + 1,
         \/ Current.name \in Excused(man'[T])
         \/ /\ \A x \in Current.writes : made'[T][x] = cmd.run
            /\ Current.copies \/ attempt'[T][Current.name] = "ready"
            /\ Current.name = "sags" => ply'[T] = cmd.run,
         \A j \in 1..(cmd.k - 1) : Behind(T, Plan(Options[T])[j])'
  PROVE  \A j \in 1..(cmd'.k - 1) : Behind(T, Plan(Options[T])[j])'
<1> SUFFICES ASSUME NEW j \in 1..(cmd'.k - 1)
             PROVE  Behind(T, Plan(Options[T])[j])'
  OBVIOUS
<1>1. cmd.k \in Nat
  BY DEF Typed, CommandState
<1>2. CASE j \in 1..(cmd.k - 1)
  BY <1>2
<1>3. CASE j = cmd.k
  <2>1. Plan(Options[T])[j] = Current
    BY <1>3 DEF Current
  <2> DEFINE s == Current
  <2> HIDE DEF s
  <2>2. \/ s.name \in Excused(man'[T'])
        \/ /\ \A x \in s.writes : made'[T'][x] = cmd'.run
           /\ s.copies \/ attempt'[T'][s.name] = "ready"
           /\ s.name = "sags" => ply'[T'] = cmd'.run
    BY DEF s
  <2>3. Plan(Options[T'])[j] = s
    BY <2>1 DEF s
  <2> QED BY <2>2, <2>3 DEF Behind, Succeeded, Attempted, Wrote
<1> QED BY <1>1, <1>2, <1>3

LEMMA ProgressKept ==
  ASSUME Typed, Placed, Owned, Heard, Progress, PipelineNext
  PROVE  Progress'
<1> SUFFICES ASSUME cmd'.pc \in AtWork, Clean(man'[T'])
             PROVE  /\ \A j \in 1..(cmd'.k - 1) : Behind(T, Plan(Options[T])[j])'
                    /\ cmd'.pc = "finish" /\ cmd'.outcome # "timeout" => Wrote(T, Current)'
                    /\ cmd'.pc \in {"publish", "aside", "move"} =>
                         Wrote(T, Current)' /\ Attempted(T, Current)'
                    /\ cmd'.pc \in {"aside", "move"} => ply'[T'] = cmd'.run
  BY DEF Progress, Clean
<1>1. /\ cmd \in CommandState /\ T' = T /\ T \in Task /\ cmd'.run = cmd.run /\ cmd'.i = cmd.i
      /\ made \in [Task -> [Outputs -> Int]] /\ ply \in [Task -> Nat] /\ tree \in [Task -> Nat]
  BY WorkMoves DEF Typed
<1>2. CASE cmd.pc = "check"
  BY <1>2, WorkMoves
<1>3. CASE cmd.pc # "check"
  <2>1. cmd.pc \in AtWork
    BY <1>3, WorkMoves
  <2>2. /\ Clean(man[T]) /\ cmd.k \in DOMAIN Plan(Options[T])
        /\ \A j \in 1..(cmd.k - 1) : Behind(T, Plan(Options[T])[j])'
    BY <1>1, <2>1, BehindStays
  <2>3. Current \in StageRecord /\ (cmd'.k = cmd.k => Current' = Current)
    <3>1. cmd.k <= Len(Plan(Options[T]))
      BY <1>1, <2>1, <2>2, TaskAtHand DEF AtWork
    <3> QED BY <1>1, <2>1, <3>1, StageAtHand, SameTask DEF AtStage
  <2>4. CASE BeginsStage
    <3>1. CASE Goto("process")
      <4>1. cmd'.pc = "process" /\ cmd'.k = cmd.k
        BY <1>1, <3>1, GoneTo DEF Pcs
      <4> QED BY <2>2, <4>1
    <3>2. CASE Current.copies /\ Goto("publish")
      <4>1. cmd'.pc = "publish" /\ cmd'.k = cmd.k
        BY <1>1, <3>2, GoneTo DEF Pcs
      <4>2. Wrote(T, Current)' /\ Attempted(T, Current)'
        BY <2>3, <3>2, <4>1 DEF Wrote, Attempted, StageRecord
      <4> QED BY <2>2, <4>1, <4>2
    <3>3. ~Goto("fatal")
      BY <1>1, GoneTo DEF AtWork, Pcs
    <3> QED BY <2>4, <3>1, <3>2, <3>3 DEF BeginsStage
  <2>5. CASE StageReturns
    <3>2. cmd'.pc = "finish" /\ cmd'.k = cmd.k
      BY <2>5, ReturnSteps
    <3>3. cmd'.outcome # "timeout" => \A x \in Current.writes : made'[T][x] = cmd.run
      BY <1>1, <2>3, <2>5, ReturnWrites DEF StageRecord, StageShape
    <3>4. cmd'.outcome # "timeout" => Wrote(T, Current)'
      BY <1>1, <2>3, <3>2, <3>3 DEF Wrote, Attempted
    <3> QED BY <2>2, <3>2, <3>4
  <2>6. CASE FinishesStage
    <3>1. cmd.pc = "finish" /\ made' = made /\ ply' = ply
      BY <2>6 DEF FinishesStage
    <3>8. cmd.outcome # "failed"
      BY <2>1, <2>2 DEF Heard, Clean
    <3>9. ~Goto("fatal")
      BY <1>1, GoneTo DEF AtWork, Pcs
    <3>7. CASE cmd.outcome = "timeout"
      <4>1. cmd' = [cmd EXCEPT !.pc = "stage", !.k = @ + 1]
        BY <2>6, <3>7, <3>9 DEF FinishesStage, Broken
      <4>2. cmd'.pc = "stage" /\ cmd'.k = cmd.k + 1
        BY <1>1, <4>1, Advanced DEF Advances
      <4>3. Current.name \in Excused(man'[T])
        BY <1>1, <2>1, <3>1, <3>7, WorkMoves DEF Heard, Excused, Reconstruction
      <4>4. \A j \in 1..(cmd'.k - 1) : Behind(T, Plan(Options[T])[j])'
        BY <1>1, <2>2, <4>2, <4>3, OneMoreBehind
      <4> QED BY <4>2, <4>4
    <3> SUFFICES ASSUME cmd.outcome # "timeout"
                 PROVE  /\ \A j \in 1..(cmd'.k - 1) : Behind(T, Plan(Options[T])[j])'
                        /\ cmd'.pc = "finish" /\ cmd'.outcome # "timeout" => Wrote(T, Current)'
                        /\ cmd'.pc \in {"publish", "aside", "move"} =>
                             Wrote(T, Current)' /\ Attempted(T, Current)'
                        /\ cmd'.pc \in {"aside", "move"} => ply'[T'] = cmd'.run
      BY <3>7
    <3>2. \A x \in Current.writes : made'[T][x] = cmd.run
      BY <2>2, <2>1, <3>1 DEF Progress, Wrote
    <3>3. /\ cmd.outcome = "ready" /\ attempt'[T][Current.name] = "ready"
          /\ Advances => Current.name # "sags"
      BY <1>1, <2>6, <3>8, FinishReady DEF Broken
    <3>4. CASE Advances
      <4>1. cmd'.pc = "stage" /\ cmd'.k = cmd.k + 1
        BY <1>1, <3>4, Advanced
      <4>2. \A j \in 1..(cmd'.k - 1) : Behind(T, Plan(Options[T])[j])'
        BY <1>1, <2>2, <3>2, <3>3, <3>4, <4>1, OneMoreBehind
      <4> QED BY <4>1, <4>2
    <3>5. CASE Goto("publish")
      <4>1. cmd'.pc = "publish" /\ cmd'.k = cmd.k
        BY <1>1, <3>5, GoneTo DEF Pcs
      <4>2. Wrote(T, Current)' /\ Attempted(T, Current)'
        BY <1>1, <2>3, <3>2, <3>3, <4>1 DEF Wrote, Attempted
      <4> QED BY <2>2, <4>1, <4>2
    <3> QED BY <1>1, <2>6, <3>4, <3>5, <3>9, FinishMoves
  <2>7. CASE PublishesFile
    <3>1. cmd.pc = "publish" /\ made' = made /\ attempt' = attempt /\ ply' = [ply EXCEPT ![T] = cmd.run]
      BY <2>7 DEF PublishesFile
    <3>2. /\ \A x \in Current.writes : made'[T][x] = cmd.run
          /\ Current.copies \/ attempt'[T][Current.name] = "ready"
          /\ ply'[T] = cmd.run
      BY <1>1, <2>1, <2>2, <3>1 DEF Progress, Wrote, Attempted
    <3>3. CASE Goto("aside")
      <4>1. cmd'.pc = "aside" /\ cmd'.k = cmd.k
        BY <1>1, <3>3, GoneTo DEF Pcs
      <4>2. Wrote(T, Current)' /\ Attempted(T, Current)' /\ ply'[T'] = cmd'.run
        BY <1>1, <2>3, <3>2, <4>1 DEF Wrote, Attempted
      <4> QED BY <2>2, <4>1, <4>2
    <3>4. CASE Advances
      <4>1. cmd'.pc = "stage" /\ cmd'.k = cmd.k + 1
        BY <1>1, <3>4, Advanced
      <4>2. \A j \in 1..(cmd'.k - 1) : Behind(T, Plan(Options[T])[j])'
        BY <1>1, <2>2, <3>2, <4>1, OneMoreBehind
      <4> QED BY <4>1, <4>2
    <3>5. Goto("aside") \/ Advances
      BY <2>7 DEF PublishesFile, Advances
    <3> QED BY <3>3, <3>4, <3>5
  <2>8. CASE MovesAside
    <3>1. cmd.pc = "aside" /\ made' = made /\ attempt' = attempt /\ ply' = ply
      BY <2>8 DEF MovesAside
    <3>2. /\ \A x \in Current.writes : made'[T][x] = cmd.run
          /\ Current.copies \/ attempt'[T][Current.name] = "ready"
          /\ ply'[T] = cmd.run
      BY <2>1, <2>2, <3>1 DEF Progress, Wrote, Attempted
    <3>3. cmd'.pc = "move" /\ cmd'.k = cmd.k
      BY <1>1, <2>8, AsideMoves DEF AtWork
    <3>4. Wrote(T, Current)' /\ Attempted(T, Current)' /\ ply'[T'] = cmd'.run
      BY <1>1, <2>3, <3>2, <3>3 DEF Wrote, Attempted
    <3> QED BY <2>2, <3>3, <3>4
  <2>9. CASE MovesIn
    <3>1. cmd.pc = "move" /\ made' = made /\ attempt' = attempt /\ ply' = ply
      BY <2>9 DEF MovesIn
    <3>2. /\ \A x \in Current.writes : made'[T][x] = cmd.run
          /\ Current.copies \/ attempt'[T][Current.name] = "ready"
          /\ ply'[T] = cmd.run
      BY <2>1, <2>2, <3>1 DEF Progress, Wrote, Attempted
    <3>3. cmd'.pc = "stage" /\ cmd'.k = cmd.k + 1
      BY <1>1, <2>9, InMoves DEF AtWork
    <3>4. \A j \in 1..(cmd'.k - 1) : Behind(T, Plan(Options[T])[j])'
      BY <1>1, <2>2, <3>2, <3>3, OneMoreBehind
    <3> QED BY <3>3, <3>4
  <2>10. ~Opens
    BY <1>3 DEF Opens
  <2>11. CASE PassesOver
    <3>1. cmd.pc = "stage" /\ AtStage /\ LeftOut /\ Advances /\ man' = man
      BY <2>11 DEF PassesOver, Advances
    <3>2. cmd'.pc = "stage" /\ cmd'.k = cmd.k + 1
      BY <1>1, <3>1, Advanced
    <3>3. Current.name = "mesh_to_gaussian"
      BY <2>3, <3>1 DEF LeftOut, StageRecord
    <3>4. man'[T].late # {}
      BY <2>1, <2>2, <3>1 DEF LeftOut, Broken, Heard, Clean
    <3>5. Current.name \in Excused(man'[T])
      BY <3>3, <3>4 DEF Excused, Reconstruction
    <3>6. \A j \in 1..(cmd'.k - 1) : Behind(T, Plan(Options[T])[j])'
      BY <1>1, <2>2, <3>2, <3>5, OneMoreBehind
    <3> QED BY <3>2, <3>6
  <2> QED BY <2>4, <2>5, <2>6, <2>7, <2>8, <2>9, <2>10, <2>11, WorkSteps
<1> QED BY <1>2, <1>3

LEMMA ClosingKept ==
  ASSUME Typed, Placed, Owned, Closing, PipelineNext
  PROVE  Closing'
<1>1. /\ cmd \in CommandState /\ man \in [Task -> Manifest] /\ (cmd.pc # "off" => T \in Task)
      /\ evidence \in [Task -> SUBSET Nat]
  BY TaskAtHand DEF Typed
<1>2. CASE WritesOutcome
  <2>1. cmd.pc = "stage" /\ T \in Task /\ Goto("book")
    BY <1>1, <1>2 DEF WritesOutcome
  <2>2. man'[T].run = man[T].run /\ man'[T].status = Outcome(man[T])
    BY <1>1, <1>2, <2>1 DEF WritesOutcome, Manifest
  <2>3. man'[T].run = cmd.run /\ man'[T].status \in {"failed", "rejected", "ready"}
    BY <2>1, <2>2 DEF Owned, AtWork, Outcome
  <2> QED BY <1>1, <2>1, <2>3, GoneTo, SameTask DEF Closing, Pcs
<1>3. CASE WritesBook
  <2>1. cmd.pc = "book" /\ man' = man /\ Goto("evidence")
    BY <1>3 DEF WritesBook
  <2> QED BY <1>1, <2>1, GoneTo, SameTask DEF Closing, Pcs
<1>4. CASE WritesEvidence
  <2>1. /\ cmd.pc = "evidence" /\ man' = man
        /\ \/ Goto("fatal")
           \/ /\ evidence' = [evidence EXCEPT ![T] = @ \cup {cmd.run}]
              /\ cmd' = [cmd EXCEPT !.pc = "ended",
                           !.code = CASE man[T].status = "failed" -> 1
                                      [] man[T].status = "rejected" -> 2
                                      [] OTHER -> 0]
    BY <1>4, Zenon DEF WritesEvidence
  <2>2. man[T].run = cmd.run /\ man[T].status \in {"failed", "rejected", "ready"} /\ T \in Task
    BY <1>1, <2>1 DEF Closing
  <2>3. CASE Goto("fatal")
    BY <1>1, <2>3, GoneTo DEF Closing, Pcs
  <2>4. CASE cmd' = [cmd EXCEPT !.pc = "ended",
                       !.code = CASE man[T].status = "failed" -> 1
                                  [] man[T].status = "rejected" -> 2
                                  [] OTHER -> 0]
             /\ evidence' = [evidence EXCEPT ![T] = @ \cup {cmd.run}]
    <3> DEFINE n == CASE man[T].status = "failed" -> 1
                      [] man[T].status = "rejected" -> 2
                      [] OTHER -> 0
    <3>1. n \in Int
      OBVIOUS
    <3>2. n = 0 => man[T].status \notin {"failed", "rejected"}
      <4>1. man[T].status = "failed" => n = 1
        BY Zenon
      <4>2. ASSUME man[T].status = "rejected" PROVE n = 2
        <5>1. man[T].status # "failed"
          BY <4>2
        <5> QED BY <4>2, <5>1, Zenon
      <4> HIDE DEF n
      <4> QED BY <4>1, <4>2
    <3>3. cmd' = [cmd EXCEPT !.pc = "ended", !.code = n]
      BY <2>4
    <3> HIDE DEF n
    <3>4. cmd'.pc = "ended" /\ cmd'.i = cmd.i /\ cmd'.run = cmd.run /\ cmd'.code = n
      BY <1>1, <3>1, <3>3, Ended
    <3>5. cmd.run \in evidence'[T]
      BY <1>1, <2>2, <2>4
    <3> QED BY <2>1, <2>2, <3>2, <3>4, <3>5, SameTask DEF Closing
  <2> QED BY <2>1, <2>3, <2>4
<1>5. CASE ~(WritesOutcome \/ WritesBook \/ WritesEvidence)
  BY <1>5, WorkSteps DEF Closing
<1> QED BY <1>2, <1>3, <1>4, <1>5

\* A manifest comes to say ready at the end of a run only; otherwise it is left
\* alone, or says something else.
LEMMA StatusSteps ==
  ASSUME Typed, Placed, Owned, PipelineNext, NEW t \in Task, man'[t].status = "ready"
  PROVE  \/ man'[t] = man[t] /\ (cmd.pc \in AtWork => t # T)
         \/ WritesOutcome /\ t = T
<1>1. man \in [Task -> Manifest] /\ cmd \in CommandState /\ (cmd.pc # "off" => T \in Task)
  BY TaskAtHand DEF Typed
<1>2. CASE cmd.pc = "off" \/ t # T
  BY <1>2, ManifestSteps DEF AtWork
<1>3. CASE cmd.pc # "off" /\ t = T /\ ~WritesOutcome
  <2>1. CASE cmd'.pc \in AtWork
    <3>1. man'[T].status = "open"
      BY <1>1, <1>3, <2>1, WorkMoves, OwnedKept DEF Owned
    <3> QED BY <1>3, <3>1
  <2>2. CASE cmd'.pc \notin AtWork
    <3>1. CASE man' = man
      <4>1. cmd.pc \in AtWork => man[T].status = "open"
        BY DEF Owned
      <4> QED BY <1>3, <3>1, <4>1
    <3>2. CASE RefusesTask
      BY <1>1, <1>3, <3>2 DEF RefusesTask, NoManifest
    <3>7. CASE BatchDies
      <4>1. CASE man' = [man EXCEPT ![T].status = "torn"]
        BY <1>1, <1>3, <4>1 DEF Manifest
      <4> QED BY <3>1, <3>7, <4>1 DEF BatchDies
    <3>3. CASE Fatal
      BY <1>1, <1>3, <3>1, <3>3 DEF Fatal, Manifest
    <3>4. CASE Opens
      <4>1. CASE man' = [man EXCEPT ![T] = Fresh(cmd.run)]
        BY <1>1, <1>3, <4>1 DEF Fresh
      <4>2. CASE man' = [man EXCEPT ![T] = [Fresh(cmd.run) EXCEPT !.status = "blocked",
                                                              !.active = "provider_preflight"]]
        BY <1>1, <1>3, <4>2 DEF Fresh, NoManifest
      <4> QED BY <3>1, <3>4, <4>1, <4>2 DEF Opens
    <3>5. CASE BeginsStage \/ StageReturns \/ FinishesStage
      <4>1. cmd.pc \in AtWork
        BY <3>5 DEF BeginsStage, StageReturns, FinishesStage, AtWork
      <4>2. man'[T].status = man[T].status
        <5>1. CASE BeginsStage
          BY <1>1, <1>3, <5>1 DEF BeginsStage, Manifest
        <5>2. CASE StageReturns
          <6>1. PICK w : man'[T] = Noted(man[T], w)
            BY <5>2, ReturnSteps
          <6>2. Current.name \in StageNames
            BY <5>2, StageAtHand DEF StageReturns, AtWork, StageRecord, StageShape
          <6> QED BY <1>1, <1>3, <6>1, <6>2, NotedTyped
        <5>3. CASE FinishesStage
          BY <1>1, <1>3, <5>3 DEF FinishesStage, Manifest
        <5> QED BY <3>5, <5>1, <5>2, <5>3
      <4> QED BY <1>3, <4>1, <4>2 DEF Owned
    <3>6. CASE PipelineDies
      <4>1. CASE man' = [man EXCEPT ![T].status = "torn"]
        BY <1>1, <1>3, <4>1 DEF Manifest
      <4> QED BY <3>1, <3>6, <4>1 DEF PipelineDies
    <3> QED BY <1>3, <3>1, <3>2, <3>3, <3>4, <3>5, <3>6, <3>7
            DEF PipelineNext, BatchStarts, SkipsTask, RecordsRefusal, Launches, RecordsTask, PassesOver,
                PublishesFile, MovesAside, MovesIn, WritesBook, WritesEvidence
  <2> QED BY <2>1, <2>2
<1> QED BY <1>2, <1>3

Ready(t) ==
  LET plan == Plan(Options[t])
  IN  /\ \A k \in DOMAIN plan : plan[k].name \notin Excused(man[t]) =>
           /\ \A x \in plan[k].writes : made[t][x] = man[t].run
           /\ ~plan[k].copies => attempt[t][plan[k].name] = "ready"
      /\ Options[t].sags # "no" => ply[t] = man[t].run
      /\ man[t].late # {} => Options[t].goOn

LEMMA ReadySoundKept ==
  ASSUME Typed, Placed, Owned, Heard, Progress, ReadySound, PipelineNext
  PROVE  ReadySound'
<1> SUFFICES ASSUME NEW t \in Task, man'[t].status = "ready"
             PROVE  Ready(t)'
  BY DEF ReadySound, Ready
<1>1. man \in [Task -> Manifest] /\ cmd \in CommandState /\ (cmd.pc # "off" => T \in Task)
  BY TaskAtHand DEF Typed
<1> DEFINE plan == Plan(Options[t])
<1>2. plan \in Seq(StageRecord) /\ DOMAIN plan = 1..Len(plan) /\ Len(plan) \in Nat
  BY PipelineAssumption, PlanStretch, LenProperties
<1>3. ASSUME NEW k \in DOMAIN plan
      PROVE  plan[k].name \in StageNames /\ plan[k].writes \subseteq Outputs
  <2> HIDE DEF plan
  <2>1. plan[k] \in StageRecord
    BY <1>2, ElementOfSeq
  <2> QED BY <2>1 DEF StageRecord, StageShape
<1>4. Options[t].sags # "no" => \E k \in DOMAIN plan : plan[k].name = "sags"
  BY PipelineAssumption, PlanStretch
<1>5. CASE man'[t] = man[t] /\ (cmd.pc \in AtWork => t # T)
  <2>1. Ready(t)
    BY <1>5 DEF ReadySound, Ready
  <2>2. made'[t] = made[t] /\ ply'[t] = ply[t]
    BY <1>5, OutputSteps, PublishedSteps DEF AtWork
  <2>3. \A s \in StageNames : attempt'[t][s] = attempt[t][s]
    BY <1>5, AttemptSteps DEF AtWork
  <2> HIDE DEF plan
  <2>4. ASSUME NEW k \in DOMAIN plan, plan[k].name \notin Excused(man'[t])
        PROVE  /\ \A x \in plan[k].writes : made'[t][x] = man'[t].run
               /\ ~plan[k].copies => attempt'[t][plan[k].name] = "ready"
    BY <1>3, <1>5, <2>1, <2>2, <2>3, <2>4 DEF Ready, plan
  <2>5. /\ Options[t].sags # "no" => ply'[t] = man'[t].run
        /\ man'[t].late # {} => Options[t].goOn
    BY <1>5, <2>1, <2>2 DEF Ready
  <2> QED BY <2>4, <2>5 DEF Ready, Excused, plan
<1>6. CASE WritesOutcome /\ t = T
  <2>1. /\ cmd.pc = "stage" /\ ~AtStage /\ man'[t].run = man[t].run /\ man'[t].late = man[t].late
        /\ Outcome(man[t]) = "ready"
    BY <1>1, <1>6 DEF WritesOutcome, Manifest
  <2>2. Clean(man[T]) /\ man[T].run = cmd.run
    BY <1>6, <2>1 DEF Outcome, Clean, Owned, AtWork
  <2>3. \A j \in 1..(cmd.k - 1) : Behind(T, plan[j])
    BY <1>6, <2>1, <2>2 DEF Progress, AtWork
  <2>4. cmd.k - 1 = Len(plan)
    BY <1>1, <1>2, <1>6, <2>1 DEF AtStage, Placed, AtWork, CommandState
  <2>5. \A j \in DOMAIN plan : Behind(T, plan[j])
    BY <1>2, <2>3, <2>4
  <2>6. made' = made /\ attempt' = attempt /\ ply' = ply
    BY <1>6 DEF WritesOutcome, space
  <2>7. man[t].late # {} => Options[t].goOn
    BY <1>6, <2>1 DEF Heard, AtWork
  <2> HIDE DEF plan
  <2>8. ASSUME NEW k \in DOMAIN plan, plan[k].name \notin Excused(man'[t])
        PROVE  /\ \A x \in plan[k].writes : made'[t][x] = man'[t].run
               /\ ~plan[k].copies => attempt'[t][plan[k].name] = "ready"
               /\ plan[k].name = "sags" => ply'[t] = man'[t].run
    <3>1. Succeeded(T, plan[k])
      BY <1>6, <2>1, <2>5, <2>8 DEF Behind, Excused
    <3> QED BY <1>6, <2>1, <2>2, <2>6, <3>1 DEF Succeeded, Attempted, Wrote
  <2>9. Options[t].sags # "no" => ply'[t] = man'[t].run
    BY <1>4, <2>8 DEF Excused, Reconstruction
  <2> QED BY <2>1, <2>7, <2>8, <2>9 DEF Ready, Excused, plan
<1> QED BY <1>5, <1>6, StatusSteps

LEMMA SoundInit == PipelineInit => Sound
<1> SUFFICES ASSUME PipelineInit PROVE Sound
  OBVIOUS
<1>1. \A t \in Task : man[t] = NoManifest
  BY DEF PipelineInit
<1>2. cmd = Off /\ cmd.pc = "off" /\ cmd.run = 0 /\ cmd.aside = 0 /\ runs = 0 /\ batches = 0
  BY DEF PipelineInit, Off
<1>3. Typed
  <2>1. NoRecord \in Record
    BY DEF NoRecord, Record, Verdicts
  <2> QED BY <2>1, OffTyped, NoManifestTyped DEF PipelineInit, Typed, Standings
<1>4. Numbered
  <2>1. NoManifest.run = 0 /\ NoRecord.batch = 0
    BY DEF NoManifest, NoRecord
  <2>2. MaxRuns \in Nat /\ MaxBatches \in Nat
    BY PipelineAssumption
  <2> QED BY <1>1, <1>2, <2>1, <2>2 DEF PipelineInit, Numbered
<1>5. Placed /\ Owned /\ Heard /\ Progress /\ Closing
  BY <1>2 DEF Placed, Owned, Heard, Progress, Closing, AtWork
<1>6. ReadySound
  BY <1>1 DEF ReadySound, NoManifest
<1> QED BY <1>3, <1>4, <1>5, <1>6 DEF Sound

LEMMA SoundKept == Sound /\ [PipelineNext]_pipelineVars => Sound'
<1> SUFFICES ASSUME Sound, [PipelineNext]_pipelineVars PROVE Sound'
  OBVIOUS
<1>1. CASE PipelineNext
  BY <1>1, TypedKept, NumberedKept, PlacedKept, OwnedKept, HeardKept, ProgressKept, ClosingKept, ReadySoundKept
     DEF Sound
<1>2. CASE UNCHANGED pipelineVars
  <2>1. /\ man' = man /\ made' = made /\ attempt' = attempt /\ ply' = ply /\ tree' = tree
        /\ backup' = backup /\ evidence' = evidence /\ cmd' = cmd /\ record' = record
        /\ runs' = runs /\ batches' = batches
    BY <1>2 DEF pipelineVars
  <2>2. T' = T /\ Current' = Current /\ AtStage' = AtStage
    BY <2>1 DEF T, Current, AtStage
  <2>3. Typed'
    BY <2>1 DEF Sound, Typed
  <2>4. Numbered'
    BY <2>1 DEF Sound, Numbered
  <2>5. Placed'
    BY <2>1, <2>2 DEF Sound, Placed
  <2>6. Owned'
    BY <2>1, <2>2 DEF Sound, Owned
  <2>7. Progress'
    BY <2>1, <2>2 DEF Sound, Progress, Behind, Succeeded, Attempted, Wrote
  <2>8. Closing'
    BY <2>1, <2>2 DEF Sound, Closing
  <2>9. ReadySound'
    BY <2>1 DEF Sound, ReadySound
  <2>10. Heard'
    BY <2>1, <2>2 DEF Sound, Heard
  <2> QED BY <2>3, <2>4, <2>5, <2>6, <2>7, <2>8, <2>9, <2>10 DEF Sound
<1> QED BY <1>1, <1>2

\* Sound is an invariant: the inductive invariant of the pipeline.
THEOREM AlwaysSound == PipelineSpec => []Sound
BY SoundInit, SoundKept, PTL DEF PipelineSpec

\* The type invariant, for every job file and all options.
THEOREM PipelineTypesHold == PipelineSpec => []PipelineTypeOK
<1>1. Sound => PipelineTypeOK
  <2> SUFFICES ASSUME Sound PROVE PipelineTypeOK
    OBVIOUS
  <2>1. ASSUME NEW t \in Task
        PROVE  /\ man[t].status \in Statuses /\ man[t].run \in 0..runs
               /\ man[t].active \in StageNames \cup {"none", "provider_preflight"}
               /\ \A x \in Outputs : made[t][x] \in -runs..runs
               /\ ply[t] \in 0..runs /\ tree[t] \in 0..runs
               /\ backup[t] \subseteq 1..runs /\ evidence[t] \subseteq 1..runs
    <3>1. man[t] \in Manifest /\ ply[t] \in Nat /\ tree[t] \in Nat /\ runs \in Nat
      BY DEF Sound, Typed
    <3> QED BY <3>1 DEF Sound, Numbered, Manifest
  <2>2. cmd.pc # "off" => cmd.i \in 1..Len(Tasks)
    BY DEF Sound, Placed
  <2>3. cmd.pc = "process" =>
          /\ AtStage /\ man[T].run = cmd.run /\ man[T].active = Current.name
          /\ attempt[T][Current.name] = "running"
    BY DEF Sound, Placed, Owned, AtWork
  <2>4. runs \in 0..MaxRuns /\ batches \in 0..MaxBatches
    BY PipelineAssumption DEF Sound, Typed, Numbered
  <2> QED BY <2>1, <2>2, <2>3, <2>4 DEF PipelineTypeOK
<1> QED BY <1>1, AlwaysSound, PTL

\* A manifest that says ready is that of one run all of whose stages succeeded in it,
\* but for a reconstruction that was out of time where the run was to go on, and what
\* is published is of that run.
THEOREM ReadyIsOneRun == PipelineSpec => []ReadySound
<1>1. Sound => ReadySound
  BY DEF Sound
<1> QED BY <1>1, AlwaysSound, PTL

-----------------------------------------------------------------------------
(* The records of the batch.                                               *)

\* Where a step leaves the command, as the tasks of the batch see it.
LEMMA TaskSteps ==
  ASSUME Typed, Placed, PipelineNext
  PROVE  \/ BatchStarts
         \/ cmd.pc # "off" /\ (SkipsTask \/ RecordsRefusal \/ RecordsTask)
         \/ BatchDies
         \/ record' = record /\ cmd.pc # "off" /\ cmd'.i = cmd.i
<1>1. cmd \in CommandState /\ runs \in Nat /\ tree \in [Task -> Nat] /\ (cmd.pc # "off" => T \in Task)
  BY TaskAtHand DEF Typed
<1>2. SkipsTask \/ RecordsRefusal \/ RecordsTask => cmd.pc # "off"
  BY DEF SkipsTask, RecordsRefusal, RecordsTask
<1>3. CASE Launches
  BY <1>1, <1>3, LaunchMoves DEF Launches
<1>4. CASE Fatal
  <2>1. cmd' = [cmd EXCEPT !.pc = "ended", !.code = 1] /\ 1 \in Int
    BY <1>4 DEF Fatal
  <2> QED BY <1>1, <1>4, <2>1, Ended DEF Fatal
<1>5. CASE Opens
  BY <1>1, <1>5, OpenMoves DEF Opens
<1>6. CASE RefusesTask \/ BeginsStage \/ WritesOutcome \/ WritesBook
  <2>1. /\ record' = record /\ cmd.pc # "off"
        /\ \E p \in {"refused", "fatal", "process", "publish", "book", "evidence"} : Goto(p)
    BY <1>6 DEF RefusesTask, BeginsStage, WritesOutcome, WritesBook
  <2> QED BY <1>1, <2>1, GoneTo DEF Pcs
<1>7. CASE StageReturns
  <2>1. PICK outcome \in StageResults :
          cmd' = [cmd EXCEPT !.pc = "finish", !.outcome = outcome]
    BY <1>7 DEF StageReturns, StageOutcomes, StageResults
  <2> QED BY <1>1, <1>7, <2>1, ReturnMoves DEF StageReturns
<1>8. CASE PassesOver \/ FinishesStage \/ PublishesFile
  <2>1. /\ record' = record /\ cmd.pc # "off"
        /\ Goto("fatal") \/ Goto("publish") \/ Goto("aside") \/ Advances
    BY <1>8, FinishMoves, <1>1 DEF PassesOver, FinishesStage, PublishesFile, Advances
  <2> QED BY <1>1, <2>1, GoneTo, Advanced DEF Pcs
<1>9. CASE MovesAside \/ MovesIn
  <2>1. record' = record /\ cmd.pc # "off"
    BY <1>9 DEF MovesAside, MovesIn
  <2> QED BY <1>1, <1>9, <2>1, AsideMoves, InMoves
<1>10. CASE WritesEvidence
  <2>1. (CASE man[T].status = "failed" -> 1 [] man[T].status = "rejected" -> 2 [] OTHER -> 0) \in Int
    OBVIOUS
  <2>2. /\ record' = record /\ cmd.pc # "off"
        /\ \/ Goto("fatal")
           \/ cmd' = [cmd EXCEPT !.pc = "ended",
                        !.code = CASE man[T].status = "failed" -> 1
                                   [] man[T].status = "rejected" -> 2
                                   [] OTHER -> 0]
    BY <1>10, Zenon DEF WritesEvidence
  <2> QED BY <1>1, <2>1, <2>2, GoneTo, Ended DEF Pcs
<1>11. CASE PipelineDies
  <2>1. cmd' = [cmd EXCEPT !.pc = "ended", !.code = -9] /\ -9 \in Int /\ record' = record
        /\ cmd.pc # "off"
    BY <1>11 DEF PipelineDies, InPipeline
  <2> QED BY <1>1, <2>1, Ended
<1> QED BY <1>2, <1>3, <1>4, <1>5, <1>6, <1>7, <1>8, <1>9, <1>10, <1>11 DEF PipelineNext

LEMMA RecordedKept ==
  ASSUME Typed, Numbered, Placed, Recorded, PipelineNext
  PROVE  Recorded'
<1>1. /\ cmd \in CommandState /\ record \in [Task -> Record] /\ batches \in Nat
      /\ (cmd.pc # "off" => cmd.i \in 1..Len(Tasks))
      /\ Len(Tasks) \in Nat
  BY TasksListed DEF Typed, Placed
<1>2. CASE BatchStarts
  <2>1. record' = record /\ batches' = batches + 1
    BY <1>2 DEF BatchStarts
  <2>2. \A t \in Task : record[t].batch \in Nat /\ record[t].batch <= batches
    BY <1>1 DEF Numbered, Record
  <2> QED BY <1>1, <2>1, <2>2 DEF Recorded
<1>3. CASE cmd.pc # "off" /\ (SkipsTask \/ RecordsRefusal \/ RecordsTask)
  <2>1. PICK status, run : NextTask(status, run)
    BY <1>3 DEF SkipsTask, RecordsRefusal, RecordsTask
  <2>2. batches' = batches
    BY <1>3 DEF SkipsTask, RecordsRefusal, RecordsTask
  <2>3. CASE cmd' = Off
    BY <2>3 DEF Off, Recorded
  <2>4. CASE cmd'.i = cmd.i + 1
    <3> SUFFICES ASSUME NEW t \in Task, record'[t].status # "none", record'[t].batch = batches'
                 PROVE  \E j \in 1..(cmd'.i - 1) : Tasks[j] = t
      BY DEF Recorded
    <3>1. cmd.i \in 1..(cmd'.i - 1) /\ \A j \in 1..(cmd.i - 1) : j \in 1..(cmd'.i - 1)
      BY <1>1, <1>3, <2>4
    <3>2. CASE t = T
      BY <3>1, <3>2 DEF T
    <3>3. CASE t # T
      <4>1. record'[t] = IF cmd.i = 1 THEN NoRecord ELSE record[t]
        BY <2>1, <3>3 DEF NextTask
      <4>2. record'[t] = record[t]
        BY <4>1 DEF NoRecord
      <4> QED BY <1>3, <2>2, <3>1, <4>2 DEF Recorded
    <3> QED BY <3>2, <3>3
  <2> QED BY <1>1, <1>3, <2>1, <2>3, <2>4, NextTaskMoves
<1>4. CASE BatchDies
  BY <1>4 DEF BatchDies, Off, Recorded
<1>5. CASE record' = record /\ cmd.pc # "off" /\ cmd'.i = cmd.i /\ ~BatchStarts
  BY <1>5, CountSteps DEF Recorded
<1> QED BY <1>2, <1>3, <1>4, <1>5, TaskSteps

LEMMA RecordSoundKept ==
  ASSUME Typed, Numbered, Placed, Closing, Recorded, RecordSound, PipelineNext
  PROVE  RecordSound'
<1> SUFFICES ASSUME NEW t \in Task, record'[t].status = "ready"
             PROVE  /\ record'[t].run \in evidence'[t]
                    /\ record'[t].batch = batches' /\ (\A i, j \in Listed(t) : i = j) =>
                         man'[t].status = "ready" /\ man'[t].run = record'[t].run
  BY DEF RecordSound, Listed
<1>1. /\ record \in [Task -> Record] /\ batches \in Nat
      /\ (cmd.pc # "off" => cmd.i \in 1..Len(Tasks) /\ cmd.i \in Nat /\ T \in Task)
      /\ Len(Tasks) \in Nat /\ DOMAIN Tasks = 1..Len(Tasks)
  BY TasksListed, TaskAtHand DEF Typed, Placed, CommandState
\* A record of the batch at hand is that of another task than the one at hand.
<1>2. CASE record'[t] = record[t]
  <2>1. record[t].run \in evidence'[t]
    BY <1>2, EvidenceSteps DEF RecordSound
  <2> SUFFICES ASSUME record[t].batch = batches', \A i, j \in Listed(t) : i = j
               PROVE  man'[t].status = "ready" /\ man'[t].run = record[t].run
    BY <1>2, <2>1
  <2>2. batches' = batches
    <3>1. record[t].batch \in Nat /\ record[t].batch <= batches /\ batches' \in {batches, batches + 1}
      BY <1>1, CountSteps DEF Numbered, Record
    <3> QED BY <1>1, <3>1
  <2>3. man[t].status = "ready" /\ man[t].run = record[t].run
    BY <1>2, <2>2 DEF RecordSound
  <2>4. cmd.pc = "off" \/ t # T
    <3> SUFFICES ASSUME cmd.pc # "off", t = T PROVE FALSE
      OBVIOUS
    <3>1. PICK j \in 1..(cmd.i - 1) : Tasks[j] = t
      BY <1>2, <2>2 DEF Recorded
    <3>2. j \in Listed(t) /\ cmd.i \in Listed(t) /\ j # cmd.i
      BY <1>1, <3>1 DEF Listed, T
    <3> QED BY <3>2
  <2> QED BY <2>3, <2>4, ManifestSteps
\* A new one is written of a run that ended with 0.
<1>3. CASE RecordsTask /\ t = T
  <2>1. /\ cmd.pc = "ended" /\ T \in Task /\ man' = man /\ evidence' = evidence
        /\ record'[t] = [status |-> Verdict(man[T].status, cmd.code), run |-> cmd.run, batch |-> batches]
    BY <1>1, <1>3 DEF RecordsTask, NextTask
  <2>2. record'[t].run = cmd.run /\ Verdict(man[T].status, cmd.code) = "ready"
    BY <2>1
  <2>3. cmd.code = 0
    BY <2>2 DEF Verdict
  <2> QED BY <1>3, <2>1, <2>2, <2>3 DEF Closing
<1>4. CASE SkipsTask /\ t = T
  <2>1. record'[t] = [status |-> "skipped", run |-> man[T].run, batch |-> batches]
    BY <1>1, <1>4 DEF SkipsTask, NextTask
  <2> QED BY <2>1
<1>5. CASE RecordsRefusal /\ t = T
  <2>1. record'[t] = [status |-> "failed", run |-> 0, batch |-> batches]
    BY <1>1, <1>5 DEF RecordsRefusal, NextTask
  <2> QED BY <2>1
<1>6. record'[t] # NoRecord
  BY DEF NoRecord
<1> QED BY <1>2, <1>3, <1>4, <1>5, <1>6, RecordSteps

\* A task that the batch has recorded as ready has the evidence of that run; and as
\* long as the record is of the latest batch its manifest is still that of the run,
\* unless the job file lists the task again.
THEOREM ReadyRecords == PipelineSpec => []RecordSound
<1> DEFINE Inv == Sound /\ Recorded /\ RecordSound
<1>1. PipelineInit => Inv
  <2> SUFFICES ASSUME PipelineInit PROVE Inv
    OBVIOUS
  <2>1. cmd.pc = "off" /\ \A t \in Task : record[t].status = "none"
    BY DEF PipelineInit, Off, NoRecord
  <2> QED BY <2>1, SoundInit DEF Recorded, RecordSound
<1>2. Inv /\ [PipelineNext]_pipelineVars => Inv'
  <2> SUFFICES ASSUME Inv, [PipelineNext]_pipelineVars PROVE Inv'
    OBVIOUS
  <2>1. Sound'
    BY SoundKept
  <2>2. CASE PipelineNext
    BY <2>1, <2>2, RecordedKept, RecordSoundKept DEF Sound
  <2>3. CASE UNCHANGED pipelineVars
    BY <2>1, <2>3 DEF pipelineVars, Recorded, RecordSound, Listed
  <2> QED BY <2>2, <2>3
<1>3. Inv => RecordSound
  OBVIOUS
<1> QED BY <1>1, <1>2, <1>3, PTL DEF PipelineSpec

-----------------------------------------------------------------------------
(* What has been published.                                                *)

\* How a step may change the published tree, and what lies aside.
LEMMA TreeSteps ==
  ASSUME Typed, Placed, PipelineNext, NEW t \in Task
  PROVE  \/ /\ tree'[t] = tree[t] /\ backup'[t] = backup[t]
            /\ t # T \/ cmd.pc # "move" \/ PipelineDies \/ BatchDies
         \/ /\ t = T /\ cmd.pc = "aside" /\ cmd'.pc = "move" /\ T' = T /\ cmd'.aside = tree[t]
            /\ tree'[t] = 0 /\ backup'[t] = backup[t] \cup ({tree[t]} \ {0})
         \/ /\ t = T /\ cmd.pc = "move" /\ tree'[t] \in {cmd.run, cmd.aside} /\ cmd.run # 0
            /\ backup'[t] = backup[t] \ {cmd.aside}
<1>1. /\ cmd \in CommandState /\ tree \in [Task -> Nat] /\ backup \in [Task -> SUBSET (Nat \ {0})]
      /\ (cmd.pc # "off" => T \in Task) /\ (cmd.pc = "move" => cmd.run # 0)
  BY TaskAtHand DEF Typed, Placed
<1>2. CASE MovesAside
  <2>1. cmd.pc = "aside" /\ T \in Task
    BY <1>1, <1>2 DEF MovesAside
  <2>2. T' = T
    BY <1>1, <1>2, <2>1, AsideMoves, SameTask
  <2> QED BY <1>1, <1>2, <2>1, <2>2, AsideMoves
<1>3. CASE MovesIn
  <2>1. cmd.pc = "move" /\ T \in Task
    BY <1>1, <1>3 DEF MovesIn
  <2> QED BY <1>1, <1>3, <2>1, InMoves
<1>4. CASE tree' = tree /\ backup' = backup /\ (cmd.pc # "move" \/ PipelineDies \/ BatchDies)
  BY <1>4
<1>5. WritesEvidence => tree' = tree /\ backup' = backup /\ cmd.pc # "move"
  BY Zenon DEF WritesEvidence, space
<1> QED BY <1>2, <1>3, <1>4, <1>5
        DEF PipelineNext, space, BatchStarts, SkipsTask, RefusesTask, RecordsRefusal, Launches, RecordsTask,
            Fatal, Opens, PassesOver, BeginsStage, StageReturns, FinishesStage, PublishesFile, WritesOutcome,
            WritesBook, PipelineDies, BatchDies

LEMMA AvailableKept ==
  ASSUME Typed, Placed, PipelineNext, NEW t \in Task
  PROVE  /\ Available(t) => Available(t)'
         /\ InPlace(t) => InPlace(t)' \/ (Moving /\ (PipelineDies \/ BatchDies))
<1>1. /\ tree[t] \in Nat /\ backup[t] \subseteq Nat \ {0}
      /\ (cmd.pc = "move" /\ t = T => tree[t] = 0)
  BY TaskAtHand DEF Typed, Placed
<1>2. CASE /\ tree'[t] = tree[t] /\ backup'[t] = backup[t]
           /\ t # T \/ cmd.pc # "move" \/ PipelineDies \/ BatchDies
  BY <1>1, <1>2 DEF Available, InPlace, Moving
<1>3. CASE /\ t = T /\ cmd.pc = "aside" /\ cmd'.pc = "move" /\ T' = T /\ cmd'.aside = tree[t]
           /\ tree'[t] = 0 /\ backup'[t] = backup[t] \cup ({tree[t]} \ {0})
  BY <1>1, <1>3 DEF Available, InPlace, Moving
<1>4. CASE /\ t = T /\ cmd.pc = "move" /\ tree'[t] \in {cmd.run, cmd.aside} /\ cmd.run # 0
           /\ backup'[t] = backup[t] \ {cmd.aside}
  <2>1. CASE cmd.aside # 0
    BY <1>4, <2>1 DEF Available, InPlace
  <2>2. CASE cmd.aside = 0
    <3>1. backup'[t] = backup[t]
      BY <1>1, <1>4, <2>2
    <3> QED BY <1>1, <1>4, <2>2, <3>1 DEF Available, InPlace, Moving
  <2> QED BY <2>1, <2>2
<1> QED BY <1>2, <1>3, <1>4, TreeSteps

\* Diagnostics, once published, are never lost: they stay at their place, but for a
\* kill between the two renames, and then they lie aside.
THEOREM PublishedStays == PipelineSpec => PublishedKept
<1>1. Sound /\ [PipelineNext]_pipelineVars =>
        [\A t \in Task : /\ Available(t) => Available(t)'
                         /\ InPlace(t) => InPlace(t)' \/ (Moving /\ (PipelineDies \/ BatchDies))]_pipelineVars
  BY AvailableKept DEF Sound
<1> QED BY <1>1, AlwaysSound, PTL DEF PipelineSpec, PublishedKept

=============================================================================
