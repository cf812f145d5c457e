----------------------------- MODULE ImageQueue -----------------------------
(***************************************************************************)
(* Paid requests to the image API: AdaptiveImageQueue (apiyi.py) and the   *)
(* executor that goes through it (LocalStageExecutor._execute_image).      *)
(*                                                                         *)
(* The limit of concurrent requests of a token and a model is a row of the *)
(* database; the requests in flight are counted by a gate in the memory of *)
(* the one process that owns the row.  A call is one attempt at one image: *)
(* it waits for a slot, sends its request, records what came of it in the  *)
(* row, gives the slot back, and reports to the scheduler.  The API has no *)
(* request ids: once a connection is gone nobody can ask what became of a  *)
(* request, and it may be billed all the same.                             *)
(*                                                                         *)
(* Of the scheduler only this is left: an image is leased to one call at a *)
(* time, fail() decides what becomes of it, and a lease can be lost at any *)
(* moment.  What an operator does afterwards is ImageEdit's.               *)
(***************************************************************************)
EXTENDS Integers, FiniteSets

CONSTANTS
  Process,      \* worker processes
  Image,        \* candidate images to be generated
  Tries,        \* bound: max_attempts, calls made for one image
  Limits,       \* the imageApi settings a manifest may have
  Window,       \* clean_window: successes in a row before the limit grows
  LeaseLoss,    \* can a lease be lost while its call runs?
  StoreFaults,  \* may a transaction of the call fail with a database error?
  CutAnswers    \* may an answer end in the middle of its body?

ASSUME QueueAssumption ==
  /\ IsFiniteSet(Image)
  /\ {Tries, Window} \subseteq Nat \ {0}
  /\ Limits \subseteq [mode : {"fixed", "adaptive"}, initial : Nat \ {0}, maximum : Nat \ {0}]
  /\ \A l \in Limits : l.initial <= l.maximum
  /\ {LeaseLoss, StoreFaults, CutAnswers} \subseteq BOOLEAN

VARIABLES
  alive,        \* the processes that run
  owner,        \* the running process named by the row of api_bucket_owners
  queue,        \* the mode of the queue object of each process
  inFlight,     \* the gate of each process
  bucket,       \* the row of api_buckets, limit = 0 while there is none
  image,        \* what the scheduler knows of each image
  call,         \* where each call is, in which process, with which outcome
  upstream      \* what the API did with the request of each call

vars == <<alive, owner, queue, inFlight, bucket, image, call, upstream>>

-----------------------------------------------------------------------------
Call    == Image \X (1..Tries)
Outcome == {"none", "succeeded", "http_429", "http_503", "terminal", "transient", "stalled",
            "delivery_unknown", "worker_crash"}

NoCall   == [pc |-> "idle", at |-> {}, outcome |-> "none", leased |-> FALSE]
CallType == [pc : {"idle", "open", "wait", "slot", "send", "sent", "record", "return", "report", "over"},
             at : SUBSET Process, outcome : Outcome, leased : BOOLEAN]
Over     == [NoCall EXCEPT !.pc = "over"]
NoBucket == [limit |-> 0, maximum |-> 0, clean |-> 0, cooling |-> FALSE]

\* The calls that have taken a slot of their process and not given it back.
Slotted == {"slot", "send", "sent", "record", "return"}
Of(p)      == {c \in Call : call[c].at = {p}}
Holding(p) == {c \in Of(p) : call[c].pc \in Slotted}

TypeOK ==
  /\ alive \subseteq Process
  /\ owner \in {{}} \cup {{p} : p \in alive}
  /\ queue \in [Process -> {"none", "fixed", "adaptive"}]
  /\ inFlight \in [Process -> Nat]
  /\ bucket \in [limit : Nat, maximum : Nat, clean : Nat, cooling : BOOLEAN]
  /\ bucket # NoBucket => bucket.limit \in 1..bucket.maximum
  /\ image \in [Image -> {"ready", "leased", "done", "failed", "manual", "lost"}]
  /\ call \in [Call -> CallType]
  /\ upstream \in [Call -> {"none", "working", "done", "refused"}]

Init ==
  /\ alive = Process
  /\ owner = {}
  /\ queue = [p \in Process |-> "none"]
  /\ inFlight = [p \in Process |-> 0]
  /\ bucket = NoBucket
  /\ image = [i \in Image |-> "ready"]
  /\ call = [c \in Call |-> NoCall]
  /\ upstream = [c \in Call |-> "none"]

-----------------------------------------------------------------------------
At(c, pc)   == call[c].pc = pc
Goes(c, pc) == call' = [call EXCEPT ![c].pc = pc]
\* The call ends with this outcome: it records it in the row, or it has nothing
\* to record because it raised or never had a slot.
Records(c, o) == call' = [call EXCEPT ![c].pc = "record", ![c].outcome = o]
EndsWith(c, o) == call' = [call EXCEPT ![c].pc = "report", ![c].outcome = o]

\* A heartbeat raises LeaseFencedError, or any other StoreError.
HeartbeatFails(c) == ~call[c].leased \/ StoreFaults

-----------------------------------------------------------------------------
(* The scheduler and the processes.                                        *)

\* lease_next, for the next try of an image.
Lease(p, i, n) ==
  /\ p \in alive
  /\ image[i] = "ready"
  /\ At(<<i, n>>, "idle")
  /\ \A m \in 1..(n - 1) : ~At(<<i, m>>, "idle")
  /\ image' = [image EXCEPT ![i] = "leased"]
  /\ call' = [call EXCEPT ![<<i, n>>] = [NoCall EXCEPT !.pc = "open", !.at = {p}, !.leased = TRUE]]
  /\ UNCHANGED <<alive, owner, queue, inFlight, bucket, upstream>>

\* The lease runs out or a command revokes it; the call finds out at its next
\* heartbeat.  recover_expired leaves the candidate as it is.
LoseLease(c) ==
  /\ LeaseLoss
  /\ call[c].leased
  /\ call' = [call EXCEPT ![c].leased = FALSE]
  /\ image' = [image EXCEPT ![c[1]] = "lost"]
  /\ UNCHANGED <<alive, owner, queue, inFlight, bucket, upstream>>

\* A process dies with its gate and its calls; the API goes on with what was sent.
Dies(p) ==
  /\ LeaseLoss
  /\ p \in alive
  /\ alive' = alive \ {p}
  /\ owner' = owner \ {p}
  /\ queue' = [queue EXCEPT ![p] = "none"]
  /\ inFlight' = [inFlight EXCEPT ![p] = 0]
  /\ image' = [i \in Image |-> IF \E c \in Of(p) : c[1] = i /\ call[c].leased THEN "lost" ELSE image[i]]
  /\ call' = [c \in Call |-> IF c \in Of(p) THEN Over ELSE call[c]]
  /\ UNCHANGED <<bucket, upstream>>

Starts(p) ==
  /\ p \notin alive
  /\ alive' = alive \cup {p}
  /\ UNCHANGED <<owner, queue, inFlight, bucket, image, call, upstream>>

-----------------------------------------------------------------------------
(* _image_queue and AdaptiveImageQueue.__init__: the first call of a       *)
(* process opens the queue, and later ones find it open.                   *)

\* Mutant of Foreign: the row of the owner is simply overwritten.
ForeignNever(p) == FALSE
\* The row names another process, and that process runs.
Foreign(p) == owner \ {p} # {}

Opens(c, p, l) ==
  /\ At(c, "open") /\ call[c].at = {p}
  /\ IF queue[p] # "none"
     THEN Goes(c, "wait") /\ UNCHANGED <<owner, queue, bucket>>
     ELSE IF Foreign(p)
     THEN EndsWith(c, "worker_crash") /\ UNCHANGED <<owner, queue, bucket>>   \* ConcurrentControllerError
     ELSE /\ Goes(c, "wait")
          /\ owner' = {p}
          /\ queue' = [queue EXCEPT ![p] = l.mode]
          \* ON CONFLICT DO NOTHING: the first settings stay.
          /\ bucket' = IF bucket # NoBucket THEN bucket
                       ELSE [NoBucket EXCEPT !.limit = l.initial, !.maximum = l.maximum]
  /\ UNCHANGED <<alive, inFlight, image, upstream>>

-----------------------------------------------------------------------------
(* _acquire_image_slot.  Nobody else changes the gate while acquire holds  *)
(* its lock, and the row does not depend on the gate, so reading the row   *)
(* and counting up is one step.                                            *)

\* Mutant of Free: one slot too many.
FreeOneMore(p) == ~bucket.cooling /\ inFlight[p] <= bucket.limit
Free(p) == ~bucket.cooling /\ inFlight[p] < bucket.limit

Acquires(c, p) ==
  /\ At(c, "wait") /\ call[c].at = {p}
  /\ Free(p)
  /\ inFlight' = [inFlight EXCEPT ![p] = @ + 1]
  /\ Goes(c, "slot")
  /\ UNCHANGED <<alive, owner, queue, bucket, image, upstream>>

\* The time of the stage is over, or a heartbeat between two waits raised.
StopsWaiting(c) ==
  /\ At(c, "wait")
  /\ \/ EndsWith(c, "stalled")
     \/ HeartbeatFails(c) /\ EndsWith(c, "worker_crash")
  /\ UNCHANGED <<alive, owner, queue, inFlight, bucket, image, upstream>>

\* The heartbeat before the request is outside the try block: when it raises,
\* nobody releases the slot.
Begins(c) ==
  /\ At(c, "slot")
  /\ \/ call[c].leased /\ Goes(c, "send")
     \/ HeartbeatFails(c) /\ EndsWith(c, "worker_crash")
  /\ UNCHANGED <<alive, owner, queue, inFlight, bucket, image, upstream>>

-----------------------------------------------------------------------------
(* The request: ImageApiClient.post_json and classify_http.                *)

\* The API takes the request, or refuses it, or is not reached.  A status of 500
\* and more is taken for a refusal, as classify_http takes it.
Sends(c) ==
  /\ At(c, "send")
  /\ \/ /\ upstream' = [upstream EXCEPT ![c] = "working"]
        /\ Goes(c, "sent")
     \/ /\ upstream' = [upstream EXCEPT ![c] = "refused"]
        /\ \E o \in {"http_429", "http_503", "terminal"} : Records(c, o)
     \/ /\ Records(c, "transient")
        /\ UNCHANGED upstream
  /\ UNCHANGED <<alive, owner, queue, inFlight, bucket, image>>

Generates(c) ==
  /\ upstream[c] = "working"
  /\ upstream' = [upstream EXCEPT ![c] = "done"]
  /\ UNCHANGED <<alive, owner, queue, inFlight, bucket, image, call>>

\* Mutant of Unanswered: no answer counts as a network error.
UnansweredTransient == "transient"
\* What a timeout or a broken connection is classified as.
Unanswered == "delivery_unknown"

\* The answer arrives, with or without a usable image; or the connection is
\* lost, whatever the API does.  A heartbeat that raised meanwhile, or an answer
\* cut off in its body (IncompleteRead is no OSError), surfaces as an exception
\* of the adapter; the executor waits for the request to end all the same.
Answered(c) ==
  /\ At(c, "sent")
  /\ \/ upstream[c] = "done" /\ \E o \in {"succeeded", "terminal"} : Records(c, o)
     \/ upstream[c] = "done" /\ CutAnswers /\ Records(c, "worker_crash")
     \/ Records(c, Unanswered)
     \/ HeartbeatFails(c) /\ Records(c, "worker_crash")
  /\ UNCHANGED <<alive, owner, queue, inFlight, bucket, image, upstream>>

-----------------------------------------------------------------------------
(* release: first the row, in a transaction, and then the gate.            *)

\* Mutant of Halved: max(1, ...) is forgotten.
HalvedToZero(limit) == limit \div 2
Halved(limit) == IF limit = 1 THEN 1 ELSE limit \div 2

Adapted(b, o, mode) ==
  CASE o = "http_429" -> [b EXCEPT !.limit = Halved(b.limit), !.clean = 0, !.cooling = TRUE]
    [] o = "http_503" -> [b EXCEPT !.clean = 0, !.cooling = TRUE]
    [] o = "succeeded" /\ mode = "adaptive" ->
         IF b.clean + 1 >= Window /\ b.limit < b.maximum
         THEN [b EXCEPT !.limit = @ + 1, !.clean = 0]
         ELSE [b EXCEPT !.clean = @ + 1]
    [] OTHER -> [b EXCEPT !.clean = 0]

RecordsOutcome(c, p) ==
  /\ At(c, "record") /\ call[c].at = {p}
  /\ \/ /\ bucket' = Adapted(bucket, call[c].outcome, queue[p])
        /\ Goes(c, "return")
     \/ /\ StoreFaults
        /\ EndsWith(c, "worker_crash")
        /\ UNCHANGED bucket
  /\ UNCHANGED <<alive, owner, queue, inFlight, image, upstream>>

\* An image that came is then written to the staging directory, with one more
\* heartbeat, which may raise like the others.
ReturnsSlot(c, p) ==
  /\ At(c, "return") /\ call[c].at = {p}
  /\ inFlight' = [inFlight EXCEPT ![p] = IF @ = 0 THEN 0 ELSE @ - 1]
  /\ \/ Goes(c, "report")
     \/ call[c].outcome = "succeeded" /\ HeartbeatFails(c) /\ EndsWith(c, "worker_crash")
  /\ UNCHANGED <<alive, owner, queue, bucket, image, upstream>>

Cools ==
  /\ bucket.cooling
  /\ bucket' = [bucket EXCEPT !.cooling = FALSE]
  /\ UNCHANGED <<alive, owner, queue, inFlight, image, call, upstream>>

-----------------------------------------------------------------------------
(* The worker submits the outcome; without a lease it is refused.          *)

Retryable == {"http_429", "http_503", "transient", "stalled", "worker_crash"}

Becomes(c) ==
  LET o == call[c].outcome
  IN  CASE o = "succeeded"                       -> "done"
        [] o = "delivery_unknown"                -> "manual"
        [] o \in Retryable /\ c[2] < Tries       -> "ready"
        [] OTHER                                 -> "failed"

Reports(c) ==
  /\ At(c, "report")
  /\ image' = IF call[c].leased THEN [image EXCEPT ![c[1]] = Becomes(c)] ELSE image
  /\ call' = [call EXCEPT ![c] = Over]
  /\ UNCHANGED <<alive, owner, queue, inFlight, bucket, upstream>>

-----------------------------------------------------------------------------
Next ==
  \/ \E p \in Process :
       \/ Dies(p) \/ Starts(p)
       \/ \E i \in Image, n \in 1..Tries : Lease(p, i, n)
       \/ \E c \in Call :
            \/ \E l \in Limits : Opens(c, p, l)
            \/ Acquires(c, p) \/ RecordsOutcome(c, p) \/ ReturnsSlot(c, p)
  \/ \E c \in Call :
       \/ LoseLease(c) \/ StopsWaiting(c) \/ Begins(c) \/ Sends(c) \/ Generates(c)
       \/ Answered(c) \/ Reports(c)
  \/ Cools

Spec == Init /\ [][Next]_vars

-----------------------------------------------------------------------------
(* Properties.                                                             *)

\* Two running processes never both send through the bucket, so the gate in
\* memory counts all the requests there are; a dead owner is replaced.
OneController ==
  \A p, q \in alive : queue[p] # "none" /\ queue[q] # "none" => p = q

\* The requests a process has open never exceed what the row allows at most,
\* however the limit moved, processes died and settings changed meanwhile.
WithinQuota == \A p \in Process : Cardinality(Holding(p)) <= bucket.maximum

\* No image is asked for again while an earlier request for it may have been
\* taken, and billed, by the API.
Billed(c)  == upstream[c] \in {"working", "done"}
BilledOnce == \A c, d \in Call : c[1] = d[1] /\ Billed(c) /\ Billed(d) => c = d

\* What is left of it when transactions may fail and answers may be cut: an image
\* goes back to the queue only with the report of the call that has its lease, and
\* a request that may be billed leads there only as a crash of its worker, after
\* such a fault; refusals, lost connections and lost leases never do (fail()).
CrashRepeats(c) == call[c].outcome = "worker_crash" /\ (StoreFaults \/ CutAnswers)
ReportedBack(i) ==
  \E c \in Call : /\ c[1] = i /\ At(c, "report") /\ call[c].leased
                 /\ Billed(c) => CrashRepeats(c)
RepeatedAsCrash == [][\A i \in Image : image[i] # "ready" /\ image'[i] = "ready" => ReportedBack(i)]_vars

\* When no call of a process holds a slot its gate is empty again.
SlotsReturned == \A p \in alive : Holding(p) = {} => inFlight[p] = 0

\* The API never works on more requests than the row allows.
UpstreamWithinQuota ==
  bucket # NoBucket => Cardinality({c \in Call : upstream[c] = "working"}) <= bucket.maximum

\* Where nothing crashes, no lease is lost and no answer cut, no image is given
\* up because of a crash of its worker.
NoCrashNoLoss ==
  [][\A c \in Call : At(c, "report") /\ call[c].outcome = "worker_crash"
                      => (image[c[1]] = "leased" => image'[c[1]] # "failed")]_vars
=============================================================================
