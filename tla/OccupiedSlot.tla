---------------------------- MODULE OccupiedSlot ----------------------------
(***************************************************************************)
(* What the owner of a GPU slot is promised: the slot is taken by one      *)
(* attempt at a time, only the attempt that has it runs anything on the    *)
(* GPU, and it is given up only when nothing runs there any more.          *)
(***************************************************************************)
CONSTANT Attempt

VARIABLES
  holder,       \* {}, or {a} while attempt a has the slot
  busy          \* the attempts with a process on the GPU

slotvars == <<holder, busy>>

Init == holder = {} /\ busy = {}

Take(a) ==
  /\ holder = {}
  /\ holder' = {a}
  /\ UNCHANGED busy

Start(a) ==
  /\ holder = {a}
  /\ busy' = busy \cup {a}
  /\ UNCHANGED holder

Stop(a) ==
  /\ busy' = busy \ {a}
  /\ UNCHANGED holder

Release ==
  /\ busy = {}
  /\ holder' = {}
  /\ UNCHANGED busy

Next == Release \/ \E a \in Attempt : Take(a) \/ Start(a) \/ Stop(a)

Spec == Init /\ [][Next]_slotvars
=============================================================================
