-------------------------- MODULE FencedPublication --------------------------
(***************************************************************************)
(* What the lease queue of BatchController promises to whoever reads the   *)
(* published results: every attempt gets authority over its stage at most  *)
(* while nobody else has it, an attempt publishes only with authority, and *)
(* a published or ended attempt is never opened again.  How leases, tokens *)
(* and journals achieve this is LeaseScheduler's business.                 *)
(***************************************************************************)
CONSTANTS
  Attempt,      \* the attempts
  Rivals        \* Rivals[a]: the attempts that work on the same stage as a

VARIABLES
  holders,      \* the attempts that may write
  outcome       \* "new", "open", "published" or "ended"

absvars == <<holders, outcome>>

Init ==
  /\ holders = {}
  /\ outcome = [a \in Attempt |-> "new"]

\* The first grant, or another one after the authority was taken away.
Grant(a) ==
  /\ outcome[a] \in {"new", "open"}
  /\ holders \cap Rivals[a] = {}
  /\ holders' = holders \cup {a}
  /\ outcome' = [outcome EXCEPT ![a] = "open"]

Publish(a) ==
  /\ a \in holders
  /\ outcome[a] = "open"
  /\ holders' = holders \ {a}
  /\ outcome' = [outcome EXCEPT ![a] = "published"]

\* The attempt is over; whoever holds its stage may lose the authority too.
End(a) ==
  /\ outcome[a] \in {"open", "ended"}
  /\ holders' \in {holders \ {a}, holders \ Rivals[a]}
  /\ outcome' = [outcome EXCEPT ![a] = "ended"]

Revoke ==
  /\ holders' \in SUBSET holders
  /\ UNCHANGED outcome

Next == Revoke \/ \E a \in Attempt : Grant(a) \/ Publish(a) \/ End(a)

Spec == Init /\ [][Next]_absvars
=============================================================================
