----------------------------- MODULE MCBatchRun -----------------------------
(***************************************************************************)
(* Instances of BatchRun for TLC: which attempts the stages have.          *)
(***************************************************************************)
EXTENDS BatchRun

CONSTANTS t1, t2

\* Five stages: picture, gate, one remote stage, unity_eval6, evaluate_absolute.
\* unity_eval6 has two attempts; an operator may ask for a second picture of t1
\* and for a second attempt of the remote stage of t2.
Attempts  == [s \in Stage |-> IF s = Evaluate - 1 THEN 2 ELSE 1]
OneMore   == [i \in Item |-> IF i \in {<<t1, Gate - 1>>, <<t2, Gate + 1>>} THEN 2 ELSE Attempts[i[2]]]
Mishaps   == [s \in Stage |-> {"ok"} \cup CASE s \in Remote       -> {"terminal", "unknown"}
                                          [] s = Evaluate - 1  -> {"later"}
                                          [] s = Gate - 1      -> {"unknown"}
                                          [] OTHER             -> {}]

\* Nothing goes wrong, ...
Smooth    == [s \in Stage |-> {"ok"}]
\* ... or only the remote stages fail, and may be tried twice.
Stumbling == [s \in Stage |-> IF s \in Evidence THEN {"terminal"} ELSE {"ok"}]
Single    == [s \in Stage |-> 1]
Once      == [i \in Item |-> 1]
Twice     == [i \in Item |-> 2]

\* The bundle may fail too; the remote stage of t2 may be tried three times and its
\* bundle twice.
BundleToo == [s \in Stage |-> CASE s \in Evidence -> {"ok", "terminal", "unknown"}
                                [] s = Debug     -> {"ok", "terminal"}
                                [] OTHER         -> {"ok"}]
Patient   == [i \in Item |-> CASE i = <<t2, Gate + 1>> -> 3 [] i = <<t2, Debug>> -> 2 [] OTHER -> 1]
=============================================================================
