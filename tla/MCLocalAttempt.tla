--------------------------- MODULE MCLocalAttempt ---------------------------
(* LocalAttempt for TLC: a stage of two attempts on both platforms. *)
EXTENDS LocalAttempt

MCMaxAttempts == 2
BothPlatforms == {"windows", "wsl"}
Windows == {"windows"}
Wsl == {"wsl"}
Nowhere == {}
=============================================================================
