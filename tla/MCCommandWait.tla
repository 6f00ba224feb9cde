--------------------------- MODULE MCCommandWait ---------------------------
(* Instances of CommandWait for TLC. *)
EXTENDS CommandWait, TLC
=============================================================================
