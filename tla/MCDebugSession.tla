--------------------------- MODULE MCDebugSession ---------------------------
(* Instances of DebugSession for TLC. *)
EXTENDS DebugSession, TLC

HandlerSymmetry == Permutations(Handlers)
=============================================================================
