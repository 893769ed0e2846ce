----------------------------- MODULE MCCommandLink -----------------------------
(***************************************************************************)
(* Instances of CommandLink for TLC.                                       *)
(***************************************************************************)
EXTENDS CommandLink, TLC

(* The callers run the same code: no property tells them apart.            *)
CallerSymmetry == Permutations(Callers)
================================================================================
