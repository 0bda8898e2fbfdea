---------------------------- MODULE MCFileLease ----------------------------
(* Instances of FileLease for TLC: the cfg files give two or three PIDs.     *)
EXTENDS FileLease, TLC

(* PIDs are interchangeable; only used where no liveness is checked.         *)
AnyPid == Permutations(Proc)
===========================================================================
