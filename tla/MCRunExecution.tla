--------------------------- MODULE MCRunExecution ---------------------------
(* Plans for RunExecution: the constants that are functions.                *)
EXTENDS RunExecution, TLC

CONSTANTS base, lib, old, new, app

AnyRunner == Permutations(Runner)

(* new replaces old.                                                        *)
Replacement == [t \in Task |-> IF t = old THEN new ELSE NoTask]

(* Written in the wrong order; app was written against old and comes after  *)
(* new because lib does.                                                    *)
Backwards == app :> 1 @@ lib :> 2 @@ new :> 3 @@ old :> 4 @@ base :> 5
Layers    == app :> {lib, old} @@ lib :> {new, base} @@ new :> {base}
             @@ old :> {} @@ base :> {}

(* The retired task has a prerequisite that app needs as well.              *)
Shared    == [t \in Task |-> CASE t = app -> {lib, old}
                               [] t = old -> {lib}
                               [] OTHER   -> {}]

(* Nothing but the retired task stands between app and new.                 *)
Direct    == [t \in Task |-> IF t = app THEN {old} ELSE {}]

(* lib is tried twice and amended once.                                     *)
LibTwice  == [t \in Task |-> IF t = lib THEN 2 ELSE 1]
LibOnce   == [t \in Task |-> IF t = lib THEN 1 ELSE 0]
=============================================================================
