----------------------------- MODULE MCPostTask -----------------------------
(* The requests of post_task.cfg: the plain one, and one for each way in   *)
(* which a caller or a configuration can differ from it.                   *)
EXTENDS PostTask

CONSTANTS t1, t2

MCCallers ==
    {Plain,
     [Plain EXCEPT !.selected = {t1}],
     [Plain EXCEPT !.argv = "injected"],
     [Plain EXCEPT !.argv = "installer"],
     [Plain EXCEPT !.argv = "shell"],
     [Plain EXCEPT !.argv = "mutating"],
     [Plain EXCEPT !.integration.forbidden = {"injected"}],
     [Plain EXCEPT !.integration.tracked_empty = FALSE],
     [Plain EXCEPT !.probe = FALSE],
     [Plain EXCEPT !.separate = FALSE],
     [Plain EXCEPT !.releasing = FALSE],
     [Plain EXCEPT !.policy.names = {}],
     [Plain EXCEPT !.policy.names = {}, !.loaded = FALSE],
     [Plain EXCEPT !.policy.mutating = {"lint"}],
     [Plain EXCEPT !.approved = FALSE],
     [Plain EXCEPT !.commit = FALSE]}
=============================================================================
