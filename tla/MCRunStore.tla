----------------------------- MODULE MCRunStore -----------------------------
(* Instances of RunStore for TLC: one run, created or left by an earlier   *)
(* version, and clients that may each commit to its first revision.        *)
EXTENDS RunStore, TLC

Revisions == <<1>>

LeftBy(v, d, f, l) ==
    [FreshState EXCEPT !.version = v, !.defect = d, !.foreign = f, !.status = l,
                       !.artifacts = [k \in Entries |->
                           IF k \in Keys THEN CHOOSE n \in Logs : TRUE ELSE None]]

(* A document of schema 2 with fields schema 3 does not know, and two that *)
(* are damaged; each has a file registered under a report's key.           *)
Documents ==
    {LeftBy(2, "none", TRUE, "verified"), LeftBy(2, "field", FALSE, "verified"),
     LeftBy(3, "nested", TRUE, "running")}

(* One that is taken, and two that are refused.                            *)
Calls == {<<"done", "cancelled", TRUE>>, <<"done", "cancelled", FALSE>>, <<"done", None, TRUE>>}

(* Clients are interchangeable.                                             *)
AnyClient == Permutations(Clients)
=============================================================================
