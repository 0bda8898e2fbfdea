---------------------------- MODULE TaskProgress ----------------------------
(***************************************************************************)
(* What run.json promises about one task, whoever writes it: the product   *)
(* status moves only forward, two PASS verdicts and nothing else complete  *)
(* it, a repair attempt is the price of a FAIL that no BLOCKED excuses,    *)
(* and only an amendment gives attempts back (pipeline_core/state.py,      *)
(* TASK_TRANSITIONS, record_verdicts, begin_repair, apply_amendment).      *)
(***************************************************************************)
EXTENDS Naturals

CONSTANT MaxRepair    \* TaskSpec.max_repair_attempts

VARIABLES status, verdicts, attempts, revision

pvars == <<status, verdicts, attempts, revision>>

Tokens == {"PASS", "FAIL", "BLOCKED"}

NoVerdicts == [task |-> "none", test |-> "none"]

(* combine_verdict_status: only two PASS verdicts complete work.           *)
Passed(v)  == v.task = "PASS" /\ v.test = "PASS"
Blocked(v) == v.task = "BLOCKED" \/ v.test = "BLOCKED"
Failed(v)  == ~Passed(v) /\ ~Blocked(v) /\ v # NoVerdicts

Init ==
    /\ status = "to_do"
    /\ verdicts = NoVerdicts
    /\ attempts = 0
    /\ revision = 0

Start ==
    /\ status = "to_do"
    /\ status' = "in_progress"
    /\ UNCHANGED <<verdicts, attempts, revision>>

RecordVerdicts ==
    /\ status = "in_progress"
    /\ verdicts' \in [task : Tokens, test : Tokens]
    /\ status' = IF Passed(verdicts') THEN "done" ELSE "in_progress"
    /\ UNCHANGED <<attempts, revision>>

BeginRepair ==
    /\ status = "in_progress"
    /\ Failed(verdicts)
    /\ attempts < MaxRepair
    /\ attempts' = attempts + 1
    /\ UNCHANGED <<status, verdicts, revision>>

Amend ==
    /\ status # "done"
    /\ revision' = revision + 1
    /\ attempts' = 0
    /\ verdicts' = NoVerdicts
    /\ UNCHANGED status

Next == Start \/ RecordVerdicts \/ BeginRepair \/ Amend

Spec == Init /\ [][Next]_pvars
=============================================================================
