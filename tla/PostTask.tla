------------------------------ MODULE PostTask ------------------------------
(***************************************************************************)
(* The post-task lifecycle (pipeline_core/post_task.py with release.py,    *)
(* stages.py and integrations.py): stages 10 to 16 of a run, driven in     *)
(* order after its tasks are done.  A stage's verdict is flushed to        *)
(* run.json when it is known, so a caller that crashed calls again and     *)
(* enters at the first stage without a recorded PASS - except stages 13,   *)
(* 15 and 16, which every call computes afresh.                            *)
(*                                                                         *)
(* Between calls people work: they reopen tasks, clean the tree, approve   *)
(* the diff or not.  One caller drives a run at a time.                    *)
(***************************************************************************)
EXTENDS Naturals, FiniteSets

CONSTANTS Task,        \* the tasks of the run
          MaxCalls,    \* bound: invocations of the lifecycle
          MaxRev       \* bound: revisions of the code and of the documents

ASSUME PostTaskAssumption == MaxCalls \in Nat /\ MaxRev \in Nat

Idle == 0
Stages == 10..16                     \* documentation ... release
Verdicts == {"PASS", "FAIL", "BLOCKED"}
NoVerdict == "none"

(* Tracked changes, by where git status reports them.                      *)
Lines == {"workspace", "elsewhere"}

(* How a command ended: EXIT_NOT_FOUND and EXIT_TIMEOUT are "absent".      *)
Exits == {"ok", "failed", "absent", "unlaunched"}

(* What the caller may hand over as the Graphify command.                  *)
Argvs == {"wrapper", "injected", "installer", "mutating", "shell"}

(* integrations.json: the commands it forbids, and its diff_policy.  An    *)
(* entry that is no 'graphify ... install' command is refused.             *)
Integrations == [forbidden : SUBSET Argvs, tracked_empty : BOOLEAN]
IntegrationLoads(i) == i.forbidden \subseteq {"installer"}
Forbids(i, argv) == argv = "installer" \/ argv \in i.forbidden

(* release.json and the checks.json beside it: the names of the final      *)
(* verification, each of which must be a check that mutates nothing.       *)
Check == {"lint", "tests"}
Releases == [names : SUBSET Check, checks : SUBSET Check, mutating : SUBSET Check]
ReleaseLoads(p) ==
    p.names # {} /\ p.names \subseteq p.checks /\ p.names \cap p.mutating = {}

(* What a caller passes; _validate_request refuses an empty selection, an  *)
(* untracked task and an unknown wrapper before anything is recorded.      *)
Requests == [selected    : SUBSET Task \ {{}},
             integration : Integrations,
             argv        : Argvs,
             probe       : BOOLEAN,     \* a tracked_changes probe was given
             separate    : BOOLEAN,     \* the auditor is not the documenter
             releasing   : BOOLEAN,     \* a release_policy was given
             policy      : Releases,
             loaded      : BOOLEAN,     \* it comes from release.json
             approved    : BOOLEAN,     \* final_diff_approved
             commit      : BOOLEAN]     \* commit_control

Plain == [selected |-> Task, argv |-> "wrapper", probe |-> TRUE, separate |-> TRUE,
          integration |-> [forbidden |-> {"installer"}, tracked_empty |-> TRUE],
          policy |-> [names |-> Check, checks |-> Check, mutating |-> {}],
          releasing |-> TRUE, loaded |-> TRUE, approved |-> TRUE, commit |-> TRUE]

CONSTANT Callers                        \* the requests that are made
ASSUME CallersAssumption == Callers \subseteq Requests /\ Plain \in Callers

VARIABLES done,        \* tasks whose status in run.json is done
          stages,      \* verdict recorded per stage in run.json
          code,        \* revision of the code in the tree
          docs,        \* revision of the documentation in the tree
          outputs,     \* every configured Graphify output is present
          dirty,       \* tracked changes git status reports
          pc,          \* the stage the caller is at, or Idle
          pending,     \* the verdict it computed and has not recorded
          req,         \* the request of the current or last call
          outcome,     \* what that call returned
          calls,
          fresh,       \* history: stages the current or last call recorded
          verified     \* history: the code final verification last passed on

run == <<done, stages>>
tree == <<code, docs, outputs, dirty>>
caller == <<pc, pending, req, outcome, calls>>
history == <<fresh, verified>>
vars == <<done, stages, code, docs, outputs, dirty, pc, pending, req, outcome,
          calls, fresh, verified>>

NoOutcome == [status |-> "none", would_commit |-> FALSE]

Init ==
    /\ done = Task
    /\ stages = [s \in Stages |-> NoVerdict]
    /\ code = 0 /\ docs = 0
    /\ outputs = FALSE /\ dirty = {}
    /\ pc = Idle /\ pending = NoVerdict
    /\ req = Plain /\ outcome = NoOutcome /\ calls = 0
    /\ fresh = {} /\ verified = {}

(* Mutant: any recorded verdict will do.                                   *)
RecordedAtAll(s) == stages[s] # NoVerdict

Recorded(s) == stages[s] = "PASS"

(* Mutants: the approval is taken over as well; the audit is not.          *)
ReusesApproval == {10, 11, 12, 14, 15}
AuditsAgain == {10, 12, 14}

(* A stage whose recorded PASS is taken over by a later call.              *)
Reusable == {10, 11, 12, 14}

Finish(status, would) ==
    /\ pc' = Idle
    /\ outcome' = [status |-> status, would_commit |-> would]

(* An exception leaves the call with nothing recorded for the stage.       *)
Raise ==
    /\ Finish("error", FALSE)
    /\ UNCHANGED <<run, tree, pending, history>>

-----------------------------------------------------------------------------
(* A configuration that does not load is refused before the lifecycle.     *)
Loads(r) == IntegrationLoads(r.integration) /\ (r.releasing /\ r.loaded => ReleaseLoads(r.policy))

ConfigError(r) ==
    /\ pc = Idle /\ calls < MaxCalls /\ ~Loads(r)
    /\ calls' = calls + 1 /\ req' = r
    /\ Raise

(* run_post_task_lifecycle up to the stage-10 guard: documentation is out  *)
(* of reach while a selected task is not done, and that verdict is         *)
(* recorded over whatever the stage had.                                   *)
Call(r) ==
    /\ pc = Idle /\ calls < MaxCalls /\ Loads(r)
    /\ calls' = calls + 1
    /\ req' = r
    /\ IF r.selected \subseteq done
       THEN /\ pc' = 10 /\ outcome' = NoOutcome
            /\ fresh' = {}
            /\ UNCHANGED stages
       ELSE /\ stages' = [stages EXCEPT ![10] = "BLOCKED"]
            /\ fresh' = {10}
            /\ Finish("gate-pending", FALSE)
    /\ UNCHANGED <<done, tree, pending, verified>>

(* A stage already recorded PASS is not run again.                         *)
Reuse ==
    /\ pc \in Reusable /\ pending = NoVerdict /\ Recorded(pc)
    /\ pc = 11 => req.separate
    /\ pc' = pc + 1
    /\ UNCHANGED <<run, tree, pending, req, outcome, calls, history>>

At(s) == pc = s /\ pending = NoVerdict /\ (s \in Reusable => ~Recorded(s))

Judge(v) == pending' = v /\ UNCHANGED <<pc, req, outcome, calls, done, stages, fresh>>

(* Stage 10: the documentation context writes, whether it completes or not.*)
Document ==
    /\ At(10)
    /\ docs' \in {d \in docs..docs + 1 : d <= MaxRev}
    /\ \E v \in {"PASS", "BLOCKED"} : Judge(v)
    /\ UNCHANGED <<code, outputs, dirty, verified>>

(* Stage 11: an audit by the documenter itself is refused, also when the   *)
(* stage is recorded PASS; a verdict it does not know raises.              *)
AuditNotIndependent ==
    pc = 11 /\ pending = NoVerdict /\ ~req.separate /\ Raise /\ UNCHANGED <<req, calls>>

Audit ==
    /\ At(11) /\ req.separate
    /\ \/ \E v \in Verdicts : Judge(v) /\ UNCHANGED <<tree, verified>>
       \/ Raise /\ UNCHANGED <<req, calls>>           \* unknown-verdict

(* A tracked-empty policy that nobody can check.                           *)
Unchecked == req.integration.tracked_empty /\ ~req.probe

(* Stage 12, the refusals of _run_graphify_refresh and run_tool_stage that *)
(* come before the command: an installer, a mutating verb, a shell token,  *)
(* an absent wrapper, an unchecked policy.                                 *)
RefuseRefresh ==
    /\ At(12)
    /\ \/ Forbids(req.integration, req.argv)
       \/ req.argv \in {"mutating", "shell"}
       \/ req.argv = "wrapper"                        \* build.sh is not there
       \/ Unchecked
    /\ Judge("BLOCKED")
    /\ UNCHANGED <<tree, verified>>

(* Stage 12: the command runs, makes the outputs or not, and may leave     *)
(* tracked changes; only those that were not there before count.           *)
RefreshVerdict(exit, present, new) ==
    IF exit = "absent" THEN "BLOCKED"
    ELSE IF exit # "ok" \/ ~present \/ (req.integration.tracked_empty /\ new # {})
         THEN "FAIL" ELSE "PASS"

Refresh ==
    /\ At(12)
    /\ ~Forbids(req.integration, req.argv) /\ req.argv \in {"wrapper", "injected"}
    /\ ~Unchecked
    /\ \E exit \in Exits :
          /\ IF exit = "unlaunched" THEN UNCHANGED <<outputs, dirty>>
             ELSE outputs' \in BOOLEAN /\ dirty' \in {d \in SUBSET Lines : dirty \subseteq d}
          /\ Judge(RefreshVerdict(exit, outputs', dirty' \ dirty))
    /\ UNCHANGED <<code, docs, verified>>

(* Stage 13: an independent look at the outputs and, under a tracked-empty *)
(* policy, at every tracked change inside the workspace, old ones too.     *)
(* (It also scans the recorded refresh commands for forbidden installers.  *)
(* RefuseRefresh lets none be recorded, and an entry no installer could    *)
(* match does not load, so that scan finds nothing here.)                  *)
GraphVerdict ==
    IF Unchecked THEN "BLOCKED"
    ELSE IF ~outputs \/ (req.integration.tracked_empty /\ "workspace" \in dirty)
         THEN "FAIL" ELSE "PASS"

VerifyGraph ==
    /\ At(13)
    /\ Judge(GraphVerdict)
    /\ UNCHANGED <<tree, verified>>

(* Stage 14: the declared commands run one after the other; one that could *)
(* not run outweighs one that failed.  They are taken to leave the Graphify*)
(* workspace alone.                                                        *)
CheckVerdict(names, exits) ==
    IF names = {} \/ \E c \in names : exits[c] \in {"absent", "unlaunched"} THEN "BLOCKED"
    ELSE IF \E c \in names : exits[c] = "failed" THEN "FAIL" ELSE "PASS"

FinalVerification ==
    /\ At(14)
    /\ \E exits \in [req.policy.names -> Exits] :
          LET v == IF Recorded(13) THEN CheckVerdict(req.policy.names, exits) ELSE "BLOCKED"
          IN  Judge(v) /\ verified' = IF v = "PASS" THEN {code} ELSE verified
    /\ UNCHANGED tree

(* Stage 15: the human gate on the final diff.                             *)
FinalDiff ==
    /\ At(15)
    /\ Judge(IF req.approved THEN "PASS" ELSE "BLOCKED")
    /\ UNCHANGED <<tree, verified>>

(* Stage 16: the plan is always emitted, and never carried out.            *)
PlanRelease ==
    /\ At(16)
    /\ Judge("PASS")
    /\ UNCHANGED <<tree, verified>>

WouldCommit == req.commit /\ stages[15] = "PASS" /\ stages[14] = "PASS"

(* _record: the verdict goes to run.json.  What the call then does depends *)
(* on it: stages 10 to 14 stop at anything but PASS, 15 never stops.       *)
Record ==
    /\ pending # NoVerdict
    /\ stages' = [stages EXCEPT ![pc] = pending]
    /\ fresh' = fresh \cup {pc}
    /\ pending' = NoVerdict
    /\ \/ /\ pc \in 10..14 /\ pending # "PASS"
          /\ Finish(IF pc = 11 /\ pending = "BLOCKED" THEN "gate-pending" ELSE "blocked", FALSE)
       \/ pc = 13 /\ pending = "PASS" /\ ~req.releasing /\ Finish("complete", FALSE)
       \/ pc = 16 /\ Finish(IF WouldCommit THEN "complete" ELSE "gate-pending", WouldCommit)
       \/ /\ pc \in 10..15 /\ (pc # 15 => pending = "PASS") /\ (pc = 13 => req.releasing)
          /\ pc' = pc + 1 /\ UNCHANGED outcome
    /\ UNCHANGED <<done, tree, req, calls, verified>>

-----------------------------------------------------------------------------
(* The caller dies; what it computed and did not record is lost.           *)
Crash ==
    /\ pc # Idle
    /\ pc' = Idle /\ pending' = NoVerdict
    /\ UNCHANGED <<run, tree, req, outcome, calls, history>>

(* A human reopens a done task; later it is done again, in new code.       *)
Reopen(t) ==
    /\ pc = Idle /\ t \in done
    /\ done' = done \ {t}
    /\ outcome' = NoOutcome
    /\ UNCHANGED <<stages, tree, pc, pending, req, calls, history>>

Redo(t) ==
    /\ pc = Idle /\ t \notin done /\ code < MaxRev
    /\ done' = done \cup {t} /\ code' = code + 1
    /\ outcome' = NoOutcome
    /\ UNCHANGED <<stages, docs, outputs, dirty, pc, pending, req, calls, history>>

(* Someone removes the Graphify outputs, edits or restores tracked files.  *)
Housekeep ==
    /\ pc = Idle
    /\ outputs' \in {outputs, FALSE} /\ dirty' \in SUBSET Lines
    /\ outcome' = NoOutcome
    /\ UNCHANGED <<run, code, docs, pc, pending, req, calls, history>>

Next ==
    \/ \E r \in Callers : Call(r) \/ ConfigError(r)
    \/ Reuse \/ Document \/ AuditNotIndependent \/ Audit
    \/ RefuseRefresh \/ Refresh \/ VerifyGraph
    \/ FinalVerification \/ FinalDiff \/ PlanRelease
    \/ Record \/ Crash
    \/ \E t \in Task : Reopen(t) \/ Redo(t)
    \/ Housekeep

Spec == Init /\ [][Next]_vars

-----------------------------------------------------------------------------
(* Every variable keeps to the values run.json and the caller can hold.    *)
TypeOK ==
    /\ done \subseteq Task
    /\ stages \in [Stages -> Verdicts \cup {NoVerdict}]
    /\ code \in 0..MaxRev /\ docs \in 0..MaxRev
    /\ outputs \in BOOLEAN /\ dirty \subseteq Lines
    /\ pc \in Stages \cup {Idle} /\ pending \in Verdicts \cup {NoVerdict}
    /\ pc = Idle => pending = NoVerdict
    /\ req \in Callers /\ calls \in 0..MaxCalls
    /\ outcome.status \in {"none", "error", "gate-pending", "blocked", "complete"}
    /\ outcome.would_commit \in BOOLEAN
    /\ fresh \subseteq Stages /\ verified \subseteq 0..MaxRev

(* However often a call stopped, crashed and was made again, a caller is   *)
(* at a stage only while every selected task is done and every stage       *)
(* before it has a recorded PASS - but for the approval of stage 15, which *)
(* the release plan goes on without (the guards of POST_TASK_STAGES).      *)
StagesReachedInOrder ==
    pc # Idle =>
        /\ req.selected \subseteq done
        /\ \A s \in Stages \ {15} : s < pc => stages[s] = "PASS"

(* A commit is authorised only by the call that returns it: by its own     *)
(* control and approval, recorded in it, after it looked at the Graphify   *)
(* outputs itself.  Neither an approval nor a control is inherited from an *)
(* earlier call (stages 13, 15 and 16 take no recorded PASS over).         *)
ApprovalNotInherited ==
    outcome.would_commit =>
        /\ req.approved /\ req.commit /\ {13, 15, 16} \subseteq fresh
        /\ stages[14] = "PASS" /\ stages[15] = "PASS"

(* A lifecycle that reports complete leaves the Graphify outputs in place  *)
(* and, where the policy asks for it, no tracked change in the workspace:  *)
(* whatever was removed or edited since stage 12 passed.                   *)
CompleteHasOutputs ==
    outcome.status = "complete" =>
        outputs /\ (req.integration.tracked_empty => "workspace" \notin dirty)

(* The tail is walked as it is written down: types, the order of the       *)
(* stages and what a completed call leaves.                                *)
TailIsSound == TypeOK /\ StagesReachedInOrder /\ CompleteHasOutputs

(* A recorded PASS of the audit, the refresh and the final verification is *)
(* never replaced: no later call, refusal or crash takes it back.          *)
PassedStagesStay ==
    [][\A s \in {11, 12, 14} : stages[s] = "PASS" => stages'[s] = "PASS"]_vars

(* NOT an invariant (run it with post_stale.cfg).                          *)
(* "a real commit needs an explicit commit control + an approved final     *)
(* diff + a passing final verification" (post_task.py): the verification   *)
(* that passed was of the code that is released.                           *)
CommitVerifiesTree == outcome.would_commit => code \in verified
=============================================================================
