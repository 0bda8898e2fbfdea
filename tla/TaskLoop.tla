------------------------------ MODULE TaskLoop ------------------------------
(***************************************************************************)
(* One task driven by the runner: the scheduler's turn for it              *)
(* (execution.py), TaskEngine.run (task_engine.py), the executor window    *)
(* (dispatch.py) and the verification gate (verification_service.py,       *)
(* verification.py), over run.json, the worktree, the Markdown board and   *)
(* the repair reports.                                                     *)
(*                                                                         *)
(* disk is the task's record in run.json; mem is the runner's copy of it.  *)
(* A step ends where the code saves or touches anything else that outlives *)
(* the process, so a crash can fall between any two of those effects.      *)
(*                                                                         *)
(* A generation stands for the work of one executor window: the tree, the  *)
(* recorded evidence and the command records name the generation they are  *)
(* about.                                                                  *)
(***************************************************************************)
EXTENDS Naturals

CONSTANTS
    MaxRepair,         \* TaskSpec.max_repair_attempts
    NCmds,             \* number of declared verification commands
    HasPreconditions,  \* TaskSpec.preconditions is not empty
    ProhibitMutation,  \* a criterion forbids mutations in the current run
    RemoteRequired,    \* remote_evidence_required(spec)
    MaxGen,            \* bound: executor windows
    MaxRev             \* bound: amendment revisions

ASSUME SpecAssumption ==
    /\ MaxRepair \in Nat /\ NCmds \in Nat \ {0}
    /\ {HasPreconditions, ProhibitMutation, RemoteRequired} \subseteq BOOLEAN
ASSUME BoundsAssumption == MaxGen \in Nat /\ MaxRev \in Nat

VARIABLES
    disk,       \* the task's record as run.json holds it
    mem,        \* the runner's copy, life.run.task(task_id)
    tree,       \* generation whose changes the primary worktree holds
    board,      \* status the Markdown board shows
    reports,    \* <<revision, attempt>> of the persisted repair reports
    pc,         \* where the invocation is, or "off"
    window,     \* generation of the executor window being dispatched
    repairOf,   \* attempt of the repair report the executor is given, or 0
    package,    \* the command evidence handed to the verifiers
    external,   \* history: a verifier returned BLOCKED at this gate
    entry,      \* history: attempts when this invocation began
    launched    \* history: generations an executor was launched for

vars == <<disk, mem, tree, board, reports, pc, window, repairOf, package, external,
          entry, launched>>
local == <<window, repairOf, package, external, entry>>

Statuses  == {"to_do", "in_progress", "done"}
Stages    == (0..MaxRev) \X (1..MaxRepair + 1)
Locations == {"off", "reconcile", "prepare", "enter", "start", "started",
              "dispatch", "consumed", "running", "promoted", "verify",
              "verifiers", "done", "waiting", "failed", "repair"}
(* From the first dispatch decision to the last verdict.                   *)
InLoop    == {"dispatch", "consumed", "running", "promoted", "verify",
              "verifiers", "waiting", "failed", "repair"}

P == INSTANCE TaskProgress WITH
        status <- disk.status, verdicts <- disk.verdicts,
        attempts <- disk.attempts, revision <- disk.rev

(* The command records of one stage: how many, the generation the oldest   *)
(* was run against, and whether one of them is of a command that could not *)
(* be run.  More than NCmds records are never read again: all are alike.   *)
StageRecords == [count : 0..NCmds + 1, gen : 0..MaxGen, blocked : BOOLEAN]
NoRecords    == [count |-> 0, gen |-> 0, blocked |-> FALSE]
TooMany      == [count |-> NCmds + 1, gen |-> 0, blocked |-> FALSE]

VerdictPairs == [task : P!Tokens, test : P!Tokens]

TaskRecord ==
    [status : Statuses, verdicts : VerdictPairs \cup {P!NoVerdicts},
     attempts : 0..MaxRepair, rev : 0..MaxRev, nextGen : 1..MaxGen + 1,
     implemented : BOOLEAN,      \* operation_history has executor/succeeded
     pending : BOOLEAN,          \* operation_history[-1] is verification/blocked
     evidence : [gen : 0..MaxGen,
                 mutated : BOOLEAN,   \* current_run_mutation_reason
                 remote : BOOLEAN],   \* remote_evidence
     commands : [Stages -> StageRecords]]

(* What the verifiers are told of the commands: the generation they ran    *)
(* against, whether one of them could not be run, and                      *)
(* VerificationEvidence.complete.                                          *)
Packages  == [gen : 0..MaxGen, blocked : BOOLEAN, complete : BOOLEAN]
NoPackage == [gen |-> 0, blocked |-> FALSE, complete |-> FALSE]

TypeOK ==
    /\ disk \in TaskRecord /\ mem \in TaskRecord
    /\ tree \in 0..MaxGen
    /\ board \in Statuses
    /\ reports \subseteq (0..MaxRev) \X (2..MaxRepair + 2)
    /\ pc \in Locations
    /\ window \in 0..MaxGen
    /\ repairOf \in 0..MaxRepair + 2
    /\ package \in Packages
    /\ external \in BOOLEAN
    /\ entry \in 0..MaxRepair
    /\ launched \subseteq 0..MaxGen

FreshRecord ==
    [status |-> "to_do", verdicts |-> P!NoVerdicts, attempts |-> 0, rev |-> 0,
     nextGen |-> 1, implemented |-> FALSE,
     pending |-> FALSE,
     evidence |-> [gen |-> 0, mutated |-> FALSE, remote |-> FALSE],
     commands |-> [s \in Stages |-> NoRecords]]

(* _fresh_open_run has just created run.json; nobody has looked at the     *)
(* board yet.                                                              *)
Init ==
    /\ disk = FreshRecord /\ mem = FreshRecord
    /\ tree = 0
    /\ board \in Statuses
    /\ reports = {}
    /\ pc = "prepare"
    /\ window = 0 /\ repairOf = 0
    /\ package = NoPackage /\ external = FALSE
    /\ entry = 0
    /\ launched = {}

-----------------------------------------------------------------------------
(* Saving, and leaving an invocation                                       *)

(* record_operation, by what is ever asked of the history.                 *)
Op(rec, kind, outcome) ==
    [rec EXCEPT !.pending = (kind = "verification" /\ outcome = "blocked"),
                !.implemented = @ \/ (kind = "executor" /\ outcome = "succeeded")]

Save(rec) == mem' = rec /\ disk' = rec        \* Run.save
Note(rec) == mem' = rec /\ UNCHANGED disk     \* changed, not saved yet

(* The invocation returns, raises or dies: the next one starts from disk.  *)
Leave ==
    /\ pc' = "off"
    /\ mem' = disk'
    /\ window' = 0 /\ repairOf' = 0
    /\ package' = NoPackage /\ external' = FALSE
    /\ entry' = 0

Outside == <<tree, board, reports, launched>>

(* The last operation is saved and the invocation returns.                 *)
EndWith(kind, outcome) ==
    /\ Save(Op(mem, kind, outcome))
    /\ Leave
    /\ UNCHANGED Outside

-----------------------------------------------------------------------------
(* Opening a run and the scheduler's checks                                *)

Resume ==
    /\ pc = "off"
    /\ pc' = "reconcile"
    /\ entry' = mem.attempts
    /\ UNCHANGED <<disk, mem, Outside, window, repairOf, package, external>>

(* _reconcile_projection; then _next_actionable passes over a done task.   *)
Reconcile ==
    /\ pc = "reconcile"
    /\ board' = mem.status
    /\ UNCHANGED <<disk, tree, reports, launched>>
    /\ IF mem.status = "done" THEN Leave
       ELSE pc' = "prepare" /\ UNCHANGED <<mem, local>>

(* life.block after an unmet precondition or an executor that cannot be    *)
(* resolved: to_do becomes in_progress.  The board follows only in the     *)
(* first case, and only if it can be written.                              *)
BlockedBy(rec) ==
    Op([rec EXCEPT !.status = "in_progress"], "wait", "blocked")

PrepareBlocks ==
    /\ pc = "prepare"
    /\ Save(BlockedBy(mem))
    /\ board' \in {board, "in_progress"}
    /\ Leave
    /\ UNCHANGED <<tree, reports, launched>>

PreparePasses ==
    /\ pc = "prepare"
    /\ Save(IF HasPreconditions THEN Op(mem, "precondition", "succeeded")
                                ELSE mem)
    /\ pc' = "enter"
    /\ UNCHANGED <<Outside, local>>

(* The task lease is taken by another runner.                              *)
TaskLeaseHeld ==
    /\ pc = "enter"
    /\ EndWith("lease", "blocked")

-----------------------------------------------------------------------------
(* TaskEngine._enter                                                       *)

EnterToDo ==
    /\ pc = "enter" /\ mem.status = "to_do"
    /\ board' = "to_do"
    /\ pc' = "start"
    /\ UNCHANGED <<disk, mem, tree, reports, launched, local>>

StartTask ==
    /\ pc = "start"
    /\ Save([mem EXCEPT !.status = "in_progress"])
    /\ pc' = "started"
    /\ UNCHANGED <<Outside, local>>

ProjectStarted ==
    /\ pc = "started"
    /\ board' = "in_progress"
    /\ pc' = "enter"
    /\ UNCHANGED <<disk, mem, tree, reports, launched, local>>

(* BoardProjectionError, at any projection: ExecutionError ends the run.   *)
ProjectionFails ==
    /\ pc \in {"reconcile", "start", "started", "done"}
    /\ UNCHANGED <<disk, Outside>>
    /\ Leave

(* newest_repair_report, of the active revision only.                      *)
Newest(n) ==
    LET mine == {r \in reports : r[1] = mem.rev}
    IN  IF mine = {} THEN n = 0
        ELSE /\ <<mem.rev, n>> \in mine
             /\ \A r \in mine : r[2] <= n

VerificationPending(rec) ==
    rec.implemented /\ rec.pending

EnterInProgress ==
    /\ pc = "enter" /\ mem.status = "in_progress"
    /\ \E n \in 0..MaxRepair + 2 : Newest(n) /\ repairOf' = n
    /\ pc' = IF VerificationPending(mem) THEN "verify" ELSE "dispatch"
    /\ UNCHANGED <<disk, mem, Outside, window, package, external, entry>>

-----------------------------------------------------------------------------
(* The executor window                                                     *)

(* diagnose_baseline, before the first attempt of a revision only.         *)
AmendmentRequired ==
    /\ pc = "dispatch" /\ mem.attempts = 0
    /\ EndWith("baseline", "amendment_required")

(* pre_dispatch returns a blocker, which the scheduler records as a failed *)
(* execution.                                                              *)
PreDispatchBlocks ==
    /\ pc = "dispatch"
    /\ EndWith("execution", "failed")

(* DispatchError before the generation is consumed, or between that and    *)
(* the launch.                                                             *)
DispatchRefused ==
    /\ pc \in {"dispatch", "consumed"}
    /\ UNCHANGED <<disk, Outside>>
    /\ Leave

(* _validated_repair_report_path: a report is of the active revision.      *)
ReportOfRevision == repairOf = 0 \/ <<mem.rev, repairOf>> \in reports

(* Mutant: the generation is the gate's number.                            *)
GenerationByAttempt ==
    /\ pc = "dispatch" /\ mem.attempts < MaxGen
    /\ window' = mem.attempts + 1
    /\ Save(mem)
    /\ pc' = "consumed"
    /\ UNCHANGED <<Outside, repairOf, package, external, entry>>

ConsumeGeneration ==
    /\ pc = "dispatch" /\ ReportOfRevision
    /\ mem.nextGen <= MaxGen
    /\ window' = mem.nextGen
    /\ Save([mem EXCEPT !.nextGen = @ + 1])
    /\ pc' = "consumed"
    /\ UNCHANGED <<Outside, repairOf, package, external, entry>>

Launch ==
    /\ pc = "consumed"
    /\ Save(Op(mem, "executor", "started"))
    /\ launched' = launched \cup {window}
    /\ pc' = "running"
    /\ UNCHANGED <<tree, board, reports, local>>

(* Adapter error, non-zero exit, no session, malformed result: retryable.  *)
LaunchFails ==
    /\ pc = "running"
    /\ EndWith("executor", "retryable")

ExecutorBlocked ==
    /\ pc = "running"
    /\ EndWith("execution", "failed")

(* record_executor_evidence replaces the evidence, remote facts included.  *)
Evidence == [gen : {window}, remote : {FALSE},
             mutated : IF ProhibitMutation THEN BOOLEAN ELSE {FALSE}]

(* _scope_or_provenance_block: recorded as evidence, never promoted.       *)
ScopeBlocked ==
    /\ pc = "running"
    /\ \E e \in Evidence :
          Save(Op([mem EXCEPT !.evidence = e], "execution", "failed"))
    /\ Leave
    /\ UNCHANGED Outside

(* _promote_reviewable_paths writes the primary worktree before the        *)
(* evidence and the outcome are saved.                                     *)
Promote ==
    /\ pc = "running"
    /\ \E e \in Evidence : Note([mem EXCEPT !.evidence = e])
    /\ tree' = window
    /\ pc' = "promoted"
    /\ UNCHANGED <<board, reports, launched, local>>

ExecutorSucceeded ==
    /\ pc = "promoted"
    /\ Save(Op(mem, "executor", "succeeded"))
    /\ window' = 0
    /\ pc' = "verify"
    /\ UNCHANGED <<Outside, repairOf, package, external, entry>>

-----------------------------------------------------------------------------
(* The verification gate                                                   *)

(* Mutant: one stage for all gates of a revision.                          *)
StageOfRevision == <<mem.rev, 1>>

Stage == <<mem.rev, mem.attempts + 1>>
Records == mem.commands[Stage]

(* The remote observer may add what the evidence lacks.                    *)
Observed(rec) ==
    IF RemoteRequired /\ ~rec.evidence.remote
    THEN {rec, [rec EXCEPT !.evidence.remote = TRUE]} ELSE {rec}

(* As many records as declared commands: they are reused.                  *)
ReuseCommands ==
    /\ pc = "verify" /\ Records.count = NCmds
    /\ package' = [gen |-> Records.gen, blocked |-> Records.blocked,
                   complete |-> TRUE]
    /\ \E rec \in Observed(Op(mem, "verification", "resumed")) : Note(rec)
    /\ pc' = "verifiers"
    /\ UNCHANGED <<Outside, window, repairOf, external, entry>>

(* k commands are run; the last of them could not be run (stop) or was the *)
(* last one declared.                                                      *)
Appended(k, stop) ==
    IF Records.count + k > NCmds THEN TooMany
    ELSE [count   |-> Records.count + k,
          gen     |-> IF Records.count = 0 THEN tree ELSE Records.gen,
          blocked |-> Records.blocked \/ stop]

RunCommands ==
    /\ pc = "verify" /\ Records.count # NCmds
    /\ \E k \in 1..NCmds, stop \in BOOLEAN :
          /\ stop \/ k = NCmds
          /\ package' = [gen |-> tree, blocked |-> stop, complete |-> ~stop]
          /\ \E rec \in Observed([mem EXCEPT !.commands[Stage] =
                                                 Appended(k, stop)]) : Note(rec)
    /\ pc' = "verifiers"
    /\ UNCHANGED <<Outside, window, repairOf, external, entry>>

(* Mutant: the gate is tried again at once.                                *)
VerifierRetried ==
    /\ pc = "verifiers"
    /\ Save(Op(mem, "verification", "blocked"))
    /\ pc' = "verify"
    /\ UNCHANGED <<Outside, local>>

(* _run_one_verifier yields no verdict: launch failure, malformed or       *)
(* contradictory answer.  An answer is here one to the package just shown; *)
(* VerifierGate tells when it is an older one.                             *)
VerifierUnavailable ==
    /\ pc = "verifiers"
    /\ Save(Op(mem, "verification", "blocked"))
    /\ pc' = "waiting"
    /\ UNCHANGED <<Outside, local>>

(* Runner facts override both tokens: a mutation the criteria forbid, or   *)
(* required remote evidence that nobody observed.                          *)
ForcedFail(evidence) ==
    \/ evidence.mutated
    \/ RemoteRequired /\ ~evidence.remote

(* Mutant: runner facts only settle what the verifiers disagree about.     *)
SettledIfSplit(v) ==
    IF ForcedFail(mem.evidence) /\ v.task # v.test
    THEN [task |-> "FAIL", test |-> "FAIL"] ELSE v

Settled(v) == IF ForcedFail(mem.evidence) THEN [task |-> "FAIL", test |-> "FAIL"]
                                          ELSE v

OutcomeOf(v) == CASE P!Passed(v)  -> "succeeded"
                  [] P!Blocked(v) -> "blocked"
                  [] OTHER        -> "failed"

(* How TaskEngine.run goes on.                                             *)
AfterVerdicts(v) == CASE P!Passed(v)  -> "done"
                      [] P!Blocked(v) -> "waiting"
                      [] OTHER        -> "failed"

(* record_verdicts, and the save that ends VerificationService.verify.     *)
RecordVerdicts ==
    /\ pc = "verifiers"
    /\ \E v \in VerdictPairs :
         LET s == Settled(v) IN
         /\ external' = P!Blocked(v)
         /\ Save(Op([mem EXCEPT !.verdicts = s,
                                !.status = IF P!Passed(s) THEN "done" ELSE @],
                    "verification", OutcomeOf(s)))
         /\ pc' = AfterVerdicts(s)
    /\ UNCHANGED <<Outside, window, repairOf, package, entry>>

ProjectDone ==
    /\ pc = "done"
    /\ board' = "done"
    /\ UNCHANGED <<disk, tree, reports, launched>>
    /\ Leave

(* The scheduler's record of an invocation that did not finish the task.   *)
RecordFailedExecution ==
    /\ pc = "waiting"
    /\ EndWith("execution", "failed")

-----------------------------------------------------------------------------
(* Repair                                                                  *)

(* Mutant: the report has the number of the gate that failed.              *)
WriteGateReport ==
    /\ pc = "failed"
    /\ reports' = reports \cup {<<mem.rev, mem.attempts + 1>>}
    /\ pc' = "repair"
    /\ UNCHANGED <<disk, mem, tree, board, launched, local>>

(* _write_repair_report keeps a report that is already there.              *)
WriteRepairReport ==
    /\ pc = "failed"
    /\ reports' = reports \cup {<<mem.rev, mem.attempts + 2>>}
    /\ pc' = "repair"
    /\ UNCHANGED <<disk, mem, tree, board, launched, local>>

BeginRepair ==
    /\ pc = "repair" /\ mem.attempts < MaxRepair
    /\ Save(Op([mem EXCEPT !.attempts = @ + 1], "repair", "retryable"))
    /\ repairOf' = mem.attempts + 2
    /\ package' = NoPackage /\ external' = FALSE
    /\ pc' = "dispatch"
    /\ UNCHANGED <<Outside, window, entry>>

Escalate ==
    /\ pc = "repair" /\ mem.attempts >= MaxRepair
    /\ Save(Op(mem, "repair", "escalated"))
    /\ pc' = "waiting"
    /\ UNCHANGED <<Outside, local>>

-----------------------------------------------------------------------------
(* Between invocations                                                     *)

(* Mutant: spent attempts stay spent.                                      *)
AmendKeepsAttempts ==
    /\ pc = "off" /\ disk.status # "done" /\ disk.rev < MaxRev
    /\ Save(Op([disk EXCEPT !.rev = @ + 1, !.verdicts = P!NoVerdicts],
               "amendment", "approved"))
    /\ UNCHANGED <<Outside, pc, local>>

(* run_amend; the command evidence of earlier revisions stays.             *)
Amend ==
    /\ pc = "off" /\ disk.status # "done" /\ disk.rev < MaxRev
    /\ Save(Op([disk EXCEPT !.rev = @ + 1, !.attempts = 0,
                            !.verdicts = P!NoVerdicts], "amendment", "approved"))
    /\ UNCHANGED <<Outside, pc, local>>

(* The runner dies: what was not saved is lost.                            *)
Crash ==
    /\ pc # "off"
    /\ UNCHANGED <<disk, Outside>>
    /\ Leave

Enter == EnterToDo \/ StartTask \/ ProjectStarted \/ EnterInProgress
Scheduler == \/ Reconcile \/ PrepareBlocks \/ PreparePasses \/ TaskLeaseHeld
             \/ ProjectionFails \/ RecordFailedExecution
Window == \/ AmendmentRequired \/ PreDispatchBlocks \/ DispatchRefused
          \/ ConsumeGeneration \/ Launch \/ LaunchFails \/ ExecutorBlocked
          \/ ScopeBlocked \/ Promote \/ ExecutorSucceeded
Gate == \/ ReuseCommands \/ RunCommands \/ VerifierUnavailable
        \/ RecordVerdicts \/ ProjectDone
Repair == WriteRepairReport \/ BeginRepair \/ Escalate

(* What an invocation does once it has been started.                       *)
Step == Scheduler \/ Enter \/ Window \/ Gate \/ Repair

Next == Step \/ Resume \/ Amend \/ Crash

Spec == Init /\ [][Next]_vars

(* A runner that has not crashed goes on; adapters and commands return.    *)
FairSpec == Spec /\ WF_vars(Step)
-----------------------------------------------------------------------------
(* Properties                                                              *)

(* A completed task was passed by both verifiers, its recorded executor    *)
(* evidence is that of the work in the primary worktree, and no runner     *)
(* fact that forces a failure holds of it: record_verdicts against crashes *)
(* between promotion and save, amendments and resumed gates.               *)
CompletedWorkIsVerified ==
    disk.status = "done" =>
        /\ P!Passed(disk.verdicts)
        /\ disk.evidence.gen = tree /\ tree # 0
        /\ ~ForcedFail(disk.evidence)

(* Every spent repair attempt is within the budget and has its repair      *)
(* report on disk, whenever the runner crashed: the report is written      *)
(* before begin_repair is saved.                                           *)
SpentAttemptsReported ==
    /\ disk.attempts <= MaxRepair
    /\ \A n \in 1..disk.attempts : <<disk.rev, n + 1>> \in reports

(* An executor is never refused for a report of another revision, and that *)
(* of a repair is given one no older than the last spent attempt, over     *)
(* crashes, resumed runs and amendments: what _enter and the end of        *)
(* TaskEngine.run's loop choose is what dispatch_executor accepts.         *)
RepairIsBriefed ==
    pc = "dispatch" =>
        ReportOfRevision /\ (mem.attempts > 0 => repairOf > mem.attempts)

(* The account of the repair attempts: types and budget, and the reports.  *)
AttemptsAccounted == TypeOK /\ SpentAttemptsReported /\ RepairIsBriefed

(* No generation number is launched twice, crashes included: it is saved   *)
(* as consumed before the launch (consume_launch_generation, AC-3).        *)
NoRelaunch ==
    [][pc = "consumed" /\ pc' = "running" => window \notin launched]_vars

(* Verifiers judge the generation that is in the primary worktree: the     *)
(* executor evidence in their package is of it, even when the gate was     *)
(* entered without a new executor window.                                  *)
VerifiersSeeTree == pc = "verifiers" => mem.evidence.gen = tree /\ tree # 0

(* Once this invocation has spent a repair attempt, every gate it runs     *)
(* judges command records of the work in the tree; records of older work   *)
(* can only be met at the gate the invocation resumed.                     *)
FreshAfterRepair ==
    pc = "verifiers" /\ mem.attempts > entry => package.gen = tree

(* What a gate is shown, executor evidence and command records, is of the  *)
(* work in the tree, but for the records of the gate that was resumed.     *)
GateIsFresh == VerifiersSeeTree /\ FreshAfterRepair

(* The board never shows a status that run.json does not hold when it is   *)
(* written: projections follow the durable transition (_project).          *)
BoardFollowsRunJson == [][board' # board => board' = disk'.status]_vars

(* While the loop is at work the board says so, whatever earlier           *)
(* invocations left on it: reconciliation and _enter repair it first.      *)
BoardCurrentInLoop == pc \in InLoop => board = "in_progress"

(* A repair attempt is not spent on a gate whose verifiers report BLOCKED, *)
(* unless a runner fact forced both verdicts to FAIL.                      *)
BlockedSpendsOnlyIfForced ==
    [][mem'.attempts > mem.attempts /\ pc = "repair" =>
          ~external \/ ForcedFail(mem.evidence)]_vars

(* run.json alone tells a legal history of the task.                       *)
ImplementsProgress == P!Spec

(* Every invocation comes to an end: repairs are bounded, waits are left   *)
(* to a later invocation.                                                  *)
InvocationEnds == pc # "off" ~> pc = "off"

-----------------------------------------------------------------------------
(* What the sources say and the code does not do (loop_stale.cfg,          *)
(* loop_gate.cfg)                                                          *)

(* execution.py: "require the repair to return ``implemented`` and rerun   *)
(* *every* verification command".                                          *)
RepairRerunsCommands ==
    pc = "verifiers" /\ repairOf # 0 => package.gen = tree

(* task_engine.py, _enter: "continue that gate rather than manufacturing   *)
(* another implementation operation": a gate that waits for a verifier     *)
(* still waits when the invocation has ended.                              *)
WaitingGateIsKept ==
    [][pc = "waiting" /\ pc' = "off" /\ mem.pending => mem'.pending]_vars
=============================================================================
